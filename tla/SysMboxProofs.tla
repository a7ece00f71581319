--------------------------- MODULE SysMboxProofs ---------------------------
(***************************************************************************)
(* The mailboxes of sys_arch.c, for every set of tasks, mailboxes and      *)
(* messages, every tick rate and word size.                                *)
(*                                                                         *)
(* The inductive invariant is Inv: the types, what a task holds at each    *)
(* point of a call (CallsOK), the bound of the rings (RingsOK) and the     *)
(* four parts of SingleOwner. CallsOK is what makes SingleOwner inductive: *)
(* a task that overwrites its msg must not have held one.                  *)
(*                                                                         *)
(* The second part is about the thread of the stack (TcpipLoop), for every *)
(* number of applications, drivers and packets, every size of its mailbox  *)
(* and every period of its timer. A step of the loop is a step of the      *)
(* mailbox, which brings Inv with it. CallsPaired needs two parts of it:   *)
(* that a message with the thread is not in the pool (OnePlace), and what  *)
(* a driver holds, so that the packet it discards is never the message of  *)
(* a call (PacketsOnly).                                                   *)
(***************************************************************************)
EXTENDS TcpipLoop, SysTimeProofs

Inv == TypeOK /\ CallsOK /\ RingsOK /\ SingleOwner

-----------------------------------------------------------------------------
(* Sequences. *)

\* What Append does to a sequence.
LEMMA AppendLast ==
  ASSUME NEW S, NEW s \in Seq(S), NEW x \in S
  PROVE  /\ Append(s, x) \in Seq(S)
         /\ Append(s, x) # <<>>
         /\ Len(Append(s, x)) = Len(s) + 1
         /\ DOMAIN s = 1 .. Len(s)
         /\ DOMAIN Append(s, x) = 1 .. Len(s) + 1
         /\ \A i \in 1 .. Len(s) : Append(s, x)[i] = s[i]
         /\ Append(s, x)[Len(s) + 1] = x
OBVIOUS

\* What Head and Tail do to a sequence that is not empty.
LEMMA HeadTail ==
  ASSUME NEW S, NEW s \in Seq(S), s # <<>>
  PROVE  /\ Head(s) \in S
         /\ Head(s) = s[1]
         /\ Tail(s) \in Seq(S)
         /\ Len(s) \in Nat \ {0}
         /\ Len(Tail(s)) = Len(s) - 1
         /\ DOMAIN s = 1 .. Len(s)
         /\ DOMAIN Tail(s) = 1 .. Len(s) - 1
         /\ \A i \in 1 .. Len(s) - 1 : Tail(s)[i] = s[i + 1]
OBVIOUS

-----------------------------------------------------------------------------
(* Type correctness. CallsOK says that a call inside the library is about a *)
(* mailbox, which the types of ring' and msg' need.                         *)

\* Words: the constants are words, and the tick counter stays one.
LEMMA WordFacts ==
  /\ 0 \in Word
  /\ SYS_ARCH_TIMEOUT \in Nat
  /\ \A j \in Word : (j + 1) % WordMod \in Word
<1>1. \A j \in Word : j + 1 \in Int
  BY DEF Word
<1> QED
  BY <1>1, ClockAssumption, Remainder DEF Word, SYS_ARCH_TIMEOUT

\* A timeout is a natural number.
LEMMA TimeoutNat ==
  ASSUME TypeOK, NEW t \in Tasks
  PROVE  timeout[t] \in Nat
<1>1. timeout[t] \in Timeouts \cup {0}
  BY DEF TypeOK
<1>2. Timeouts \cup {0} \subseteq Nat
  BY MboxAssumption
<1> QED
  BY <1>1, <1>2

\* The invariants hold before the first call.
LEMMA InitInv == Init => TypeOK /\ CallsOK /\ RingsOK
BY WordFacts, MboxAssumption
DEF Init, LocalInit, TypeOK, CallsOK, RingsOK, PC, Live

\* Every step of sys_arch.c keeps the types.
LEMMA NextType ==
  ASSUME TypeOK, CallsOK, [Next]_vars
  PROVE  TypeOK'
<1> USE DEF TypeOK, PC
<1>1. ASSUME NEW m \in Mboxes, NEW size \in Sizes, sys_mbox_new(m, size)
      PROVE  TypeOK'
  <2>1. (IF size = 0 THEN DEFAULT_MBOX_SIZE ELSE size) \in Nat
    BY MboxAssumption DEF DEFAULT_MBOX_SIZE
  <2>2. handle' \in [Mboxes -> {"null", "live", "stale"}]
    BY <1>1 DEF sys_mbox_new
  <2>3. cap' \in [Mboxes -> Nat]
    BY <1>1, <2>1 DEF sys_mbox_new
  <2> QED
    BY <1>1, <2>2, <2>3 DEF sys_mbox_new, local
<1>2. ASSUME NEW m \in Mboxes, sys_mbox_free(m) \/ sys_mbox_set_invalid(m)
      PROVE  TypeOK'
  BY <1>2 DEF sys_mbox_free, sys_mbox_set_invalid, local
<1>3. ASSUME NEW t \in Tasks, NEW m \in Mboxes, NEW x \in Msgs, PostCall(t, m, x)
      PROVE  TypeOK'
  BY <1>3 DEF PostCall
<1>4. ASSUME NEW t \in Tasks, sys_mbox_post(t)
      PROVE  TypeOK'
  <2>1. at[t] \in Mboxes /\ msg[t] \in Msgs
    BY <1>4 DEF sys_mbox_post, CallsOK, Live
  <2>2. Append(ring[at[t]], msg[t]) \in Seq(Msgs)
    BY <2>1, AppendLast
  <2> QED
    BY <1>4, <2>1, <2>2 DEF sys_mbox_post
<1>5. ASSUME NEW t \in Tasks, NEW m \in Mboxes, NEW x \in Msgs, sys_mbox_trypost(t, m, x)
      PROVE  TypeOK'
  <2>1. Append(ring[m], x) \in Seq(Msgs)
    BY AppendLast
  <2> QED
    BY <1>5, <2>1 DEF sys_mbox_trypost
<1>6. ASSUME NEW t \in Tasks, Discard(t)
      PROVE  TypeOK'
  <2>1. msg[t] \in Msgs
    BY <1>6 DEF Discard, CallsOK
  <2> QED
    BY <1>6, <2>1 DEF Discard
<1>7. ASSUME NEW t \in Tasks, NEW m \in Mboxes, NEW ms \in Timeouts, FetchCall(t, m, ms)
      PROVE  TypeOK'
  BY <1>7 DEF FetchCall, shared
<1>8. ASSUME NEW t \in Tasks, RingGet(t)
      PROVE  TypeOK'
  <2>1. at[t] \in Mboxes
    BY <1>8 DEF RingGet, CallsOK, Live
  <2>2. Head(ring[at[t]]) \in Msgs /\ Tail(ring[at[t]]) \in Seq(Msgs)
    BY <1>8, <2>1, HeadTail DEF RingGet
  <2> QED
    BY <1>8, <2>1, <2>2 DEF RingGet
<1>9. ASSUME NEW t \in Tasks, RingWait(t)
      PROVE  TypeOK'
  <2>1. timeout[t] \in Nat
    BY <1>9, TimeoutNat
  <2>2. WaitTicks(timeout[t]) \subseteq Nat
    BY <2>1, WaitTicksNat
  <2> QED
    BY <1>9, <2>2 DEF RingWait, shared
<1>10. ASSUME NEW t \in Tasks, FetchTimeout(t)
       PROVE  TypeOK'
  BY <1>10, WordFacts DEF FetchTimeout, shared
<1>11. ASSUME NEW t \in Tasks, FetchReturn(t)
       PROVE  TypeOK'
  <2>1. timeout[t] \in Nat /\ start[t] \in Word /\ jiffies \in Word
    BY <1>11, TimeoutNat
  <2>2. WaitResult(start[t], jiffies, timeout[t]) \in 0 .. timeout[t]
    BY <2>1, WaitResultRange
  <2>3. WaitResult(start[t], jiffies, timeout[t]) \in Nat
    BY <2>1, <2>2
  <2> QED
    BY <1>11, <2>3 DEF FetchReturn, shared
<1>12. ASSUME NEW t \in Tasks, NEW m \in Mboxes, sys_arch_mbox_tryfetch(t, m)
       PROVE  TypeOK'
  <2>1. ring[m] # <<>> => Head(ring[m]) \in Msgs /\ Tail(ring[m]) \in Seq(Msgs)
    BY HeadTail
  <2>2. CASE ring[m] = <<>>
    BY <1>12, <2>2, WordFacts DEF sys_arch_mbox_tryfetch
  <2>3. CASE ring[m] # <<>>
    <3>1. ret' = [ret EXCEPT ![t] = 0] /\ pc' = [pc EXCEPT ![t] = "returned"]
      BY <1>12, <2>3 DEF sys_arch_mbox_tryfetch
    <3>2. msg' \in [Tasks -> Msgs \cup {NoMsg}] /\ ring' \in [Mboxes -> Seq(Msgs)]
      BY <1>12, <2>1, <2>3 DEF sys_arch_mbox_tryfetch
    <3> QED
      BY <1>12, <3>1, <3>2 DEF sys_arch_mbox_tryfetch
  <2> QED
    BY <2>2, <2>3
<1>13. ASSUME NEW t \in Tasks, Release(t)
       PROVE  TypeOK'
  BY <1>13, WordFacts DEF Release
<1>14. CASE Tick
  <2>1. left' \in [Tasks -> Nat]
    BY <1>14 DEF Tick
  <2> QED
    BY <1>14, <2>1, WordFacts DEF Tick
<1>15. CASE UNCHANGED vars
  BY <1>15 DEF vars, shared, local
<1> QED
  BY <1>1, <1>2, <1>3, <1>4, <1>5, <1>6, <1>7, <1>8, <1>9, <1>10, <1>11,
     <1>12, <1>13, <1>14, <1>15
  DEF Next, Post, Fetch, Manage, Tasks

-----------------------------------------------------------------------------
(* What the calls hold, and what the rings hold. *)

\* Every step keeps the calls in order: no mailbox is freed under a call.
LEMMA NextCalls ==
  ASSUME TypeOK, CallsOK, [Next]_vars
  PROVE  CallsOK'
<1> USE DEF TypeOK, CallsOK, Live, Usable
<1>1. ASSUME NEW m \in Mboxes, Manage(m)
      PROVE  CallsOK'
  <2>1. UNCHANGED <<pc, at, msg, timeout>>
    BY <1>1 DEF Manage, sys_mbox_new, sys_mbox_free, sys_mbox_set_invalid, local
  <2>2. ASSUME NEW t \in Tasks, pc[t] \in {"putting", "fetching", "waiting"}
        PROVE  handle'[at[t]] = "live"
    BY <1>1, <2>2
    DEF Manage, sys_mbox_new, sys_mbox_free, sys_mbox_set_invalid, Inside
  <2> QED
    BY <2>1, <2>2
<1>2. ASSUME NEW t \in Tasks, NEW m \in Mboxes, NEW x \in Msgs, PostCall(t, m, x)
      PROVE  CallsOK'
  BY <1>2, MboxAssumption DEF PostCall
<1>3. ASSUME NEW t \in Tasks, sys_mbox_post(t)
      PROVE  CallsOK'
  BY <1>3 DEF sys_mbox_post
<1>4. ASSUME NEW t \in Tasks, NEW m \in Mboxes, NEW x \in Msgs, sys_mbox_trypost(t, m, x)
      PROVE  CallsOK'
  BY <1>4, MboxAssumption DEF sys_mbox_trypost
<1>5. ASSUME NEW t \in Tasks, Discard(t)
      PROVE  CallsOK'
  BY <1>5 DEF Discard
<1>6. ASSUME NEW t \in Tasks, NEW m \in Mboxes, NEW ms \in Timeouts, FetchCall(t, m, ms)
      PROVE  CallsOK'
  BY <1>6 DEF FetchCall, shared
<1>7. ASSUME NEW t \in Tasks, RingGet(t)
      PROVE  CallsOK'
  <2>1. Head(ring[at[t]]) \in Msgs
    BY <1>7, HeadTail DEF RingGet
  <2> QED
    BY <1>7, <2>1, MboxAssumption DEF RingGet
<1>8. ASSUME NEW t \in Tasks, RingWait(t) \/ FetchTimeout(t) \/ FetchReturn(t)
      PROVE  CallsOK'
  BY <1>8 DEF RingWait, FetchTimeout, FetchReturn, shared
<1>9. ASSUME NEW t \in Tasks, NEW m \in Mboxes, sys_arch_mbox_tryfetch(t, m)
      PROVE  CallsOK'
  BY <1>9 DEF sys_arch_mbox_tryfetch
<1>10. ASSUME NEW t \in Tasks, Release(t)
       PROVE  CallsOK'
  BY <1>10 DEF Release
<1>11. CASE Tick \/ UNCHANGED vars
  BY <1>11 DEF Tick, vars, shared, local
<1> QED
  BY <1>1, <1>2, <1>3, <1>4, <1>5, <1>6, <1>7, <1>8, <1>9, <1>10, <1>11
  DEF Next, Post, Fetch, Tasks

\* Every step leaves the rings alone, appends to a ring with a free slot, or
\* removes the oldest pointer of a ring.
Enqueues(m, x) ==
  /\ m \in Live
  /\ Len(ring[m]) < cap[m]
  /\ ring' = [ring EXCEPT ![m] = Append(@, x)]

Dequeues(m) ==
  /\ m \in Live
  /\ ring[m] # <<>>
  /\ ring' = [ring EXCEPT ![m] = Tail(@)]

\* Every step keeps the rings within their capacity, and empty when freed.
LEMMA NextRings ==
  ASSUME TypeOK, CallsOK, RingsOK, [Next]_vars
  PROVE  RingsOK'
<1> USE DEF TypeOK
<1>1. ASSUME NEW m \in Mboxes, NEW x \in Msgs, Enqueues(m, x), UNCHANGED <<handle, cap>>
      PROVE  RingsOK'
  <2>1. /\ Len(Append(ring[m], x)) = Len(ring[m]) + 1
        /\ Len(ring[m]) \in Nat
        /\ cap[m] \in Nat
    BY AppendLast
  <2> QED
    BY <1>1, <2>1 DEF Enqueues, RingsOK, Live
<1>2. ASSUME NEW m \in Mboxes, Dequeues(m), UNCHANGED <<handle, cap>>
      PROVE  RingsOK'
  <2>1. /\ Len(Tail(ring[m])) = Len(ring[m]) - 1
        /\ Len(ring[m]) \in Nat
        /\ cap[m] \in Nat
    BY <1>2, HeadTail DEF Dequeues
  <2> QED
    BY <1>2, <2>1 DEF Dequeues, RingsOK, Live
<1>3. ASSUME NEW m \in Mboxes, NEW size \in Sizes, sys_mbox_new(m, size)
      PROVE  RingsOK'
  <2>1. (IF size = 0 THEN DEFAULT_MBOX_SIZE ELSE size) \in Nat \ {0}
    BY MboxAssumption DEF DEFAULT_MBOX_SIZE
  <2>2. ring[m] = <<>> /\ Len(ring[m]) = 0
    BY <1>3 DEF sys_mbox_new, Usable, RingsOK, Live
  <2>3. cap'[m] \in Nat /\ (handle'[m] = "live" => cap'[m] > 0)
    BY <1>3, <2>1 DEF sys_mbox_new
  <2>4. /\ ring' = ring
        /\ \A n \in Mboxes \ {m} : cap'[n] = cap[n] /\ handle'[n] = handle[n]
    BY <1>3 DEF sys_mbox_new
  <2>5. ASSUME NEW n \in Mboxes
        PROVE  /\ Len(ring'[n]) <= cap'[n]
               /\ n \notin Live' => ring'[n] = <<>>
               /\ n \in Live' => cap'[n] > 0
    <3>1. CASE n = m
      BY <2>2, <2>3, <2>4, <3>1 DEF Live
    <3>2. CASE n # m
      BY <2>4, <3>2 DEF RingsOK, Live
    <3> QED
      BY <3>1, <3>2
  <2> QED
    BY <2>5 DEF RingsOK
<1>4. ASSUME NEW m \in Mboxes, sys_mbox_free(m) \/ sys_mbox_set_invalid(m)
      PROVE  RingsOK'
  BY <1>4 DEF sys_mbox_free, sys_mbox_set_invalid, Usable, RingsOK, Live
<1>5. CASE UNCHANGED <<handle, cap, ring>>
  BY <1>5 DEF RingsOK, Live
<1>6. ASSUME NEW t \in Tasks, sys_mbox_post(t)
      PROVE  RingsOK'
  <2>1. at[t] \in Mboxes /\ at[t] \in Live /\ msg[t] \in Msgs
    BY <1>6 DEF sys_mbox_post, CallsOK, Live
  <2>2. Enqueues(at[t], msg[t]) /\ UNCHANGED <<handle, cap>>
    BY <1>6, <2>1 DEF sys_mbox_post, Enqueues
  <2> QED
    BY <1>1, <2>1, <2>2
<1>7. ASSUME NEW t \in Tasks, NEW m \in Mboxes, NEW x \in Msgs, sys_mbox_trypost(t, m, x)
      PROVE  RingsOK'
  <2>1. \/ Enqueues(m, x) /\ UNCHANGED <<handle, cap>>
        \/ UNCHANGED <<handle, cap, ring>>
    BY <1>7 DEF sys_mbox_trypost, Enqueues, Usable, Live
  <2> QED
    BY <1>1, <1>5, <2>1
<1>8. ASSUME NEW t \in Tasks, RingGet(t)
      PROVE  RingsOK'
  <2>1. at[t] \in Mboxes /\ Dequeues(at[t]) /\ UNCHANGED <<handle, cap>>
    BY <1>8 DEF RingGet, CallsOK, Live, Dequeues
  <2> QED
    BY <1>2, <2>1
<1>9. ASSUME NEW t \in Tasks, NEW m \in Mboxes, sys_arch_mbox_tryfetch(t, m)
      PROVE  RingsOK'
  <2>1. \/ Dequeues(m) /\ UNCHANGED <<handle, cap>>
        \/ UNCHANGED <<handle, cap, ring>>
    BY <1>9 DEF sys_arch_mbox_tryfetch, Dequeues, Usable, Live
  <2> QED
    BY <1>2, <1>5, <2>1
<1> QED
  BY <1>3, <1>4, <1>5, <1>6, <1>7, <1>8, <1>9
  DEF Next, Post, Fetch, Manage, Tasks, PostCall, Discard, FetchCall, RingWait,
      FetchTimeout, FetchReturn, Release, Tick, vars, shared

-----------------------------------------------------------------------------
(* Where the messages are. Each lemma says what one kind of assignment does *)
(* to the messages that are held or queued.                                 *)

\* A pointer that was in no ring is in exactly one slot after it is put.
LEMMA EnqueueFacts ==
  ASSUME TypeOK, OneSlot,
         NEW m \in Mboxes, NEW x \in Msgs, Enqueues(m, x), ~Queued(x)
  PROVE  /\ OneSlot'
         /\ \A y \in Msgs : Queued(y)' <=> Queued(y) \/ y = x
<1>1. /\ DOMAIN ring[m] = 1 .. Len(ring[m])
      /\ Len(ring[m]) \in Nat
      /\ DOMAIN ring'[m] = 1 .. Len(ring[m]) + 1
      /\ \A i \in 1 .. Len(ring[m]) : ring'[m][i] = ring[m][i]
      /\ ring'[m][Len(ring[m]) + 1] = x
  BY AppendLast DEF TypeOK, Enqueues
<1>2. \A n \in Mboxes \ {m} : ring'[n] = ring[n]
  BY DEF TypeOK, Enqueues
<1>3. ASSUME NEW n \in Mboxes, NEW j \in DOMAIN ring'[n]
      PROVE  \/ n = m /\ j = Len(ring[m]) + 1 /\ ring'[n][j] = x
             \/ j \in DOMAIN ring[n] /\ ring'[n][j] = ring[n][j] /\ ring[n][j] # x
  BY <1>1, <1>2, <1>3 DEF Queued
<1>4. OneSlot'
  BY <1>3 DEF OneSlot
<1>5. ASSUME NEW y \in Msgs
      PROVE  Queued(y)' <=> Queued(y) \/ y = x
  <2>1. ASSUME Queued(y)'
        PROVE  Queued(y) \/ y = x
    BY <1>3, <2>1 DEF Queued
  <2>2. ASSUME Queued(y)
        PROVE  Queued(y)'
    <3>a. PICK n \in Mboxes : \E i \in DOMAIN ring[n] : ring[n][i] = y
      BY <2>2 DEF Queued
    <3>1. PICK j \in DOMAIN ring[n] : ring[n][j] = y
      BY <3>a
    <3>2. j \in DOMAIN ring'[n] /\ ring'[n][j] = y
      BY <1>1, <1>2, <3>1
    <3> QED
      BY <3>1, <3>2 DEF Queued
  <2>3. Len(ring[m]) + 1 \in DOMAIN ring'[m]
    BY <1>1
  <2>4. Queued(x)'
    BY <1>1, <2>3 DEF Queued
  <2> QED
    BY <2>1, <2>2, <2>4
<1> QED
  BY <1>4, <1>5

\* The pointer that is got out of a ring is in no slot any more.
LEMMA DequeueFacts ==
  ASSUME TypeOK, OneSlot, NEW m \in Mboxes, Dequeues(m)
  PROVE  /\ OneSlot'
         /\ Head(ring[m]) \in Msgs
         /\ Queued(Head(ring[m]))
         /\ \A y \in Msgs : Queued(y)' <=> Queued(y) /\ y # Head(ring[m])
<1> DEFINE x == Head(ring[m])
<1>1. /\ x \in Msgs
      /\ x = ring[m][1]
      /\ Len(ring[m]) \in Nat \ {0}
      /\ DOMAIN ring[m] = 1 .. Len(ring[m])
      /\ DOMAIN ring'[m] = 1 .. Len(ring[m]) - 1
      /\ \A i \in 1 .. Len(ring[m]) - 1 : ring'[m][i] = ring[m][i + 1]
  BY HeadTail DEF TypeOK, Dequeues
<1>2. \A n \in Mboxes \ {m} : ring'[n] = ring[n]
  BY DEF TypeOK, Dequeues
<1> HIDE DEF x
<1>3. 1 \in DOMAIN ring[m]
  BY <1>1
<1>4. Queued(x)
  BY <1>1, <1>3 DEF Queued
<1>5. ASSUME NEW n \in Mboxes, NEW i \in DOMAIN ring'[n]
      PROVE  LET k == IF n = m THEN i + 1 ELSE i
             IN  k \in DOMAIN ring[n] /\ ring'[n][i] = ring[n][k]
  <2>1. CASE n # m
    BY <1>2, <1>5, <2>1
  <2>2. CASE n = m
    <3>1. i \in 1 .. Len(ring[m]) - 1
      BY <1>1, <1>5, <2>2
    <3>2. i + 1 \in DOMAIN ring[m]
      BY <1>1, <3>1
    <3> QED
      BY <1>1, <2>2, <3>1, <3>2
  <2> QED
    BY <2>1, <2>2
<1>6. ASSUME NEW n \in Mboxes, NEW i \in DOMAIN ring'[n]
      PROVE  i \in Int
  <2>1. \A k \in DOMAIN ring[n] : k \in Int
    <3>1. ring[n] \in Seq(Msgs)
      BY DEF TypeOK
    <3>2. DOMAIN ring[n] = 1 .. Len(ring[n]) /\ Len(ring[n]) \in Nat
      BY <3>1
    <3> QED
      BY <3>2
  <2> QED
    BY <1>1, <1>2, <1>6, <2>1
<1>7. OneSlot'
  BY <1>5, <1>6 DEF OneSlot
<1>8. ASSUME NEW n \in Mboxes, NEW i \in DOMAIN ring'[n]
      PROVE  ring'[n][i] # x
  BY <1>1, <1>2, <1>3, <1>5, <1>6, <1>8 DEF OneSlot
<1>9. ASSUME NEW y \in Msgs
      PROVE  Queued(y)' <=> Queued(y) /\ y # x
  <2>1. ASSUME Queued(y)'
        PROVE  Queued(y) /\ y # x
    BY <1>5, <1>8, <2>1 DEF Queued
  <2>2. ASSUME Queued(y), y # x
        PROVE  Queued(y)'
    <3>a. PICK n \in Mboxes : \E i \in DOMAIN ring[n] : ring[n][i] = y
      BY <2>2 DEF Queued
    <3>1. PICK j \in DOMAIN ring[n] : ring[n][j] = y
      BY <3>a
    <3>2. CASE n # m
      BY <1>2, <3>1, <3>2 DEF Queued
    <3>3. CASE n = m
      <4>1. j \in 1 .. Len(ring[m]) /\ ring[m][j] = y
        BY <1>1, <3>1, <3>3
      <4>2. j # 1
        BY <1>1, <2>2, <4>1
      <4>3. j - 1 \in 1 .. Len(ring[m]) - 1 /\ (j - 1) + 1 = j
        BY <1>1, <4>1, <4>2
      <4>4. j - 1 \in DOMAIN ring'[m] /\ ring'[m][j - 1] = y
        BY <1>1, <4>1, <4>3
      <4> QED
        BY <4>4 DEF Queued
    <3> QED
      BY <3>2, <3>3
  <2> QED
    BY <2>1, <2>2
<1> QED
  BY <1>1, <1>4, <1>7, <1>9 DEF x

\* A task that holds nothing takes a message that nobody holds.
LEMMA TakeFacts ==
  ASSUME TypeOK, OneHolder,
         NEW t \in Tasks, NEW x \in Msgs, msg[t] = NoMsg, ~Held(x),
         msg' = [msg EXCEPT ![t] = x]
  PROVE  /\ OneHolder'
         /\ \A y \in Msgs : Held(y)' <=> Held(y) \/ y = x
<1>1. msg'[t] = x /\ \A u \in Tasks \ {t} : msg'[u] = msg[u]
  BY DEF TypeOK
<1>2. OneHolder'
  BY <1>1 DEF OneHolder, Held
<1>3. \A y \in Msgs : Held(y)' <=> Held(y) \/ y = x
  BY <1>1, MboxAssumption DEF Held
<1> QED
  BY <1>2, <1>3

\* A task gives up the message it holds.
LEMMA DropFacts ==
  ASSUME TypeOK, OneHolder,
         NEW t \in Tasks, msg[t] # NoMsg,
         msg' = [msg EXCEPT ![t] = NoMsg]
  PROVE  /\ OneHolder'
         /\ msg[t] \in Msgs
         /\ Held(msg[t])
         /\ \A y \in Msgs : Held(y)' <=> Held(y) /\ y # msg[t]
<1>1. msg'[t] = NoMsg /\ \A u \in Tasks \ {t} : msg'[u] = msg[u]
  BY DEF TypeOK
<1>2. msg[t] \in Msgs /\ Held(msg[t])
  BY DEF TypeOK, Held
<1>3. OneHolder'
  BY <1>1 DEF OneHolder
<1>4. \A y \in Msgs : Held(y)' <=> Held(y) /\ y # msg[t]
  BY <1>1, MboxAssumption DEF Held, OneHolder
<1> QED
  BY <1>2, <1>3, <1>4

\* At first every message buffer is in the pool.
LEMMA InitSingle == Init => SingleOwner
BY MboxAssumption
DEF Init, LocalInit, SingleOwner, OneHolder, OneSlot, OnePlace, NoLeak, Held, Queued

\* Every step of a post, a fetch, a poll or a refusal leaves each message buffer
\* with one owner.
LEMMA NextSingle ==
  ASSUME TypeOK, CallsOK, SingleOwner, [Next]_vars
  PROVE  SingleOwner'
<1> USE DEF SingleOwner, OnePlace, NoLeak
<1>1. ASSUME NEW t \in Tasks, NEW m \in Mboxes, NEW x \in Msgs, PostCall(t, m, x)
      PROVE  SingleOwner'
  <2>1. msg[t] = NoMsg /\ ~Held(x)
    BY <1>1 DEF PostCall, CallsOK
  <2>2. /\ OneHolder'
        /\ \A y \in Msgs : Held(y)' <=> Held(y) \/ y = x
    BY <1>1, <2>1, TakeFacts DEF PostCall
  <2>3. ring' = ring /\ pool' = pool \ {x} /\ x \in pool
    BY <1>1 DEF PostCall
  <2>4. OneSlot' /\ \A y \in Msgs : Queued(y)' <=> Queued(y)
    BY <2>3 DEF OneSlot, Queued
  <2> QED
    BY <2>2, <2>3, <2>4
<1>2. ASSUME NEW t \in Tasks, sys_mbox_post(t)
      PROVE  SingleOwner'
  <2> DEFINE x == msg[t]
  <2>1. at[t] \in Mboxes /\ at[t] \in Live /\ x # NoMsg /\ x \in Msgs
    BY <1>2 DEF sys_mbox_post, CallsOK, TypeOK, Live
  <2>2. /\ OneHolder'
        /\ Held(x)
        /\ \A y \in Msgs : Held(y)' <=> Held(y) /\ y # x
    BY <1>2, <2>1, DropFacts DEF sys_mbox_post
  <2>3. Enqueues(at[t], x) /\ ~Queued(x)
    BY <1>2, <2>1, <2>2 DEF sys_mbox_post, Enqueues
  <2>4. OneSlot' /\ \A y \in Msgs : Queued(y)' <=> Queued(y) \/ y = x
    BY <2>1, <2>3, EnqueueFacts
  <2>5. pool' = pool
    BY <1>2 DEF sys_mbox_post
  <2> HIDE DEF x
  <2> QED
    BY <2>1, <2>2, <2>4, <2>5
<1>3. ASSUME NEW t \in Tasks, NEW m \in Mboxes, NEW x \in Msgs, sys_mbox_trypost(t, m, x)
      PROVE  SingleOwner'
  <2>1. msg[t] = NoMsg /\ ~Held(x) /\ ~Queued(x)
    BY <1>3 DEF sys_mbox_trypost, CallsOK
  <2>2. pool' = pool \ {x} /\ x \in pool
    BY <1>3 DEF sys_mbox_trypost
  <2>3. CASE Len(ring[m]) < cap[m]
    <3>1. Enqueues(m, x) /\ msg' = msg
      BY <1>3, <2>3 DEF sys_mbox_trypost, Enqueues, Usable, Live
    <3>2. OneSlot' /\ \A y \in Msgs : Queued(y)' <=> Queued(y) \/ y = x
      BY <2>1, <3>1, EnqueueFacts
    <3>3. OneHolder' /\ \A y \in Msgs : Held(y)' <=> Held(y)
      BY <3>1 DEF OneHolder, Held
    <3> QED
      BY <2>2, <3>2, <3>3
  <2>4. CASE ~(Len(ring[m]) < cap[m])
    <3>1. ring' = ring /\ msg' = [msg EXCEPT ![t] = x]
      BY <1>3, <2>4 DEF sys_mbox_trypost
    <3>2. OneSlot' /\ \A y \in Msgs : Queued(y)' <=> Queued(y)
      BY <3>1 DEF OneSlot, Queued
    <3>3. OneHolder' /\ \A y \in Msgs : Held(y)' <=> Held(y) \/ y = x
      BY <2>1, <3>1, TakeFacts
    <3> QED
      BY <2>1, <2>2, <3>2, <3>3
  <2> QED
    BY <2>3, <2>4
<1>4. ASSUME NEW t \in Tasks,
             msg[t] # NoMsg, msg' = [msg EXCEPT ![t] = NoMsg],
             pool' = pool \cup {msg[t]}, ring' = ring
      PROVE  SingleOwner'
  <2>1. /\ OneHolder'
        /\ msg[t] \in Msgs /\ Held(msg[t])
        /\ \A y \in Msgs : Held(y)' <=> Held(y) /\ y # msg[t]
    BY <1>4, DropFacts
  <2>2. OneSlot' /\ \A y \in Msgs : Queued(y)' <=> Queued(y)
    BY <1>4 DEF OneSlot, Queued
  <2> QED
    BY <1>4, <2>1, <2>2
<1>5. ASSUME NEW t \in Tasks, NEW m \in Mboxes, Dequeues(m), msg[t] = NoMsg,
             msg' = [msg EXCEPT ![t] = Head(ring[m])], pool' = pool
      PROVE  SingleOwner'
  <2> DEFINE x == Head(ring[m])
  <2>1. /\ OneSlot'
        /\ x \in Msgs /\ Queued(x)
        /\ \A y \in Msgs : Queued(y)' <=> Queued(y) /\ y # x
    BY <1>5, DequeueFacts
  <2>2. ~Held(x) /\ x \notin pool
    BY <2>1
  <2>3. /\ OneHolder'
        /\ \A y \in Msgs : Held(y)' <=> Held(y) \/ y = x
    BY <1>5, <2>1, <2>2, TakeFacts
  <2> HIDE DEF x
  <2> QED
    BY <1>5, <2>1, <2>2, <2>3
<1>6. CASE UNCHANGED <<ring, pool, msg>>
  BY <1>6 DEF OneHolder, OneSlot, Held, Queued
<1>7. ASSUME NEW t \in Tasks, Discard(t)
      PROVE  SingleOwner'
  BY <1>4, <1>7 DEF Discard, CallsOK
<1>8. ASSUME NEW t \in Tasks, RingGet(t)
      PROVE  SingleOwner'
  <2>1. at[t] \in Mboxes /\ at[t] \in Live /\ msg[t] = NoMsg
    BY <1>8 DEF RingGet, CallsOK, Live
  <2>2. /\ Dequeues(at[t])
        /\ msg' = [msg EXCEPT ![t] = Head(ring[at[t]])]
        /\ pool' = pool
    BY <1>8, <2>1 DEF RingGet, Dequeues
  <2> QED
    BY <1>5, <2>1, <2>2
<1>9. ASSUME NEW t \in Tasks, NEW m \in Mboxes, sys_arch_mbox_tryfetch(t, m)
      PROVE  SingleOwner'
  <2>1. CASE ring[m] = <<>>
    BY <1>6, <1>9, <2>1 DEF sys_arch_mbox_tryfetch
  <2>2. CASE ring[m] # <<>>
    <3>1. msg[t] = NoMsg
      BY <1>9 DEF sys_arch_mbox_tryfetch, CallsOK
    <3>2. /\ Dequeues(m)
          /\ msg' = [msg EXCEPT ![t] = Head(ring[m])]
          /\ pool' = pool
      BY <1>9, <2>2 DEF sys_arch_mbox_tryfetch, Dequeues, Usable, Live
    <3> QED
      BY <1>5, <3>1, <3>2
  <2> QED
    BY <2>1, <2>2
<1>10. ASSUME NEW t \in Tasks, Release(t)
       PROVE  SingleOwner'
  <2>1. CASE msg[t] = NoMsg
    <3>1. msg' = msg
      BY <1>10, <2>1 DEF Release, TypeOK
    <3> QED
      BY <1>6, <1>10, <2>1, <3>1 DEF Release
  <2>2. CASE msg[t] # NoMsg
    BY <1>4, <1>10, <2>2 DEF Release
  <2> QED
    BY <2>1, <2>2
<1> QED
  BY <1>1, <1>2, <1>3, <1>6, <1>7, <1>8, <1>9, <1>10
  DEF Next, Post, Fetch, Manage, Tasks, FetchCall, RingWait, FetchTimeout,
      FetchReturn, Tick, sys_mbox_new, sys_mbox_free, sys_mbox_set_invalid,
      vars, shared, local

-----------------------------------------------------------------------------
(* The theorems. *)

\* Every step keeps the whole invariant.
LEMMA NextInv ==
  ASSUME Inv, [Next]_vars
  PROVE  Inv'
BY NextType, NextCalls, NextRings, NextSingle DEF Inv

\* Inv holds in every reachable state of every instance.
THEOREM Invariant == Spec => []Inv
<1>1. Init => Inv
  BY InitInv, InitSingle DEF Inv
<1> QED
  BY <1>1, NextInv, PTL DEF Spec

\* The variables of sys_arch.c keep their types: the words their width, the
\* rings messages only, a call the mailbox it is about.
THEOREM TypeCorrect == Spec => []TypeOK
BY Invariant, PTL DEF Inv

\* sys_mbox_post, sys_mbox_trypost, the two fetches and their timeouts neither
\* lose nor duplicate a message, and never leave a pointer with a task that
\* gave it away.
THEOREM MessagesHaveOneOwner == Spec => []SingleOwner
BY Invariant, PTL DEF Inv

-----------------------------------------------------------------------------
(* The time a fetch returns. *)

\* A fetch with a message and a timeout is about to return, or has returned a
\* time within the limits.
TimeInv ==
  \A t \in Tasks :
    pc[t] = "returned" /\ msg[t] # NoMsg /\ timeout[t] > 0
      => ret[t] \in 1 .. timeout[t]

\* Every step keeps TimeInv: FetchReturn by the arithmetic, FetchTimeout and
\* the poll because they return without a message or without a timeout.
LEMMA NextTime ==
  ASSUME HZ <= Second, TypeOK, CallsOK, TimeInv, [Next]_vars
  PROVE  TimeInv'
<1> SUFFICES ASSUME NEW u \in Tasks,
                    pc'[u] = "returned", msg'[u] # NoMsg, timeout'[u] > 0
             PROVE  ret'[u] \in 1 .. timeout'[u]
  BY DEF TimeInv
<1>1. CASE UNCHANGED <<pc[u], msg[u], timeout[u], ret[u]>>
  BY <1>1 DEF TimeInv
<1>2. ASSUME NEW t \in Tasks, FetchReturn(t)
      PROVE  ret'[u] \in 1 .. timeout'[u]
  <2>1. CASE t = u
    <3>1. start[u] \in Word /\ jiffies \in Word /\ timeout[u] \in Nat
      BY TimeoutNat DEF TypeOK
    <3>2. timeout'[u] = timeout[u]
      BY <1>2 DEF FetchReturn
    <3>3. WaitResult(start[u], jiffies, timeout[u]) \in 1 .. timeout[u]
      BY <3>1, <3>2, WaitResultRange
    <3> QED
      BY <1>2, <2>1, <3>2, <3>3 DEF FetchReturn, TypeOK
  <2>2. CASE t # u
    BY <1>1, <1>2, <2>2 DEF FetchReturn, shared, TypeOK
  <2> QED
    BY <2>1, <2>2
<1>3. ASSUME NEW t \in Tasks, FetchTimeout(t)
      PROVE  ret'[u] \in 1 .. timeout'[u]
  <2>1. t # u
    BY <1>3 DEF FetchTimeout, CallsOK
  <2> QED
    BY <1>1, <1>3, <2>1 DEF FetchTimeout, shared, TypeOK
<1>4. ASSUME NEW t \in Tasks, NEW m \in Mboxes, sys_arch_mbox_tryfetch(t, m)
      PROVE  ret'[u] \in 1 .. timeout'[u]
  <2>1. t # u
    BY <1>4 DEF sys_arch_mbox_tryfetch, CallsOK
  <2>2. CASE ring[m] = <<>>
    BY <1>1, <1>4, <2>1, <2>2 DEF sys_arch_mbox_tryfetch, TypeOK
  <2>3. CASE ring[m] # <<>>
    BY <1>1, <1>4, <2>1, <2>3 DEF sys_arch_mbox_tryfetch, TypeOK
  <2> QED
    BY <2>2, <2>3
<1>5. ASSUME NEW t \in Tasks,
             \/ \E m \in Mboxes, x \in Msgs :
                  PostCall(t, m, x) \/ sys_mbox_trypost(t, m, x)
             \/ sys_mbox_post(t) \/ Discard(t)
             \/ \E m \in Mboxes, ms \in Timeouts : FetchCall(t, m, ms)
             \/ RingGet(t) \/ RingWait(t) \/ Release(t)
      PROVE  ret'[u] \in 1 .. timeout'[u]
  <2>1. pc'[t] # "returned"
    BY <1>5
    DEF PostCall, sys_mbox_trypost, sys_mbox_post, Discard, FetchCall,
        RingGet, RingWait, Release, TypeOK
  <2>2. \A v \in Tasks \ {t} :
          UNCHANGED <<pc[v], msg[v], timeout[v], ret[v]>>
    BY <1>5
    DEF PostCall, sys_mbox_trypost, sys_mbox_post, Discard, FetchCall,
        RingGet, RingWait, Release, TypeOK, shared
  <2> QED
    BY <1>1, <2>1, <2>2
<1>6. CASE Tick \/ (\E m \in Mboxes : Manage(m)) \/ UNCHANGED vars
  BY <1>1, <1>6
  DEF Tick, Manage, sys_mbox_new, sys_mbox_free, sys_mbox_set_invalid,
      vars, local
<1> QED
  BY <1>2, <1>3, <1>4, <1>5, <1>6 DEF Next, Post, Fetch, Tasks

\* sys_arch_mbox_fetch returns at least 1 and at most the timeout whenever it
\* got a message, provided a tick lasts at least a millisecond: the tick
\* counter may wrap around and the wait may outlast the timeout.
THEOREM FetchTimeInRange ==
  ASSUME HZ <= Second
  PROVE  Spec => []WaitInRange
<1>1. Init => TimeInv
  BY DEF Init, LocalInit, TimeInv
<1>2. Inv /\ TimeInv /\ [Next]_vars => TimeInv'
  BY NextTime DEF Inv
<1>3. TimeInv => WaitInRange
  BY DEF TimeInv, WaitInRange, Tasks
<1> QED
  BY <1>1, <1>2, <1>3, Invariant, PTL DEF Spec

\* A fetch that returns with a message tells the time the millisecond clock
\* tells, to half a tick.
LEMMA NextClock ==
  ASSUME TypeOK, [Next]_vars,
         NEW t \in Fetchers, pc[t] = "got", pc'[t] = "returned",
         NoWrapBetween(start[t], jiffies)
  PROVE  WithinHalfATick(t)
<1>1. t \in Tasks
  BY DEF Tasks
<1>2. ASSUME NEW u \in Tasks, FetchReturn(u)
      PROVE  WithinHalfATick(t)
  <2>1. u = t
    BY <1>1, <1>2 DEF FetchReturn, TypeOK
  <2>2. ret'[t] = WaitResult(start[t], jiffies, timeout[t])
    BY <1>1, <1>2, <2>1 DEF FetchReturn, TypeOK
  <2>3. start[t] \in Word /\ jiffies \in Word /\ timeout[t] \in Nat
    BY <1>1, TimeoutNat DEF TypeOK
  <2> QED
    BY <2>2, <2>3, WaitFollowsClock DEF WithinHalfATick
<1>3. ASSUME NEW u \in Tasks, Post(u) \/ Fetch(u), ~FetchReturn(u)
      PROVE  FALSE
  BY <1>1, <1>3
  DEF Post, Fetch, PostCall, sys_mbox_post, sys_mbox_trypost, Discard, FetchCall,
      RingGet, RingWait, FetchTimeout, sys_arch_mbox_tryfetch, Release, TypeOK
<1>4. ASSUME Tick \/ (\E m \in Mboxes : Manage(m)) \/ UNCHANGED vars
      PROVE  FALSE
  BY <1>4
  DEF Tick, Manage, sys_mbox_new, sys_mbox_free, sys_mbox_set_invalid,
      vars, local
<1> QED
  BY <1>2, <1>3, <1>4 DEF Next, Tasks

\* Over a fetch during which sys_now does not wrap, sys_now and the time that the
\* fetch returns differ by half a tick at most. Of the others, over which the
\* clock starts again, nothing is claimed: NoWrapBetween leaves them out
\* (sys_arch.c:162-167, 231).
THEOREM FetchFollowsClock == Spec => ClocksAgree
<1>1. Inv /\ [Next]_vars =>
        [\A t \in Fetchers :
           pc[t] = "got" /\ pc'[t] = "returned" /\ NoWrapBetween(start[t], jiffies)
             => WithinHalfATick(t)]_vars
  BY NextClock DEF Inv
<1> QED
  BY <1>1, Invariant, PTL DEF Spec, ClocksAgree

-----------------------------------------------------------------------------
(* Refinement: the ports are a Mailbox. *)

\* At first no mailbox exists and every channel is empty.
LEMMA InitRefines == Init => Channel!Init
<1> SUFFICES ASSUME Init PROVE Channel!Init
  OBVIOUS
<1>1. OpenSize = [m \in Mboxes |-> 0]
  BY DEF Init, OpenSize, Live
<1> QED
  BY <1>1 DEF Init, Channel!Init

\* Every step of sys_arch.c is a step of Mailbox or leaves the channels alone.
LEMMA NextRefines ==
  ASSUME Inv, [Next]_vars
  PROVE  Channel!Next \/ UNCHANGED <<OpenSize, ring>>
<1> USE DEF Inv
<1>1. ASSUME UNCHANGED <<handle, cap>>
      PROVE  OpenSize' = OpenSize
  BY <1>1 DEF OpenSize, Live
<1>2. ASSUME NEW m \in Mboxes, NEW x \in Msgs, Enqueues(m, x), ~Queued(x),
             UNCHANGED <<handle, cap>>
      PROVE  Channel!Put(m, x)
  <2>1. OpenSize[m] = cap[m]
    BY <1>2 DEF Enqueues, OpenSize
  <2>2. ~Channel!Queued(x)
    BY <1>2 DEF Channel!Queued, Queued
  <2> QED
    BY <1>1, <1>2, <2>1, <2>2 DEF Channel!Put, Enqueues
<1>3. ASSUME NEW m \in Mboxes, Dequeues(m), UNCHANGED <<handle, cap>>
      PROVE  Channel!Get(m)
  BY <1>1, <1>3 DEF Channel!Get, Dequeues
<1>4. ASSUME NEW m \in Mboxes, NEW size \in Sizes, sys_mbox_new(m, size)
      PROVE  Channel!Open(m) \/ UNCHANGED <<OpenSize, ring>>
  <2>1. OpenSize[m] = 0 /\ ring' = ring /\ \A n \in Mboxes \ {m} : OpenSize'[n] = OpenSize[n]
    BY <1>4 DEF sys_mbox_new, Usable, OpenSize, Live, TypeOK
  <2>2. CASE handle'[m] = "live"
    <3>1. OpenSize'[m] = cap'[m] /\ cap'[m] \in Nat \ {0}
      <4>1. (IF size = 0 THEN DEFAULT_MBOX_SIZE ELSE size) \in Nat \ {0}
        BY MboxAssumption DEF DEFAULT_MBOX_SIZE
      <4>2. cap'[m] = IF size = 0 THEN DEFAULT_MBOX_SIZE ELSE size
        BY <1>4, <2>2 DEF sys_mbox_new, TypeOK
      <4>3. OpenSize'[m] = cap'[m]
        BY <2>2 DEF OpenSize, Live
      <4> QED
        BY <4>1, <4>2, <4>3
    <3>2. OpenSize' = [OpenSize EXCEPT ![m] = OpenSize'[m]]
      BY <2>1 DEF OpenSize
    <3> QED
      BY <2>1, <3>1, <3>2 DEF Channel!Open
  <2>3. CASE handle'[m] # "live"
    <3>1. OpenSize'[m] = OpenSize[m]
      BY <2>1, <2>3 DEF OpenSize, Live
    <3>2. OpenSize' = OpenSize
      BY <2>1, <3>1 DEF OpenSize
    <3> QED
      BY <2>1, <3>2
  <2> QED
    BY <2>2, <2>3
<1>5. ASSUME NEW m \in Mboxes, sys_mbox_free(m)
      PROVE  Channel!Close(m)
  <2>1. OpenSize[m] # 0 /\ ring[m] = <<>> /\ ring' = ring
    BY <1>5 DEF sys_mbox_free, Usable, OpenSize, Live, RingsOK
  <2>2. OpenSize'[m] = 0 /\ \A n \in Mboxes \ {m} : OpenSize'[n] = OpenSize[n]
    BY <1>5 DEF sys_mbox_free, OpenSize, Live, TypeOK
  <2>3. OpenSize' = [OpenSize EXCEPT ![m] = 0]
    BY <2>2 DEF OpenSize
  <2> QED
    BY <2>1, <2>3 DEF Channel!Close
<1>6. ASSUME NEW m \in Mboxes, sys_mbox_set_invalid(m)
      PROVE  UNCHANGED <<OpenSize, ring>>
  BY <1>6 DEF sys_mbox_set_invalid, OpenSize, Live, TypeOK
<1>7. CASE UNCHANGED <<handle, cap, ring>>
  BY <1>1, <1>7
<1>8. ASSUME NEW t \in Tasks, sys_mbox_post(t)
      PROVE  \E m \in Mboxes, x \in Msgs : Channel!Put(m, x)
  <2>1. at[t] \in Live /\ at[t] \in Mboxes /\ msg[t] \in Msgs
    BY <1>8 DEF sys_mbox_post, CallsOK, Live, TypeOK
  <2>2. ~Queued(msg[t])
    BY <2>1 DEF SingleOwner, OnePlace, Held
  <2>3. Enqueues(at[t], msg[t]) /\ UNCHANGED <<handle, cap>>
    BY <1>8, <2>1 DEF sys_mbox_post, Enqueues
  <2> QED
    BY <1>2, <2>1, <2>2, <2>3
<1>9. ASSUME NEW t \in Tasks, NEW m \in Mboxes, NEW x \in Msgs, sys_mbox_trypost(t, m, x)
      PROVE  Channel!Put(m, x) \/ UNCHANGED <<OpenSize, ring>>
  <2>1. ~Queued(x) /\ UNCHANGED <<handle, cap>>
    BY <1>9 DEF sys_mbox_trypost, SingleOwner, OnePlace
  <2>2. Enqueues(m, x) \/ ring' = ring
    BY <1>9 DEF sys_mbox_trypost, Enqueues, Usable, Live
  <2> QED
    BY <1>1, <1>2, <2>1, <2>2
<1>10. ASSUME NEW t \in Tasks, RingGet(t)
       PROVE  \E m \in Mboxes : Channel!Get(m)
  <2>1. at[t] \in Mboxes /\ Dequeues(at[t]) /\ UNCHANGED <<handle, cap>>
    BY <1>10 DEF RingGet, CallsOK, Live, Dequeues
  <2> QED
    BY <1>3, <2>1
<1>11. ASSUME NEW t \in Tasks, NEW m \in Mboxes, sys_arch_mbox_tryfetch(t, m)
       PROVE  Channel!Get(m) \/ UNCHANGED <<OpenSize, ring>>
  <2>1. UNCHANGED <<handle, cap>> /\ (Dequeues(m) \/ ring' = ring)
    BY <1>11 DEF sys_arch_mbox_tryfetch, Dequeues, Usable, Live
  <2> QED
    BY <1>1, <1>3, <2>1
<1>12. CASE \/ \E m \in Mboxes : Channel!Open(m) \/ Channel!Close(m) \/ Channel!Get(m)
            \/ \E m \in Mboxes, x \in Msgs : Channel!Put(m, x)
            \/ UNCHANGED <<OpenSize, ring>>
  BY <1>12 DEF Channel!Next
<1> QED
  BY <1>4, <1>5, <1>6, <1>7, <1>8, <1>9, <1>10, <1>11, <1>12
  DEF Next, Post, Fetch, Manage, Tasks, PostCall, Discard, FetchCall, RingWait,
      FetchTimeout, FetchReturn, Release, Tick, vars, shared

\* The mailbox functions of sys_arch.c implement bounded first-in first-out
\* channels: every step is a step of Mailbox or leaves the channels alone.
THEOREM ImplementsMailbox == Spec => ChannelSpec
<1>1. Inv /\ [Next]_vars => [Channel!Next]_(Channel!vars)
  BY NextRefines DEF Channel!vars
<1> QED
  BY <1>1, InitRefines, Invariant, PTL DEF Spec, ChannelSpec, Channel!Spec

-----------------------------------------------------------------------------
(* The thread of the stack.                                                  *)

\* The timer of the loop, and what applications are doing.
TimerOK == next \in 0 .. Period

ApiOK ==
  /\ api \in [Apps -> {"idle", "posting", "waiting"}]
  /\ sem \in [Apps -> Nat]

\* A driver holds packets, never the message of a call.
PacketsOnly == \A d \in Drivers : msg[d] \in Packets \cup {NoMsg}

LoopInv == Inv /\ TimerOK /\ ApiOK /\ PacketsOnly /\ CallsPaired

-----------------------------------------------------------------------------
(* The initial state: tcpip_init has created the mailbox. *)

\* The loop has its invariant when it starts.
LEMMA LoopInitInv ==
  ASSUME LoopConstants
  PROVE  LoopInit => LoopInv
<1> SUFFICES ASSUME LoopInit PROVE LoopInv
  OBVIOUS
<1> USE DEF LoopConstants
<1>1. TypeOK
  BY WordFacts, MboxAssumption DEF LoopInit, LocalInit, TypeOK, PC
<1>2. CallsOK /\ RingsOK
  BY MboxAssumption DEF LoopInit, LocalInit, CallsOK, RingsOK, Live
<1>3. SingleOwner
  BY MboxAssumption
  DEF LoopInit, LocalInit, SingleOwner, OneHolder, OneSlot, OnePlace, NoLeak,
      Held, Queued
<1>4. TimerOK /\ ApiOK /\ PacketsOnly
  BY DEF LoopInit, LocalInit, TimerOK, ApiOK, PacketsOnly, Tasks
<1>5. CallsPaired
  BY DEF LoopInit, CallsPaired
<1> QED
  BY <1>1, <1>2, <1>3, <1>4, <1>5 DEF LoopInv, Inv

-----------------------------------------------------------------------------
(* The loop uses the mailbox as every program does. *)

\* Every step of the applications, the drivers, the thread and the clock is a
\* step of the mailbox or leaves it alone.
LEMMA LoopStep ==
  ASSUME LoopConstants, TimerOK, [LoopNext]_loopVars
  PROVE  [Next]_vars
<1> USE DEF LoopConstants
<1>1. ASSUME NEW a \in Apps, ApiCall(a) \/ ApiPost(a) \/ sys_arch_sem_wait(a)
      PROVE  [Next]_vars
  BY <1>1 DEF ApiCall, ApiPost, sys_arch_sem_wait, Next, Post
<1>2. ASSUME NEW d \in Drivers, Packet(d)
      PROVE  [Next]_vars
  BY <1>2 DEF Packet, Next, Post
<1>3. CASE TimerFire
  BY <1>3 DEF TimerFire
<1>4. CASE LoopFetch
  <2>1. next \in Timeouts
    BY <1>4 DEF LoopFetch, TimerOK
  <2> QED
    BY <1>4, <2>1 DEF LoopFetch, Next, Fetch
<1>5. CASE LoopWait \/ LoopHandle
  BY <1>5 DEF LoopWait, LoopHandle, Next, Fetch
<1>6. CASE Clock \/ UNCHANGED loopVars
  BY <1>6 DEF Clock, loopVars, Next
<1> QED
  BY <1>1, <1>2, <1>3, <1>4, <1>5, <1>6 DEF LoopNext, ThreadStep

\* Every step keeps the types of the loop: the timer never counts below zero.
LEMMA LoopTypes ==
  ASSUME LoopConstants, TypeOK, TimerOK, ApiOK, [LoopNext]_loopVars
  PROVE  TimerOK' /\ ApiOK'
<1> USE DEF LoopConstants, TimerOK, ApiOK
<1>1. ASSUME NEW a \in Apps, ApiCall(a) \/ ApiPost(a) \/ sys_arch_sem_wait(a)
      PROVE  TimerOK' /\ ApiOK'
  BY <1>1 DEF ApiCall, ApiPost, sys_arch_sem_wait
<1>2. CASE TimerFire
  BY <1>2 DEF TimerFire
<1>3. CASE LoopHandle
  <2>1. ret[Thread] \in Nat
    BY DEF TypeOK, Tasks
  <2>2. TimerOK'
    BY <1>3, <2>1 DEF LoopHandle, CountDown
  <2>3. ApiOK'
    BY <1>3 DEF LoopHandle, sys_sem_signal
  <2> QED
    BY <2>2, <2>3
<1>4. CASE (\E d \in Drivers : Packet(d)) \/ LoopFetch \/ LoopWait \/ Clock
           \/ UNCHANGED loopVars
  BY <1>4 DEF Packet, LoopFetch, LoopWait, Clock, loopVars, loop
<1> QED
  BY <1>1, <1>2, <1>3, <1>4 DEF LoopNext, ThreadStep

\* Every step keeps PacketsOnly: a driver gets a message by a refused trypost.
LEMMA LoopPackets ==
  ASSUME LoopConstants, TypeOK, PacketsOnly, [LoopNext]_loopVars
  PROVE  PacketsOnly'
<1> USE DEF PacketsOnly
<1>1. /\ Drivers \subseteq Tasks /\ Thread \in Tasks /\ Apps \subseteq Tasks
      /\ Thread \notin Drivers /\ Apps \cap Drivers = {}
  BY DEF LoopConstants, Tasks
<1>2. ASSUME NEW a \in Apps, ApiCall(a) \/ ApiPost(a) \/ sys_arch_sem_wait(a)
      PROVE  PacketsOnly'
  BY <1>1, <1>2
  DEF ApiCall, ApiPost, sys_arch_sem_wait, PostCall, sys_mbox_post, TypeOK,
      vars, local
<1>3. ASSUME NEW d \in Drivers, Packet(d)
      PROVE  PacketsOnly'
  BY <1>1, <1>3 DEF Packet, sys_mbox_trypost, Discard, TypeOK
<1>4. CASE TimerFire \/ LoopFetch \/ Clock \/ UNCHANGED loopVars
  BY <1>4
  DEF TimerFire, LoopFetch, FetchCall, Clock, Tick, loopVars, vars, local
<1>5. CASE LoopWait \/ LoopHandle
  BY <1>1, <1>5
  DEF LoopWait, LoopHandle, RingGet, RingWait, FetchTimeout, FetchReturn,
      Release, TypeOK, shared
<1> QED
  BY <1>2, <1>3, <1>4, <1>5 DEF LoopNext, ThreadStep

-----------------------------------------------------------------------------
(* Calls and their answers. *)

\* What CallsPaired says of one application.
Paired(a) == (IF a \in pool THEN 0 ELSE 1) + sem[a]
               = IF api[a] = "idle" THEN 0 ELSE 1

\* A step that does not concern an application leaves it paired.
LEMMA Bystander ==
  ASSUME NEW a \in Apps, Paired(a),
         a \in pool' <=> a \in pool, sem'[a] = sem[a], api'[a] = api[a]
  PROVE  Paired(a)'
BY DEF Paired

\* A call begins: its message leaves the pool. It is posted, and it ends by taking
\* the signal.
LEMMA PairedApps ==
  ASSUME ApiOK, CallsPaired,
         NEW a \in Apps, ApiCall(a) \/ ApiPost(a) \/ sys_arch_sem_wait(a),
         NEW b \in Apps
  PROVE  Paired(b)'
<1>1. Paired(b) /\ sem[b] \in Nat
  BY DEF CallsPaired, Paired, ApiOK
<1>2. CASE b # a
  BY <1>1, <1>2, Bystander
  DEF ApiCall, ApiPost, sys_arch_sem_wait, PostCall, sys_mbox_post, vars, shared,
      ApiOK
<1>3. CASE b = a /\ ApiCall(a)
  BY <1>1, <1>3 DEF ApiCall, PostCall, Paired, ApiOK
<1>4. CASE b = a /\ ApiPost(a)
  BY <1>1, <1>4 DEF ApiPost, sys_mbox_post, Paired, ApiOK
<1>5. CASE b = a /\ sys_arch_sem_wait(a)
  BY <1>1, <1>5 DEF sys_arch_sem_wait, Paired, vars, shared, ApiOK
<1> QED
  BY <1>2, <1>3, <1>4, <1>5

\* Packets come and go without touching any call.
LEMMA PairedDrivers ==
  ASSUME LoopConstants, PacketsOnly, CallsPaired, NEW d \in Drivers, Packet(d), NEW b \in Apps
  PROVE  Paired(b)'
<1>1. Paired(b) /\ b \notin Packets \cup {NoMsg}
  BY MboxAssumption DEF LoopConstants, CallsPaired, Paired
<1>2. b \in pool' <=> b \in pool
  BY <1>1 DEF Packet, sys_mbox_trypost, Discard, PacketsOnly
<1> QED
  BY <1>1, <1>2, Bystander DEF Packet, loop

\* The thread answers the call whose message it holds, which is not in the pool,
\* and gives the message up with the same step.
LEMMA PairedHandle ==
  ASSUME LoopConstants, TypeOK, OnePlace, ApiOK, CallsPaired, LoopHandle,
         NEW b \in Apps
  PROVE  Paired(b)'
<1>1. Paired(b) /\ sem[b] \in Nat
  BY DEF CallsPaired, Paired, ApiOK
<1>2. b \in Msgs /\ b # NoMsg
  BY MboxAssumption DEF LoopConstants
<1>3. CASE msg[Thread] # b
  <2>1. b \in pool' <=> b \in pool
    BY <1>3 DEF LoopHandle, Release
  <2>2. sem'[b] = sem[b]
    BY <1>3 DEF LoopHandle, sys_sem_signal, ApiOK
  <2> QED
    BY <1>1, <2>1, <2>2, Bystander DEF LoopHandle
<1>4. CASE msg[Thread] = b
  <2>1. b \notin pool
    BY <1>2, <1>4 DEF LoopConstants, OnePlace, Held, Tasks
  <2>2. b \in pool'
    BY <1>2, <1>4 DEF LoopHandle, Release
  <2>3. sem'[b] = sem[b] + 1 /\ api' = api
    BY <1>4 DEF LoopHandle, sys_sem_signal, ApiOK
  <2> QED
    BY <1>1, <2>1, <2>2, <2>3 DEF Paired
<1> QED
  BY <1>3, <1>4

\* Every step keeps calls and answers paired.
LEMMA LoopCalls ==
  ASSUME LoopConstants, LoopInv, [LoopNext]_loopVars
  PROVE  CallsPaired'
<1> SUFFICES ASSUME NEW b \in Apps PROVE Paired(b)'
  BY DEF CallsPaired, Paired
<1>1. TypeOK /\ OnePlace /\ ApiOK /\ PacketsOnly /\ CallsPaired
  BY DEF LoopInv, Inv, SingleOwner
<1>2. CASE TimerFire \/ LoopFetch \/ LoopWait \/ Clock \/ UNCHANGED loopVars
  <2>1. Paired(b)
    BY <1>1 DEF CallsPaired, Paired
  <2>2. pool' = pool /\ sem' = sem /\ api' = api
    BY <1>2
    DEF TimerFire, LoopFetch, FetchCall, LoopWait, RingGet, RingWait,
        FetchTimeout, FetchReturn, Clock, Tick, loopVars, loop, vars, shared
  <2> QED
    BY <2>1, <2>2, Bystander
<1> QED
  BY <1>1, <1>2, PairedApps, PairedDrivers, PairedHandle
  DEF LoopNext, ThreadStep

-----------------------------------------------------------------------------
(* The theorems. *)

\* LoopInv holds in every reachable state of every instance.
THEOREM LoopInvariant ==
  ASSUME LoopConstants
  PROVE  LoopSpec => []LoopInv
<1>1. LoopInv /\ [LoopNext]_loopVars => LoopInv'
  <2> SUFFICES ASSUME LoopInv, [LoopNext]_loopVars PROVE LoopInv'
    OBVIOUS
  <2>1. Inv'
    BY LoopStep, NextInv DEF LoopInv
  <2> QED
    BY <2>1, LoopTypes, LoopPackets, LoopCalls DEF LoopInv, Inv
<1> QED
  BY <1>1, LoopInitInv, PTL DEF LoopSpec

\* The loop keeps its types and those of the mailbox; its timer never counts below
\* zero, whatever the fetches return.
THEOREM LoopTypeCorrect ==
  ASSUME LoopConstants
  PROVE  LoopSpec => []LoopTypeOK
<1>1. LoopInv => LoopTypeOK
  BY DEF LoopInv, Inv, TimerOK, ApiOK, LoopTypeOK
<1> QED
  BY <1>1, LoopInvariant, PTL

\* A call in progress has either its message on the way or its answer, never both
\* and never neither, and a call that is over has neither: the thread does not
\* touch the stack frame of a call that returned.
THEOREM CallsArePaired ==
  ASSUME LoopConstants
  PROVE  LoopSpec => []CallsPaired
BY LoopInvariant, PTL DEF LoopInv

\* What the thread counts its timer down with is a time from 1 up to the timeout
\* it gave, whenever it got a message, provided a tick lasts at least a
\* millisecond.
THEOREM LoopTimeInRange ==
  ASSUME LoopConstants, HZ <= Second
  PROVE  LoopSpec => []WaitInRange
<1>1. LoopInit => TimeInv
  BY DEF LoopInit, LocalInit, TimeInv
<1>2. LoopInv /\ TimeInv /\ [LoopNext]_loopVars => TimeInv'
  BY LoopStep, NextTime DEF LoopInv, Inv
<1>3. TimeInv => WaitInRange
  BY DEF TimeInv, WaitInRange, Tasks
<1> QED
  BY <1>1, <1>2, <1>3, LoopInvariant, PTL DEF LoopSpec

\* The same of the fetches of the stack's thread: the times that its timer goes by
\* and sys_now differ by half a tick at most over a fetch during which sys_now does
\* not wrap. Of a fetch over which it wraps, nothing is claimed.
THEOREM LoopFollowsClock ==
  ASSUME LoopConstants
  PROVE  LoopSpec => ClocksAgree
<1>1. LoopInv /\ [LoopNext]_loopVars =>
        [\A t \in Fetchers :
           pc[t] = "got" /\ pc'[t] = "returned" /\ NoWrapBetween(start[t], jiffies)
             => WithinHalfATick(t)]_vars
  BY LoopStep, NextClock DEF LoopInv, Inv
<1> QED
  BY <1>1, LoopInvariant, PTL DEF LoopSpec, ClocksAgree
=============================================================================
