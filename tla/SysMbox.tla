------------------------------- MODULE SysMbox -------------------------------
(***************************************************************************)
(* The mailboxes of sys_arch.c: tasks post and fetch pointers to messages  *)
(* through ring buffers of the kernel's library, with blocking, polling    *)
(* and timed calls.                                                        *)
(*                                                                         *)
(* uosRingPut and uosRingGet are library calls, atomic for their callers:  *)
(* each inserts or removes one pointer, or reports that it could not.      *)
(* What sys_arch.c does before and after them is a step of its own, so     *)
(* that other tasks and clock ticks come in between.                       *)
(*                                                                         *)
(* A message is followed from the pool of buffers, through the task that   *)
(* posts it, the ring and the task that fetches it, back to the pool.      *)
(***************************************************************************)
EXTENDS SysTime, Sequences

CONSTANTS
  Posters,    \* tasks that post: applications and device drivers
  Fetchers,   \* tasks that fetch
  Mboxes,     \* the sys_mbox_t variables of the program
  Msgs,       \* message buffers
  NoMsg,
  NoMbox,
  Sizes,      \* the sizes mailboxes are asked for; 0 asks for the default
  Timeouts    \* the timeouts fetches are called with, in milliseconds

Tasks == Posters \cup Fetchers

ASSUME MboxAssumption ==
  /\ NoMsg \notin Msgs
  /\ NoMbox \notin Mboxes
  /\ Sizes \subseteq Nat
  /\ Timeouts \subseteq Nat

VARIABLES
  jiffies,   \* the tick counter of the kernel
  handle,    \* what a sys_mbox_t variable holds: NULL, a ring, a freed ring
  cap,       \* slots of the ring
  ring,      \* the pointers in the ring, the oldest first
  pool,      \* message buffers that nobody uses
  pc,        \* where in sys_arch.c a task is
  at,        \* the mailbox its call is about
  msg,       \* the message it holds
  timeout,   \* the arguments and locals of sys_arch_mbox_fetch
  start,
  left,      \* ticks the kernel still lets it wait
  ret        \* what the fetch returned

shared == <<jiffies, handle, cap, ring, pool>>
local  == <<pc, at, msg, timeout, start, left, ret>>
vars   == <<shared, local>>

DEFAULT_MBOX_SIZE == 10

PC == {"idle", "putting", "refused", "fetching", "waiting", "got", "returned"}

\* Callers use a mailbox from its creation until it is freed. The code asserts
\* less, that the pointer is not NULL, which also holds for a freed ring.
Usable(m) == handle[m] = "live"

LocalInit ==
  /\ pc      = [t \in Tasks |-> "idle"]
  /\ at      = [t \in Tasks |-> NoMbox]
  /\ msg     = [t \in Tasks |-> NoMsg]
  /\ timeout = [t \in Tasks |-> 0]
  /\ start   = [t \in Tasks |-> 0]
  /\ left    = [t \in Tasks |-> 0]
  /\ ret     = [t \in Tasks |-> 0]

Init ==
  /\ jiffies = 0
  /\ handle = [m \in Mboxes |-> "null"]
  /\ cap    = [m \in Mboxes |-> 0]
  /\ ring   = [m \in Mboxes |-> <<>>]
  /\ pool   = Msgs
  /\ LocalInit

-----------------------------------------------------------------------------
(* Creation and destruction. *)

\* uosRingCreate may find no memory; the variable is assigned all the same.
sys_mbox_new(m, size) ==
  /\ ~Usable(m)
  /\ \/ /\ handle' = [handle EXCEPT ![m] = "live"]
        /\ cap' = [cap EXCEPT ![m] = IF size = 0 THEN DEFAULT_MBOX_SIZE
                                                 ELSE size]
     \/ /\ handle' = [handle EXCEPT ![m] = "null"]
        /\ UNCHANGED cap
  /\ UNCHANGED <<jiffies, ring, pool, local>>

Inside(t, m) == at[t] = m /\ pc[t] \in {"putting", "fetching", "waiting"}

\* lwIP frees a mailbox that it has drained and that no task is using. The
\* variable still points to the ring that is gone.
sys_mbox_free(m) ==
  /\ Usable(m)
  /\ ring[m] = <<>>
  /\ \A t \in Tasks : ~Inside(t, m)
  /\ handle' = [handle EXCEPT ![m] = "stale"]
  /\ UNCHANGED <<jiffies, cap, ring, pool, local>>

sys_mbox_set_invalid(m) ==
  /\ handle[m] = "stale"
  /\ handle' = [handle EXCEPT ![m] = "null"]
  /\ UNCHANGED <<jiffies, cap, ring, pool, local>>

-----------------------------------------------------------------------------
(* Posting. *)

\* A caller fills a buffer and enters sys_mbox_post with it.
PostCall(t, m, x) ==
  /\ pc[t] = "idle"
  /\ Usable(m)
  /\ x \in pool
  /\ pool' = pool \ {x}
  /\ msg' = [msg EXCEPT ![t] = x]
  /\ at' = [at EXCEPT ![t] = m]
  /\ pc' = [pc EXCEPT ![t] = "putting"]
  /\ UNCHANGED <<jiffies, handle, cap, ring, timeout, start, left, ret>>

\* Mutant: does not wait for a free slot.
sys_mbox_postOverfull(t) ==
  /\ pc[t] = "putting"
  /\ ring' = [ring EXCEPT ![at[t]] = Append(@, msg[t])]
  /\ msg' = [msg EXCEPT ![t] = NoMsg]
  /\ at' = [at EXCEPT ![t] = NoMbox]
  /\ pc' = [pc EXCEPT ![t] = "idle"]
  /\ UNCHANGED <<jiffies, handle, cap, pool, timeout, start, left, ret>>

\* uosRingPut(*mb, &msg, INFINITE): blocks while the ring is full.
sys_mbox_post(t) ==
  /\ pc[t] = "putting"
  /\ Len(ring[at[t]]) < cap[at[t]]
  /\ ring' = [ring EXCEPT ![at[t]] = Append(@, msg[t])]
  /\ msg' = [msg EXCEPT ![t] = NoMsg]
  /\ at' = [at EXCEPT ![t] = NoMbox]
  /\ pc' = [pc EXCEPT ![t] = "idle"]
  /\ UNCHANGED <<jiffies, handle, cap, pool, timeout, start, left, ret>>

\* Mutant: frees the message it refuses, which the caller frees too.
sys_mbox_trypostFrees(t, m, x) ==
  /\ pc[t] = "idle"
  /\ Usable(m)
  /\ x \in pool
  /\ IF Len(ring[m]) < cap[m]
     THEN /\ ring' = [ring EXCEPT ![m] = Append(@, x)]
          /\ pool' = pool \ {x}
          /\ UNCHANGED <<msg, pc>>
     ELSE /\ msg' = [msg EXCEPT ![t] = x]
          /\ pc' = [pc EXCEPT ![t] = "refused"]
          /\ UNCHANGED <<ring, pool>>
  /\ UNCHANGED <<jiffies, handle, cap, at, timeout, start, left, ret>>

\* A full ring refuses the message: ERR_MEM, and the caller still owns it.
sys_mbox_trypost(t, m, x) ==
  /\ pc[t] = "idle"
  /\ Usable(m)
  /\ x \in pool
  /\ pool' = pool \ {x}
  /\ IF Len(ring[m]) < cap[m]
     THEN /\ ring' = [ring EXCEPT ![m] = Append(@, x)]
          /\ UNCHANGED <<msg, pc>>
     ELSE /\ msg' = [msg EXCEPT ![t] = x]
          /\ pc' = [pc EXCEPT ![t] = "refused"]
          /\ UNCHANGED ring
  /\ UNCHANGED <<jiffies, handle, cap, at, timeout, start, left, ret>>

\* What a caller does with a message that was refused: it frees the buffer.
Discard(t) ==
  /\ pc[t] = "refused"
  /\ pool' = pool \cup {msg[t]}
  /\ msg' = [msg EXCEPT ![t] = NoMsg]
  /\ pc' = [pc EXCEPT ![t] = "idle"]
  /\ UNCHANGED <<jiffies, handle, cap, ring, at, timeout, start, left, ret>>

-----------------------------------------------------------------------------
(* Fetching. *)

\* sys_arch_mbox_fetch up to the library call: it notes the time.
FetchCall(t, m, ms) ==
  /\ pc[t] = "idle"
  /\ Usable(m)
  /\ at' = [at EXCEPT ![t] = m]
  /\ timeout' = [timeout EXCEPT ![t] = ms]
  /\ start' = [start EXCEPT ![t] = jiffies]
  /\ pc' = [pc EXCEPT ![t] = "fetching"]
  /\ UNCHANGED <<shared, msg, left, ret>>

\* uosRingGet copies the oldest pointer out.
RingGet(t) ==
  /\ pc[t] \in {"fetching", "waiting"}
  /\ ring[at[t]] # <<>>
  /\ msg' = [msg EXCEPT ![t] = Head(ring[at[t]])]
  /\ ring' = [ring EXCEPT ![at[t]] = Tail(@)]
  /\ pc' = [pc EXCEPT ![t] = "got"]
  /\ UNCHANGED <<jiffies, handle, cap, pool, at, timeout, start, left, ret>>

\* uosRingGet finds the ring empty: the kernel suspends the task.
RingWait(t) ==
  /\ pc[t] = "fetching"
  /\ ring[at[t]] = <<>>
  /\ \E n \in WaitTicks(timeout[t]) : left' = [left EXCEPT ![t] = n]
  /\ pc' = [pc EXCEPT ![t] = "waiting"]
  /\ UNCHANGED <<shared, at, msg, timeout, start, ret>>

\* The wait ran out. A message may have arrived since.
FetchTimeout(t) ==
  /\ pc[t] = "waiting"
  /\ left[t] = 0
  /\ ret' = [ret EXCEPT ![t] = SYS_ARCH_TIMEOUT]
  /\ pc' = [pc EXCEPT ![t] = "returned"]
  /\ UNCHANGED <<shared, at, msg, timeout, start, left>>

\* The rest of sys_arch_mbox_fetch: the time it took.
FetchReturn(t) ==
  /\ pc[t] = "got"
  /\ ret' = [ret EXCEPT ![t] = WaitResult(start[t], jiffies, timeout[t])]
  /\ pc' = [pc EXCEPT ![t] = "returned"]
  /\ UNCHANGED <<shared, at, msg, timeout, start, left>>

\* A poll: one library call that does not wait.
sys_arch_mbox_tryfetch(t, m) ==
  /\ pc[t] = "idle"
  /\ Usable(m)
  /\ pc' = [pc EXCEPT ![t] = "returned"]
  /\ IF ring[m] = <<>>
     THEN /\ ret' = [ret EXCEPT ![t] = SYS_ARCH_TIMEOUT]
          /\ UNCHANGED <<ring, msg>>
     ELSE /\ ret' = [ret EXCEPT ![t] = 0]
          /\ msg' = [msg EXCEPT ![t] = Head(ring[m])]
          /\ ring' = [ring EXCEPT ![m] = Tail(@)]
  /\ UNCHANGED <<jiffies, handle, cap, pool, at, timeout, start, left>>

\* The call is over, its locals are gone; the caller frees what it fetched.
Release(t) ==
  /\ pc[t] = "returned"
  /\ pool' = IF msg[t] = NoMsg THEN pool ELSE pool \cup {msg[t]}
  /\ msg' = [msg EXCEPT ![t] = NoMsg]
  /\ pc' = [pc EXCEPT ![t] = "idle"]
  /\ at' = [at EXCEPT ![t] = NoMbox]
  /\ timeout' = [timeout EXCEPT ![t] = 0]
  /\ start' = [start EXCEPT ![t] = 0]
  /\ left' = [left EXCEPT ![t] = 0]
  /\ ret' = [ret EXCEPT ![t] = 0]
  /\ UNCHANGED <<jiffies, handle, cap, ring>>

-----------------------------------------------------------------------------
(* The clock interrupt: the tick counter, and the waits that have a limit. *)

\* Mutant: a tick counter that is wider than the type of start.
TickUnbounded ==
  /\ jiffies' = jiffies + 1
  /\ left' = [t \in Tasks |->
                IF pc[t] = "waiting" /\ left[t] \notin {0, INFINITE}
                THEN left[t] - 1 ELSE left[t]]
  /\ UNCHANGED <<handle, cap, ring, pool, pc, at, msg, timeout, start, ret>>

Tick ==
  /\ jiffies' = (jiffies + 1) % WordMod
  /\ left' = [t \in Tasks |->
                IF pc[t] = "waiting" /\ left[t] \notin {0, INFINITE}
                THEN left[t] - 1 ELSE left[t]]
  /\ UNCHANGED <<handle, cap, ring, pool, pc, at, msg, timeout, start, ret>>

Post(t) ==
  \/ \E m \in Mboxes, x \in Msgs : PostCall(t, m, x)
  \/ sys_mbox_post(t)
  \/ \E m \in Mboxes, x \in Msgs : sys_mbox_trypost(t, m, x)
  \/ Discard(t)

Fetch(t) ==
  \/ \E m \in Mboxes, ms \in Timeouts : FetchCall(t, m, ms)
  \/ RingGet(t)
  \/ RingWait(t)
  \/ FetchTimeout(t)
  \/ FetchReturn(t)
  \/ \E m \in Mboxes : sys_arch_mbox_tryfetch(t, m)
  \/ Release(t)

Manage(m) ==
  \/ \E size \in Sizes : sys_mbox_new(m, size)
  \/ sys_mbox_free(m)
  \/ sys_mbox_set_invalid(m)

Next ==
  \/ \E t \in Posters : Post(t)
  \/ \E t \in Fetchers : Fetch(t)
  \/ \E m \in Mboxes : Manage(m)
  \/ Tick

Spec == Init /\ [][Next]_vars

-----------------------------------------------------------------------------
(* What must be true. *)

Live == {m \in Mboxes : handle[m] = "live"}

\* Every variable keeps its type; the tick counter and the time a fetch noted are
\* words that wrap (sys_arch.c:151, JIF_t).
TypeOK ==
  /\ jiffies \in Word
  /\ handle \in [Mboxes -> {"null", "live", "stale"}]
  /\ cap \in [Mboxes -> Nat]
  /\ ring \in [Mboxes -> Seq(Msgs)]
  /\ pool \subseteq Msgs
  /\ pc \in [Tasks -> PC]
  /\ at \in [Tasks -> Mboxes \cup {NoMbox}]
  /\ msg \in [Tasks -> Msgs \cup {NoMsg}]
  /\ timeout \in [Tasks -> Timeouts \cup {0}]
  /\ start \in [Tasks -> Word]
  /\ left \in [Tasks -> Nat]
  /\ ret \in [Tasks -> Nat]

\* A call that is inside the library works on a ring that exists, and holds a
\* message exactly when it has one to hand over. Only a fetch has a timeout.
CallsOK ==
  \A t \in Tasks :
    /\ pc[t] \in {"putting", "fetching", "waiting"} => at[t] \in Live
    /\ pc[t] \in {"putting", "refused", "got"} => msg[t] # NoMsg
    /\ pc[t] \in {"idle", "fetching", "waiting"} => msg[t] = NoMsg
    /\ pc[t] \in {"idle", "putting", "refused"} => timeout[t] = 0

\* A ring never holds more than it has slots, and a ring that was freed or
\* never created holds nothing: no message is lost with it.
RingsOK ==
  \A m \in Mboxes :
    /\ Len(ring[m]) <= cap[m]
    /\ m \notin Live => ring[m] = <<>>
    /\ m \in Live => cap[m] > 0

Held(x)   == \E t \in Tasks : msg[t] = x
Queued(x) == \E m \in Mboxes : \E i \in DOMAIN ring[m] : ring[m][i] = x

\* Whatever the interleaving of posts, polls, timeouts and refusals, a message
\* buffer is nowhere twice: not with two tasks, not twice in rings, not with a
\* task that kept the pointer it posted, and never back in the pool while
\* somebody can still reach it (sys_mbox_trypost leaves a refused message, and
\* only a refused one, to its caller).
OneHolder ==
  \A t, u \in Tasks : msg[t] # NoMsg /\ msg[t] = msg[u] => t = u

OneSlot ==
  \A m, n \in Mboxes : \A i \in DOMAIN ring[m], j \in DOMAIN ring[n] :
    ring[m][i] = ring[n][j] => m = n /\ i = j

OnePlace ==
  \A x \in Msgs :
    /\ x \in pool => ~Held(x) /\ ~Queued(x)
    /\ Held(x) => ~Queued(x)

\* No message buffer gets lost between sys_mbox_post, the ring and the task
\* that fetches it.
NoLeak == \A x \in Msgs : x \in pool \/ Held(x) \/ Queued(x)

SingleOwner == OneHolder /\ OneSlot /\ OnePlace /\ NoLeak

\* A fetch that got a message and was given a timeout returns a time from 1 up
\* to the timeout, never 0 and never SYS_ARCH_TIMEOUT, even when the tick
\* counter wrapped or the wait outlasted the timeout (sys_arch.c:157-167).
WaitInRange ==
  \A t \in Fetchers :
    pc[t] = "returned" /\ msg[t] # NoMsg /\ timeout[t] > 0
      => ret[t] \in 1 .. timeout[t]

\* The millisecond clock and a fetch that found a message at this step: from
\* the reading the fetch noted to the current one, the two tell times that
\* differ by half a tick at most.
WithinHalfATick(t) ==
  LET passed == sys_now(jiffies) - sys_now(start[t])
      capped == IF passed < timeout[t] THEN passed ELSE timeout[t]
      half   == IF HZ < Second \div 2 THEN (Second \div 2) \div HZ ELSE 1
  IN  ret'[t] - capped \in -half .. half

\* Timers go by what a fetch returns, everything else by sys_now. Over a fetch
\* during which sys_now does not wrap, the two differ by no more than half a
\* tick, and the minimum that keeps timers going is no more than that. A fetch
\* over which sys_now wraps is left out: there sys_now starts again at 0
\* (sys_arch.c:162-167, 231).
ClocksAgree ==
  [][\A t \in Fetchers :
       pc[t] = "got" /\ pc'[t] = "returned" /\ NoWrapBetween(start[t], jiffies)
         => WithinHalfATick(t)]_vars

\* The capacity users of a mailbox see: none unless it exists. The mailboxes
\* are bounded first-in first-out channels: every step of the
\* ports, the failing and the timed ones too, is a step of Mailbox or none.
OpenSize == [m \in Mboxes |-> IF m \in Live THEN cap[m] ELSE 0]

Channel == INSTANCE Mailbox WITH size <- OpenSize, chan <- ring

ChannelSpec == Channel!Spec
==============================================================================
