------------------------------- MODULE SysSem -------------------------------
(***************************************************************************)
(* The semaphores of sys_arch.c: creation, signals, and waits that may     *)
(* have a limit and return how long they took.                             *)
(*                                                                         *)
(* nosSemaWait is the kernel's. It is atomic where it takes a token, and   *)
(* where it gives up. What sys_arch_sem_wait does before and after it are  *)
(* steps of their own.                                                     *)
(***************************************************************************)
EXTENDS SysTime

CONSTANTS
  Tasks,
  Waiters,    \* the tasks that wait
  Sems,       \* the sys_sem_t variables of the program
  NoSem,
  Counts,     \* the counts semaphores are created with
  MaxCount,   \* bound on the signals that wait to be taken
  Timeouts    \* milliseconds; 0 is no limit

\* A timeout is not the value that says that a wait timed out.
ASSUME SemAssumption ==
  /\ Waiters \subseteq Tasks
  /\ NoSem \notin Sems
  /\ MaxCount \in Nat
  /\ Counts \subseteq 0 .. MaxCount
  /\ Timeouts \subseteq 0 .. WordMod - 2

VARIABLES
  jiffies,
  handle,    \* what a sys_sem_t variable holds: NULL, a semaphore, a destroyed one
  count,     \* signals that nobody has taken yet
  pc,        \* where in sys_arch_sem_wait a task is
  at,        \* the arguments and locals of the call
  timeout,
  start,
  left,      \* ticks the kernel still lets it wait
  ret

kernel  == <<handle, count>>
waits   == <<pc, at, timeout, start, left, ret>>
semVars == <<jiffies, kernel, waits>>

PC == {"idle", "entered", "waiting", "got", "returned"}

Usable(s) == handle[s] = "live"

SemInit ==
  /\ jiffies = 0
  /\ handle  = [s \in Sems |-> "null"]
  /\ count   = [s \in Sems |-> 0]
  /\ pc      = [t \in Tasks |-> "idle"]
  /\ at      = [t \in Tasks |-> NoSem]
  /\ timeout = [t \in Tasks |-> 0]
  /\ start   = [t \in Tasks |-> 0]
  /\ left    = [t \in Tasks |-> 0]
  /\ ret     = [t \in Tasks |-> 0]

Goto(t, label) == pc' = [pc EXCEPT ![t] = label]

-----------------------------------------------------------------------------
(* Creation, destruction, signals. *)

\* nosSemaCreate may fail: ERR_MEM, and the variable is NULL.
sys_sem_new(s, c) ==
  /\ ~Usable(s)
  /\ \/ /\ handle' = [handle EXCEPT ![s] = "live"]
        /\ count' = [count EXCEPT ![s] = c]
     \/ /\ handle' = [handle EXCEPT ![s] = "null"]
        /\ UNCHANGED count
  /\ UNCHANGED <<jiffies, waits>>

\* Callers destroy a semaphore that nobody is waiting for.
sys_sem_free(s) ==
  /\ Usable(s)
  /\ \A t \in Tasks : at[t] # s
  /\ handle' = [handle EXCEPT ![s] = "stale"]
  /\ count' = [count EXCEPT ![s] = 0]
  /\ UNCHANGED <<jiffies, waits>>

sys_sem_set_invalid(s) ==
  /\ handle[s] = "stale"
  /\ handle' = [handle EXCEPT ![s] = "null"]
  /\ UNCHANGED <<jiffies, count, waits>>

sys_sem_signal(t, s) ==
  /\ pc[t] = "idle"
  /\ Usable(s)
  /\ count[s] < MaxCount
  /\ count' = [count EXCEPT ![s] = @ + 1]
  /\ UNCHANGED <<jiffies, handle, waits>>

-----------------------------------------------------------------------------
(* Waiting. *)

WaitCall(t, s, ms) ==
  /\ pc[t] = "idle"
  /\ Usable(s)
  /\ at' = [at EXCEPT ![t] = s]
  /\ timeout' = [timeout EXCEPT ![t] = ms]
  /\ start' = [start EXCEPT ![t] = jiffies]
  /\ Goto(t, "entered")
  /\ UNCHANGED <<jiffies, kernel, left, ret>>

\* nosSemaWait takes a token, at once or when the task is woken up.
SemaTake(t) ==
  /\ pc[t] \in {"entered", "waiting"}
  /\ count[at[t]] > 0
  /\ count' = [count EXCEPT ![at[t]] = @ - 1]
  /\ Goto(t, "got")
  /\ UNCHANGED <<jiffies, handle, at, timeout, start, left, ret>>

\* Mutant: the limit and its absence are mixed up.
SemaBlockSwapped(t) ==
  /\ pc[t] = "entered"
  /\ count[at[t]] = 0
  /\ \E n \in WaitTicks(IF timeout[t] = 0 THEN 1 ELSE 0) :
       left' = [left EXCEPT ![t] = n]
  /\ Goto(t, "waiting")
  /\ UNCHANGED <<jiffies, kernel, at, timeout, start, ret>>

SemaBlock(t) ==
  /\ pc[t] = "entered"
  /\ count[at[t]] = 0
  /\ \E n \in WaitTicks(timeout[t]) : left' = [left EXCEPT ![t] = n]
  /\ Goto(t, "waiting")
  /\ UNCHANGED <<jiffies, kernel, at, timeout, start, ret>>

\* The wait ran out. A signal may have come since: it stays.
SemaTimeout(t) ==
  /\ pc[t] = "waiting"
  /\ left[t] = 0
  /\ ret' = [ret EXCEPT ![t] = SYS_ARCH_TIMEOUT]
  /\ Goto(t, "returned")
  /\ UNCHANGED <<jiffies, kernel, at, timeout, start, left>>

\* Mutant: a success is taken for a timeout.
WaitReturnInverted(t) ==
  /\ pc[t] = "got"
  /\ ret' = [ret EXCEPT ![t] = SYS_ARCH_TIMEOUT]
  /\ Goto(t, "returned")
  /\ UNCHANGED <<jiffies, kernel, at, timeout, start, left>>

\* The rest of sys_arch_sem_wait: the time it took.
WaitReturn(t) ==
  /\ pc[t] = "got"
  /\ ret' = [ret EXCEPT ![t] = WaitResult(start[t], jiffies, timeout[t])]
  /\ Goto(t, "returned")
  /\ UNCHANGED <<jiffies, kernel, at, timeout, start, left>>

\* The call is over and its locals are gone.
Release(t) ==
  /\ pc[t] = "returned"
  /\ Goto(t, "idle")
  /\ at'      = [at EXCEPT ![t] = NoSem]
  /\ timeout' = [timeout EXCEPT ![t] = 0]
  /\ start'   = [start EXCEPT ![t] = 0]
  /\ left'    = [left EXCEPT ![t] = 0]
  /\ ret'     = [ret EXCEPT ![t] = 0]
  /\ UNCHANGED <<jiffies, kernel>>

\* Mutant: a tick counter that is wider than the type of start.
TickUnbounded ==
  /\ jiffies' = jiffies + 1
  /\ left' = [t \in Tasks |->
                IF pc[t] = "waiting" /\ left[t] \notin {0, INFINITE}
                THEN left[t] - 1 ELSE left[t]]
  /\ UNCHANGED <<kernel, pc, at, timeout, start, ret>>

\* The clock interrupt.
Tick ==
  /\ jiffies' = (jiffies + 1) % WordMod
  /\ left' = [t \in Tasks |->
                IF pc[t] = "waiting" /\ left[t] \notin {0, INFINITE}
                THEN left[t] - 1 ELSE left[t]]
  /\ UNCHANGED <<kernel, pc, at, timeout, start, ret>>

WaitStep(t) ==
  SemaTake(t) \/ SemaBlock(t) \/ SemaTimeout(t) \/ WaitReturn(t) \/ Release(t)

SemCall(t) ==
  \E s \in Sems :
    \/ sys_sem_signal(t, s)
    \/ t \in Waiters /\ \E ms \in Timeouts : WaitCall(t, s, ms)

SemManage ==
  \E s \in Sems :
    \/ \E c \in Counts : sys_sem_new(s, c)
    \/ sys_sem_free(s)
    \/ sys_sem_set_invalid(s)

-----------------------------------------------------------------------------
(* What must be true. *)

\* The semaphores keep their types, and a signal is never taken twice: the count
\* does not get below zero (sys_arch.c:73-106).
SemTypeOK ==
  /\ jiffies \in Word
  /\ handle \in [Sems -> {"null", "live", "stale"}]
  /\ count \in [Sems -> 0 .. MaxCount]
  /\ pc \in [Tasks -> PC]
  /\ at \in [Tasks -> Sems \cup {NoSem}]
  /\ timeout \in [Tasks -> Timeouts \cup {0}]
  /\ start \in [Tasks -> Word]
  /\ left \in [Tasks -> Nat]
  /\ ret \in [Tasks -> Nat]

\* What the caller of a wait is told: the only thing it sees is the result.
Answer == [t \in Tasks |->
  CASE pc[t] = "got" -> "success"
    [] pc[t] = "returned" ->
         IF ret[t] = SYS_ARCH_TIMEOUT THEN "timeout" ELSE "success"
    [] OTHER -> "none"]

\* The semaphores are counting semaphores, whatever waits, timeouts and clock
\* wraps coincide: a wait whose result is a time has taken one token, and one
\* whose result is SYS_ARCH_TIMEOUT has taken none (sys_arch.c:92-105).
Counting == INSTANCE Semaphore WITH
  open <- [s \in Sems |-> Usable(s)], tokens <- count, answer <- Answer

SemSpec == Counting!Spec

\* A wait with a limit that succeeded returns a time from 1 up to the limit,
\* also when the clock wrapped meanwhile (sys_arch.c:95-105).
SemTimeInRange ==
  \A t \in Tasks :
    pc[t] = "returned" /\ timeout[t] > 0 /\ ret[t] # SYS_ARCH_TIMEOUT
      => ret[t] \in 1 .. timeout[t]
==============================================================================
