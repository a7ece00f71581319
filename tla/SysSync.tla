------------------------------- MODULE SysSync -------------------------------
(***************************************************************************)
(* The synchronisation of the OS port together: critical sections that     *)
(* block interrupts, mutexes, semaphores and threads. They meet in the     *)
(* clock: while interrupts are blocked no tick arrives and no other task   *)
(* runs, so that a section that is not left properly stops every wait.     *)
(*                                                                         *)
(* The stack uses sections and mutexes to update shared data (reference    *)
(* counts, free lists). An update is two steps, a read and a write; the    *)
(* data itself is left out, only whether what was read is still current.   *)
(***************************************************************************)
EXTENDS SysSem, Sequences

CONSTANTS
  Main,       \* the task that exists from the start
  MaxDepth,   \* bound on nested sections
  NoTask, NoMutex

ASSUME SyncAssumption ==
  /\ Main \in Tasks
  /\ {NoTask, NoMutex} \cap Tasks = {} /\ NoTask # NoMutex
  /\ MaxDepth \in Nat

Guards == {"section", "mutex"}

VARIABLES
  alive,   \* the tasks that exist
  irq,     \* interrupts are enabled
  saved,   \* the flags a task got from sys_arch_protect, the latest last
  mutex,   \* NoMutex (NULL), NoTask (unlocked), or the task that has locked it
  copy     \* what a task has read of the shared data, to write it back:
           \* the data that sections guard and the data of the mutex

sections == <<irq, saved>>
syncVars == <<semVars, alive, sections, mutex, copy>>

SyncInit ==
  /\ SemInit
  /\ alive = {Main}
  /\ irq = TRUE
  /\ saved = [t \in Tasks |-> <<>>]
  /\ mutex = NoMutex
  /\ copy = [t \in Tasks |-> [g \in Guards |-> "none"]]

Inside(t) == saved[t] # <<>>

\* One processor: while interrupts are blocked, the task that blocked them runs.
CanRun(t) == t \in alive /\ (irq \/ Inside(t))

\* nosTaskCreate may fail; callers only look at the result.
sys_thread_new(t) ==
  /\ t \notin alive
  /\ alive' = alive \cup {t}
  /\ UNCHANGED <<semVars, sections, mutex, copy>>

-----------------------------------------------------------------------------
(* Critical sections. *)

\* POS_SCHED_LOCK saves the interrupt state and blocks interrupts.
sys_arch_protect(t) ==
  /\ pc[t] = "idle"
  /\ Len(saved[t]) < MaxDepth
  /\ saved' = [saved EXCEPT ![t] = Append(@, irq)]
  /\ irq' = FALSE
  /\ UNCHANGED <<semVars, alive, mutex, copy>>

Leave(t) == saved' = [saved EXCEPT ![t] = SubSeq(@, 1, Len(@) - 1)]

\* An update is over when its section ends; inner sections may end before.
MayLeave(t) ==
  /\ Inside(t)
  /\ Len(saved[t]) = 1 => copy[t]["section"] = "none"

\* Mutant: enables interrupts whatever the flags say.
sys_arch_unprotectEnables(t) ==
  /\ MayLeave(t)
  /\ irq' = TRUE
  /\ Leave(t)
  /\ UNCHANGED <<semVars, alive, mutex, copy>>

\* POS_SCHED_UNLOCK restores the state that its flags argument holds.
sys_arch_unprotect(t) ==
  /\ MayLeave(t)
  /\ irq' = saved[t][Len(saved[t])]
  /\ Leave(t)
  /\ UNCHANGED <<semVars, alive, mutex, copy>>

-----------------------------------------------------------------------------
(* Mutexes. Their tasks do not lock one twice, nor block inside a section. *)

Blockable(t) == pc[t] = "idle" /\ ~Inside(t)

sys_mutex_new ==
  /\ mutex = NoMutex
  /\ mutex' \in {NoTask, NoMutex}
  /\ UNCHANGED <<semVars, alive, sections, copy>>

sys_mutex_lock(t) ==
  /\ Blockable(t)
  /\ mutex = NoTask
  /\ mutex' = t
  /\ UNCHANGED <<semVars, alive, sections, copy>>

sys_mutex_unlock(t) ==
  /\ Blockable(t)
  /\ mutex = t
  /\ copy[t]["mutex"] = "none"
  /\ mutex' = NoTask
  /\ UNCHANGED <<semVars, alive, sections, copy>>

sys_mutex_free ==
  /\ mutex = NoTask
  /\ mutex' = NoMutex
  /\ UNCHANGED <<semVars, alive, sections, copy>>

-----------------------------------------------------------------------------
(* Updates of shared data. *)

\* Inner sections guard other data.
Guarded(t, g) == IF g = "section" THEN Len(saved[t]) = 1 ELSE mutex = t

ReadData(t, g) ==
  /\ pc[t] = "idle"
  /\ Guarded(t, g)
  /\ copy[t][g] = "none"
  /\ copy' = [copy EXCEPT ![t][g] = "current"]
  /\ UNCHANGED <<semVars, alive, sections, mutex>>

\* What others have read of the data is out of date now.
WriteData(t, g) ==
  /\ pc[t] = "idle"
  /\ Guarded(t, g)
  /\ copy[t][g] # "none"
  /\ copy' = [u \in Tasks |-> [copy[u] EXCEPT ![g] =
                 IF u = t \/ @ = "none" THEN "none" ELSE "outdated"]]
  /\ UNCHANGED <<semVars, alive, sections, mutex>>

SectionStep(t) ==
  \/ sys_arch_protect(t) \/ sys_arch_unprotect(t)
  \/ sys_mutex_lock(t) \/ sys_mutex_unlock(t)
  \/ \E g \in Guards : ReadData(t, g) \/ WriteData(t, g)

SemStep(t) ==
  /\ ~Inside(t)
  /\ WaitStep(t) \/ SemCall(t)
  /\ UNCHANGED <<alive, sections, mutex, copy>>

\* Objects are created and destroyed, and threads created, by tasks that run.
Manage ==
  /\ irq
  /\ \/ SemManage /\ UNCHANGED <<alive, sections, mutex, copy>>
     \/ sys_mutex_new \/ sys_mutex_free
     \/ \E t \in Tasks : sys_thread_new(t)

\* The clock interrupt waits while interrupts are blocked.
Clock == irq /\ Tick /\ UNCHANGED <<alive, sections, mutex, copy>>

SyncNext ==
  \/ \E t \in Tasks : CanRun(t) /\ (SectionStep(t) \/ SemStep(t))
  \/ Manage
  \/ Clock

\* An interrupt that was blocked is taken, and a task that is ready is scheduled,
\* when interrupts are enabled again and again. What a section does ends.
Fairness ==
  /\ SF_syncVars(Clock)
  /\ \A t \in Tasks : SF_syncVars(CanRun(t) /\ SemStep(t) /\ pc[t] # "idle")
  /\ SF_syncVars(\E t \in Tasks : CanRun(t) /\ WriteData(t, "section"))
  /\ SF_syncVars(\E t \in Tasks : sys_arch_unprotect(t) /\ Inside(t)')
  /\ SF_syncVars(\E t \in Tasks : sys_arch_unprotect(t) /\ ~Inside(t)')

SyncSpec == SyncInit /\ [][SyncNext]_syncVars /\ Fairness

-----------------------------------------------------------------------------
(* What must be true. *)

\* The types of all objects of the port. Interrupts are enabled only while nobody
\* is inside a section, and of the flags that a task has saved only those of its
\* outermost section say that they were (sys_arch.c:198-209).
SyncTypeOK ==
  /\ SemTypeOK
  /\ alive \in SUBSET Tasks
  /\ irq \in BOOLEAN
  /\ saved \in [Tasks -> Seq(BOOLEAN)]
  /\ irq => \A t \in Tasks : ~Inside(t)
  /\ \A t \in Tasks : \A k \in DOMAIN saved[t] : saved[t][k] => k = 1
  /\ mutex \in Tasks \cup {NoTask, NoMutex}
  /\ copy \in [Tasks -> [Guards -> {"none", "current", "outdated"}]]

\* What a task writes back is up to date: between its read and its write, no
\* other task has changed the data, although tasks preempt each other and inner
\* sections end in between; their end must not enable interrupts
\* (sys_arch.c:206-209).
NoLostUpdate ==
  \A t \in Tasks : \A g \in Guards : copy[t][g] # "outdated"

\* A wait with a limit returns, whatever the other tasks do: the clock that
\* ends it is not blocked for good (sys_arch.c:92, 202-208).
WaitsEnd ==
  \A t \in Tasks : pc[t] # "idle" /\ timeout[t] > 0 ~> pc[t] = "idle"
==============================================================================
