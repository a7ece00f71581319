--------------------------- MODULE SysSyncProofs ---------------------------
(***************************************************************************)
(* Sections, mutexes, semaphores and threads of sys_arch.c, for every set  *)
(* of tasks and semaphores, every tick rate and word size.                 *)
(*                                                                         *)
(* The inductive invariant of the semaphores is SemInv: the types, and     *)
(* that a call is about a semaphore that exists. That of the sections is   *)
(* SectionsOK: interrupts are enabled only when nobody is inside one, at   *)
(* most one task is, and only its outermost section has found them         *)
(* enabled. It is what makes NoLostUpdate inductive, with CopiesOK: who    *)
(* has read the data is still inside.                                      *)
(***************************************************************************)
EXTENDS SysSync, SysTimeProofs, SequenceTheorems

WaitsOK ==
  \A t \in Tasks : pc[t] # "idle" =>
    at[t] \in Sems /\ Usable(at[t]) /\ timeout[t] \in Timeouts

SemInv == SemTypeOK /\ WaitsOK

RestTypeOK ==
  /\ alive \in SUBSET Tasks
  /\ irq \in BOOLEAN
  /\ saved \in [Tasks -> Seq(BOOLEAN)]
  /\ mutex \in Tasks \cup {NoTask, NoMutex}
  /\ copy \in [Tasks -> [Guards -> {"none", "current", "outdated"}]]

SectionsOK ==
  /\ irq => \A t \in Tasks : ~Inside(t)
  /\ \A t, u \in Tasks : Inside(t) /\ Inside(u) => t = u
  /\ \A t \in Tasks : \A i \in 1 .. Len(saved[t]) : saved[t][i] => i = 1

CopiesOK ==
  \A t \in Tasks :
    /\ copy[t]["section"] # "none" => Inside(t)
    /\ copy[t]["mutex"] # "none" => mutex = t

UpdateInv == RestTypeOK /\ SectionsOK /\ CopiesOK /\ NoLostUpdate

-----------------------------------------------------------------------------
(* Data. *)

\* The constants are words, and the tick counter stays one.
LEMMA Words ==
  /\ 0 \in Word
  /\ SYS_ARCH_TIMEOUT \in Nat
  /\ \A j \in Word : (j + 1) % WordMod \in Word
<1>1. \A j \in Word : j + 1 \in Int
  BY DEF Word
<1> QED
  BY <1>1, ClockAssumption, Remainder DEF Word, SYS_ARCH_TIMEOUT

\* A timeout is a natural number that is not the result of a failed wait.
LEMMA TimeoutBound ==
  ASSUME NEW ms \in Timeouts
  PROVE  ms \in Nat /\ ms < SYS_ARCH_TIMEOUT
<1>1. WordMod - 2 \in Int
  BY ClockAssumption
<1>2. ms \in 0 .. WordMod - 2
  BY SemAssumption
<1> QED
  BY <1>1, <1>2, ClockAssumption DEF SYS_ARCH_TIMEOUT

\* A flag that is saved becomes the latest.
LEMMA PushFlag ==
  ASSUME NEW s \in Seq(BOOLEAN), NEW b \in BOOLEAN
  PROVE  /\ Append(s, b) \in Seq(BOOLEAN)
         /\ Append(s, b) # <<>>
         /\ Len(Append(s, b)) = Len(s) + 1
         /\ Len(s) \in Nat
         /\ \A i \in 1 .. Len(s) : Append(s, b)[i] = s[i]
         /\ Append(s, b)[Len(s) + 1] = b
OBVIOUS

\* Only a task without flags has a sequence of length zero.
LEMMA NoFlags ==
  ASSUME NEW s \in Seq(BOOLEAN)
  PROVE  s = <<>> <=> Len(s) = 0
OBVIOUS

\* What restoring the latest flag leaves.
LEMMA PopFlag ==
  ASSUME NEW s \in Seq(BOOLEAN), s # <<>>
  PROVE  /\ SubSeq(s, 1, Len(s) - 1) \in Seq(BOOLEAN)
         /\ Len(s) \in Nat \ {0}
         /\ s[Len(s)] \in BOOLEAN
         /\ Len(SubSeq(s, 1, Len(s) - 1)) = Len(s) - 1
         /\ \A i \in 1 .. Len(s) - 1 : SubSeq(s, 1, Len(s) - 1)[i] = s[i]
         /\ SubSeq(s, 1, Len(s) - 1) = <<>> <=> Len(s) = 1
<1> DEFINE n == Len(s) - 1
           q == SubSeq(s, 1, n)
<1>1. Len(s) \in Nat \ {0} /\ s[Len(s)] \in BOOLEAN
  OBVIOUS
<1>2. n \in Nat /\ \A i \in 1 .. n : s[i] \in BOOLEAN
  BY <1>1
<1>3. /\ q \in Seq(BOOLEAN)
      /\ Len(q) = IF 1 <= n THEN n - 1 + 1 ELSE 0
      /\ \A i \in 1 .. n - 1 + 1 : q[i] = s[1 + i - 1]
  <2> HIDE DEF n
  <2> QED
    BY <1>2, SubSeqProperties
<1> HIDE DEF q
<1>4. q = <<>> <=> Len(q) = 0
  BY <1>3, NoFlags
<1>5. Len(q) = n /\ \A i \in 1 .. n : q[i] = s[i]
  <2> HIDE DEF n
  <2>1. 1 .. n - 1 + 1 = 1 .. n
    BY <1>2
  <2>2. \A i \in 1 .. n : 1 + i - 1 = i
    OBVIOUS
  <2> QED
    BY <1>2, <1>3, <2>1, <2>2
<1> QED
  BY <1>1, <1>3, <1>4, <1>5 DEF q

-----------------------------------------------------------------------------
(* The semaphores: types, and the results of waits. *)

SemaphoreNext ==
  \/ \E t \in Tasks : WaitStep(t) \/ SemCall(t)
  \/ SemManage
  \/ Tick

\* Every step of the system is one of the semaphores or leaves them alone.
LEMMA SyncStepsSemaphores ==
  ASSUME [SyncNext]_syncVars
  PROVE  [SemaphoreNext]_semVars
<1>1. ASSUME NEW t \in Tasks, SectionStep(t)
      PROVE  UNCHANGED semVars
  BY <1>1 DEF SectionStep, sys_arch_protect, sys_arch_unprotect,
     sys_mutex_lock, sys_mutex_unlock, ReadData, WriteData
<1>2. ASSUME Manage
      PROVE  [SemaphoreNext]_semVars
  BY <1>2 DEF Manage, SemaphoreNext, sys_mutex_new, sys_mutex_free, sys_thread_new
<1> QED
  BY <1>1, <1>2 DEF SyncNext, SemStep, Clock, SemaphoreNext, syncVars

\* The invariants hold before the first call.
LEMMA SemInitInv == SemInit => SemInv /\ SemTimeInRange
<1> SUFFICES ASSUME SemInit
             PROVE  SemInv /\ SemTimeInRange
  OBVIOUS
<1>1. 0 \in 0 .. MaxCount
  BY SemAssumption
<1> QED
  BY <1>1, Words DEF SemInit, SemInv, SemTypeOK, WaitsOK, SemTimeInRange, PC
\* Every step keeps the types, and the semaphore of a call stays in existence.
LEMMA SemStepInv ==
  ASSUME SemInv, [SemaphoreNext]_semVars
  PROVE  SemInv'
<1> USE DEF SemInv, SemTypeOK, WaitsOK, Usable, Goto, PC
<1>1. ASSUME NEW t \in Tasks, NEW s \in Sems, sys_sem_signal(t, s)
      PROVE  SemInv'
  <2>1. count[s] + 1 \in 0 .. MaxCount
    BY <1>1, SemAssumption DEF sys_sem_signal
  <2> QED
    BY <1>1, <2>1 DEF sys_sem_signal, waits
<1>2. ASSUME NEW t \in Tasks, NEW s \in Sems, NEW ms \in Timeouts, WaitCall(t, s, ms)
      PROVE  SemInv'
  BY <1>2 DEF WaitCall, kernel
<1>3. ASSUME NEW t \in Tasks, SemaTake(t)
      PROVE  SemInv'
  <2>1. at[t] \in Sems /\ count[at[t]] - 1 \in 0 .. MaxCount
    BY <1>3, SemAssumption DEF SemaTake
  <2> QED
    BY <1>3, <2>1 DEF SemaTake
<1>4. ASSUME NEW t \in Tasks, SemaBlock(t)
      PROVE  SemInv'
  <2>1. timeout[t] \in Nat
    BY <1>4, TimeoutBound DEF SemaBlock
  <2>2. WaitTicks(timeout[t]) \subseteq Nat
    BY <2>1, WaitTicksNat
  <2> QED
    BY <1>4, <2>2 DEF SemaBlock, kernel
<1>5. ASSUME NEW t \in Tasks, SemaTimeout(t)
      PROVE  SemInv'
  BY <1>5, Words DEF SemaTimeout, kernel
<1>6. ASSUME NEW t \in Tasks, WaitReturn(t)
      PROVE  SemInv'
  <2>1. timeout[t] \in Nat /\ start[t] \in Word /\ jiffies \in Word
    BY <1>6, TimeoutBound DEF WaitReturn
  <2>2. WaitResult(start[t], jiffies, timeout[t]) \in Nat
    BY <2>1, WaitResultRange
  <2> QED
    BY <1>6, <2>2 DEF WaitReturn, kernel
<1>7. ASSUME NEW t \in Tasks, Release(t)
      PROVE  SemInv'
  BY <1>7, Words DEF Release, kernel
<1>8. ASSUME NEW s \in Sems, NEW c \in Counts, sys_sem_new(s, c)
      PROVE  SemInv'
  BY <1>8, SemAssumption DEF sys_sem_new, waits
<1>9. ASSUME NEW s \in Sems, sys_sem_free(s)
      PROVE  SemInv'
  BY <1>9, SemAssumption DEF sys_sem_free, waits
<1>10. ASSUME NEW s \in Sems, sys_sem_set_invalid(s)
       PROVE  SemInv'
  BY <1>10 DEF sys_sem_set_invalid, waits
<1>11. CASE Tick
  <2>1. jiffies' \in Word
    BY <1>11, Words DEF Tick
  <2>2. \A t \in Tasks : left[t] # 0 => left[t] - 1 \in Nat
    OBVIOUS
  <2>3. left' \in [Tasks -> Nat]
    BY <1>11, <2>2 DEF Tick
  <2> QED
    BY <1>11, <2>1, <2>3 DEF Tick, kernel
<1>12. CASE UNCHANGED semVars
  BY <1>12 DEF semVars, kernel, waits
<1> QED
  BY <1>1, <1>2, <1>3, <1>4, <1>5, <1>6, <1>7, <1>8, <1>9, <1>10, <1>11, <1>12
  DEF SemaphoreNext, WaitStep, SemCall, SemManage

\* The result of a wait that has its signal is set by WaitReturn only.
LEMMA RangeStep ==
  ASSUME SemInv, SemTimeInRange, HZ <= Second, [SemaphoreNext]_semVars
  PROVE  SemTimeInRange'
<1> USE DEF SemInv, SemTypeOK, SemTimeInRange, Goto
<1>1. ASSUME NEW t \in Tasks, WaitReturn(t)
      PROVE  SemTimeInRange'
  <2>1. timeout[t] \in Nat /\ start[t] \in Word /\ jiffies \in Word
    BY <1>1, TimeoutBound DEF WaitReturn, WaitsOK
  <2>2. timeout[t] > 0 => WaitResult(start[t], jiffies, timeout[t]) \in 1 .. timeout[t]
    BY <2>1, WaitResultRange
  <2> QED
    BY <1>1, <2>2 DEF WaitReturn
<1>2. ASSUME NEW t \in Tasks, SemaTimeout(t)
      PROVE  SemTimeInRange'
  BY <1>2 DEF SemaTimeout
<1>3. ASSUME NEW t \in Tasks, SemaTake(t) \/ SemaBlock(t) \/ Release(t) \/ SemCall(t)
      PROVE  SemTimeInRange'
  BY <1>3 DEF SemaTake, SemaBlock, Release, SemCall, sys_sem_signal, WaitCall, waits
<1>4. CASE SemManage \/ Tick \/ UNCHANGED semVars
  BY <1>4 DEF SemManage, sys_sem_new, sys_sem_free, sys_sem_set_invalid, Tick, waits, semVars
<1> QED
  BY <1>1, <1>2, <1>3, <1>4 DEF SemaphoreNext, WaitStep

-----------------------------------------------------------------------------
(* The refinement: what the stack sees are counting semaphores. *)

Exists == [s \in Sems |-> Usable(s)]

\* Before the first call no semaphore exists and nobody waits.
LEMMA CountingInit == SemInit => Counting!Init
BY DEF SemInit, Counting!Init, Answer, Usable

\* A step of one task changes what that task is told, and nobody else.
LEMMA AnswerOf ==
  ASSUME SemInv, NEW t \in Tasks, NEW a,
         Answer'[t] = a,
         \A u \in Tasks \ {t} : pc'[u] = pc[u] /\ ret'[u] = ret[u]
  PROVE  Answer' = [Answer EXCEPT ![t] = a]
BY DEF Answer

\* A signal is one more token, SemaTake takes one and SemaTimeout gives up;
\* SYS_ARCH_TIMEOUT is never the time that a successful wait took.
LEMMA CountingStep ==
  ASSUME SemInv, SemInv', [SemaphoreNext]_semVars
  PROVE  [Counting!Next]_Counting!vars
<1> USE DEF SemInv, SemTypeOK, Goto, PC
<1>1. ASSUME NEW t \in Tasks, NEW s \in Sems, sys_sem_signal(t, s)
      PROVE  Counting!Up(s)
  BY <1>1 DEF sys_sem_signal, waits, Counting!Up, Usable, Answer
<1>2. ASSUME NEW t \in Tasks, NEW s \in Sems, NEW ms \in Timeouts, WaitCall(t, s, ms)
      PROVE  UNCHANGED Counting!vars
  BY <1>2 DEF WaitCall, kernel, Counting!vars, Usable, Answer
<1>3. ASSUME NEW t \in Tasks, SemaTake(t)
      PROVE  Counting!Down(t, at[t])
  <2>1. at[t] \in Sems /\ Usable(at[t])
    BY <1>3 DEF SemaTake, WaitsOK
  <2>2. Answer[t] = "none" /\ Answer'[t] = "success"
    BY <1>3 DEF SemaTake, Answer
  <2>3. Answer' = [Answer EXCEPT ![t] = "success"]
    BY <1>3, <2>2, AnswerOf DEF SemaTake
  <2> QED
    BY <1>3, <2>1, <2>2, <2>3 DEF SemaTake, Counting!Down, Usable
<1>4. ASSUME NEW t \in Tasks, SemaBlock(t)
      PROVE  UNCHANGED Counting!vars
  BY <1>4 DEF SemaBlock, kernel, Counting!vars, Usable, Answer
<1>5. ASSUME NEW t \in Tasks, SemaTimeout(t)
      PROVE  Counting!GiveUp(t)
  <2>1. Answer[t] = "none" /\ Answer'[t] = "timeout"
    BY <1>5 DEF SemaTimeout, Answer
  <2>2. Answer' = [Answer EXCEPT ![t] = "timeout"]
    BY <1>5, <2>1, AnswerOf DEF SemaTimeout
  <2> QED
    BY <1>5, <2>1, <2>2 DEF SemaTimeout, kernel, Counting!GiveUp, Usable
<1>6. ASSUME NEW t \in Tasks, WaitReturn(t)
      PROVE  UNCHANGED Counting!vars
  <2>1. timeout[t] \in Timeouts /\ start[t] \in Word /\ jiffies \in Word
    BY <1>6 DEF WaitReturn, WaitsOK
  <2>2. WaitResult(start[t], jiffies, timeout[t]) \in 0 .. timeout[t]
    BY <2>1, TimeoutBound, WaitResultRange
  <2>3. WaitResult(start[t], jiffies, timeout[t]) # SYS_ARCH_TIMEOUT
    BY <2>1, <2>2, TimeoutBound, Words
  <2>4. Answer[t] = "success" /\ Answer'[t] = "success"
    BY <1>6, <2>3 DEF WaitReturn, Answer
  <2>5. Answer' = [Answer EXCEPT ![t] = "success"]
    BY <1>6, <2>4, AnswerOf DEF WaitReturn
  <2>6. Answer' = Answer
    BY <2>4, <2>5 DEF Answer
  <2> QED
    BY <1>6, <2>6 DEF WaitReturn, kernel, Counting!vars, Usable
<1>7. ASSUME NEW t \in Tasks, Release(t)
      PROVE  Counting!Done(t)
  <2>1. Answer[t] # "none" /\ Answer'[t] = "none"
    BY <1>7 DEF Release, Answer
  <2>2. Answer' = [Answer EXCEPT ![t] = "none"]
    BY <1>7, <2>1, AnswerOf DEF Release
  <2> QED
    BY <1>7, <2>1, <2>2 DEF Release, kernel, Counting!Done, Usable
<1>8. ASSUME NEW s \in Sems, NEW c \in Counts, sys_sem_new(s, c)
      PROVE  Counting!Create(s) \/ UNCHANGED Counting!vars
  <2>1. UNCHANGED Answer
    BY <1>8 DEF sys_sem_new, waits, Answer
  <2>2. CASE handle' = [handle EXCEPT ![s] = "live"] /\ count' = [count EXCEPT ![s] = c]
    <3>1. c \in Nat
      BY SemAssumption
    <3>2. count'[s] = c
      BY <2>2
    <3>3. Exists' = [Exists EXCEPT ![s] = TRUE]
      BY <2>2 DEF Exists, Usable
    <3> QED
      BY <1>8, <2>1, <2>2, <3>1, <3>2, <3>3 DEF sys_sem_new, Counting!Create, Exists, Usable
  <2>3. CASE handle' = [handle EXCEPT ![s] = "null"] /\ UNCHANGED count
    BY <1>8, <2>1, <2>3 DEF sys_sem_new, Counting!vars, Usable
  <2> QED
    BY <1>8, <2>2, <2>3 DEF sys_sem_new
<1>9. ASSUME NEW s \in Sems, sys_sem_free(s)
      PROVE  Counting!Destroy(s)
  BY <1>9 DEF sys_sem_free, waits, Counting!Destroy, Usable, Answer
<1>10. ASSUME NEW s \in Sems, sys_sem_set_invalid(s)
       PROVE  UNCHANGED Counting!vars
  BY <1>10 DEF sys_sem_set_invalid, waits, Counting!vars, Usable, Answer
<1>11. CASE Tick \/ UNCHANGED semVars
  BY <1>11 DEF Tick, kernel, semVars, waits, Counting!vars, Usable, Answer
<1>12. ASSUME NEW t \in Tasks, WaitStep(t) \/ SemCall(t)
       PROVE  [Counting!Next]_Counting!vars
  <2>1. \A s \in Sems : Counting!Up(s) => Counting!Next
    BY DEF Counting!Next
  <2>2. Counting!GiveUp(t) \/ Counting!Done(t) => Counting!Next
    BY DEF Counting!Next
  <2>3. SemaTake(t) => at[t] \in Sems
    BY DEF SemaTake, WaitsOK
  <2>4. SemaTake(t) => Counting!Next
    BY <1>3, <2>3 DEF Counting!Next
  <2> QED
    BY <1>12, <1>1, <1>2, <1>4, <1>5, <1>6, <1>7, <2>1, <2>2, <2>4 DEF WaitStep, SemCall
<1>13. CASE SemManage
  BY <1>13, <1>8, <1>9, <1>10 DEF SemManage, Counting!Next
<1> QED
  BY <1>11, <1>12, <1>13 DEF SemaphoreNext
-----------------------------------------------------------------------------
(* Sections, mutexes and what they guard. *)

\* What the semaphores, the clock and the creation of threads do here.
Elsewhere == UNCHANGED <<sections, mutex, copy>> /\ alive' \in SUBSET Tasks

\* Nobody is inside a section before the first call.
LEMMA UpdateInit == SyncInit => UpdateInv
BY SyncAssumption
DEF SyncInit, UpdateInv, RestTypeOK, SectionsOK, CopiesOK, NoLostUpdate, Inside, Guards

\* A section is entered by a task that runs: if interrupts are enabled nobody
\* was inside, else the task was already.
LEMMA ProtectStep ==
  ASSUME UpdateInv, NEW t \in Tasks, CanRun(t), sys_arch_protect(t)
  PROVE  UpdateInv'
<1> USE DEF UpdateInv, RestTypeOK, SectionsOK, CopiesOK, NoLostUpdate, Inside
<1> DEFINE new == Append(saved[t], irq)
<1>1. saved[t] \in Seq(BOOLEAN) /\ irq \in BOOLEAN
  OBVIOUS
<1>2. /\ new \in Seq(BOOLEAN)
      /\ new # <<>>
      /\ Len(new) = Len(saved[t]) + 1
      /\ Len(saved[t]) \in Nat
      /\ \A i \in 1 .. Len(saved[t]) : new[i] = saved[t][i]
      /\ new[Len(saved[t]) + 1] = irq
  BY <1>1, PushFlag
<1> HIDE DEF new
<1>3. /\ saved' = [saved EXCEPT ![t] = new]
      /\ irq' = FALSE
      /\ UNCHANGED <<alive, mutex, copy>>
  BY DEF sys_arch_protect, new
<1>4. RestTypeOK' /\ NoLostUpdate'
  BY <1>2, <1>3
<1>5. \A i \in 1 .. Len(new) : new[i] => i = 1
  <2>1. irq => Len(saved[t]) = 0
    OBVIOUS
  <2>2. \A i \in 1 .. Len(saved[t]) : saved[t][i] => i = 1
    OBVIOUS
  <2>3. \A i \in 1 .. Len(new) : i \in 1 .. Len(saved[t]) \/ i = Len(saved[t]) + 1
    BY <1>2
  <2>4. \A i \in 1 .. Len(saved[t]) : new[i] => i = 1
    BY <1>2, <2>2
  <2>5. new[Len(saved[t]) + 1] => Len(saved[t]) + 1 = 1
    BY <1>2, <2>1
  <2>6. ASSUME NEW i \in 1 .. Len(new), new[i]
        PROVE  i = 1
    <3>1. CASE i \in 1 .. Len(saved[t])
      BY <2>4, <2>6, <3>1
    <3>2. CASE i = Len(saved[t]) + 1
      BY <2>5, <2>6, <3>2
    <3> QED
      BY <2>3, <3>1, <3>2
  <2> QED
    BY <2>6
<1>6. \A u, v \in Tasks : Inside(u)' /\ Inside(v)' => u = v
  <2>1. \A u \in Tasks : Inside(u) => u = t
    BY DEF CanRun
  <2>2. \A u \in Tasks : Inside(u)' => u = t
    BY <1>3, <2>1
  <2> QED
    BY <2>2
<1>7. SectionsOK'
  BY <1>2, <1>3, <1>5, <1>6
<1>8. CopiesOK'
  BY <1>2, <1>3
<1> QED
  BY <1>4, <1>7, <1>8

\* The flags of an inner section are FALSE and interrupts stay disabled; those of
\* the outermost one may be TRUE, and then nobody is left inside.
LEMMA UnprotectStep ==
  ASSUME UpdateInv, NEW t \in Tasks, sys_arch_unprotect(t)
  PROVE  UpdateInv'
<1> USE DEF UpdateInv, RestTypeOK, SectionsOK, CopiesOK, NoLostUpdate, Inside
<1> DEFINE old == saved[t]
           new == SubSeq(old, 1, Len(old) - 1)
<1>1. old \in Seq(BOOLEAN) /\ old # <<>>
  BY DEF sys_arch_unprotect, MayLeave
<1>2. /\ new \in Seq(BOOLEAN)
      /\ Len(old) \in Nat \ {0}
      /\ old[Len(old)] \in BOOLEAN
      /\ Len(new) = Len(old) - 1
      /\ \A i \in 1 .. Len(old) - 1 : new[i] = old[i]
      /\ new = <<>> <=> Len(old) = 1
  BY <1>1, PopFlag
<1> HIDE DEF new
<1>3. /\ saved' = [saved EXCEPT ![t] = new]
      /\ irq' = old[Len(old)]
      /\ UNCHANGED <<alive, mutex, copy>>
      /\ Len(old) = 1 => copy[t]["section"] = "none"
  BY DEF sys_arch_unprotect, Leave, MayLeave, new
<1>4. RestTypeOK' /\ NoLostUpdate'
  BY <1>2, <1>3
<1>5. old[Len(old)] => new = <<>>
  BY <1>2
<1>6. irq' => \A u \in Tasks : ~Inside(u)'
  BY <1>1, <1>3, <1>5
<1>7. \A u, v \in Tasks : Inside(u)' /\ Inside(v)' => u = v
  BY <1>1, <1>3
<1>8. \A u \in Tasks : \A i \in 1 .. Len(saved'[u]) : saved'[u][i] => i = 1
  <2>1. \A i \in 1 .. Len(old) : old[i] => i = 1
    OBVIOUS
  <2>2. \A i \in 1 .. Len(new) : new[i] = old[i] /\ i \in 1 .. Len(old)
    BY <1>2
  <2>3. \A i \in 1 .. Len(new) : new[i] => i = 1
    BY <2>1, <2>2
  <2> QED
    BY <1>3, <2>3
<1>9. CopiesOK'
  BY <1>2, <1>3
<1> QED
  BY <1>4, <1>6, <1>7, <1>8, <1>9

\* Two tasks that have read the same data would both be guarded: they are one.
LEMMA WriteStep ==
  ASSUME UpdateInv, NEW t \in Tasks, NEW g \in Guards, WriteData(t, g)
  PROVE  UpdateInv'
<1> USE DEF UpdateInv, RestTypeOK, CopiesOK, NoLostUpdate
<1>1. \A u \in Tasks : copy[u][g] # "none" => u = t
  <2>1. CASE g = "section"
    BY <2>1 DEF WriteData, Guarded, SectionsOK, Inside
  <2>2. CASE g = "mutex"
    BY <2>2 DEF WriteData, Guarded
  <2> QED
    BY <2>1, <2>2 DEF Guards
<1>2. \A u \in Tasks : \A h \in Guards :
        copy'[u][h] = IF h = g THEN "none" ELSE copy[u][h]
  BY <1>1 DEF WriteData
<1>3. copy' \in [Tasks -> [Guards -> {"none", "current", "outdated"}]]
  BY DEF WriteData
<1>4. UNCHANGED <<alive, irq, saved, mutex>>
  BY DEF WriteData, sections
<1>5. SectionsOK'
  BY <1>4 DEF SectionsOK, Inside
<1>6. "section" \in Guards /\ "mutex" \in Guards
  BY DEF Guards
<1>7. CopiesOK' /\ NoLostUpdate'
  BY <1>2, <1>4, <1>6 DEF Inside
<1> QED
  BY <1>3, <1>4, <1>5, <1>7

\* What is read is guarded.
LEMMA ReadStep ==
  ASSUME UpdateInv, NEW t \in Tasks, NEW g \in Guards, ReadData(t, g)
  PROVE  UpdateInv'
<1> USE DEF UpdateInv, RestTypeOK, CopiesOK, NoLostUpdate
<1>1. \A u \in Tasks : \A h \in Guards :
        copy'[u][h] = IF u = t /\ h = g THEN "current" ELSE copy[u][h]
  BY DEF ReadData
<1>2. copy' \in [Tasks -> [Guards -> {"none", "current", "outdated"}]]
  BY DEF ReadData
<1>3. UNCHANGED <<alive, irq, saved, mutex>>
  BY DEF ReadData, sections
<1>4. SectionsOK'
  BY <1>3 DEF SectionsOK, Inside
<1>5. "section" \in Guards /\ "mutex" \in Guards
  BY DEF Guards
<1>6. /\ g = "section" => saved[t] # <<>>
      /\ g = "mutex" => mutex = t
  <2>1. saved[t] \in Seq(BOOLEAN)
    OBVIOUS
  <2>2. Len(saved[t]) = 1 => saved[t] # <<>>
    <3> HIDE DEF UpdateInv, RestTypeOK, CopiesOK, NoLostUpdate
    <3>1. saved[t] = <<>> => Len(saved[t]) = 0
      BY <2>1, NoFlags
    <3> QED
      BY <3>1
  <2> QED
    BY <2>2 DEF ReadData, Guarded
<1>7. CopiesOK' /\ NoLostUpdate'
  BY <1>1, <1>3, <1>5, <1>6 DEF Inside
<1> QED
  BY <1>2, <1>3, <1>4, <1>7

\* A mutex is locked when it is free, and unlocked when nothing is to be written.
LEMMA MutexStep ==
  ASSUME UpdateInv,
         \/ \E t \in Tasks : sys_mutex_lock(t) \/ sys_mutex_unlock(t)
         \/ sys_mutex_new \/ sys_mutex_free
  PROVE  UpdateInv'
<1> USE DEF UpdateInv, RestTypeOK, CopiesOK, NoLostUpdate
<1>1. UNCHANGED <<alive, irq, saved, copy>> /\ mutex' \in Tasks \cup {NoTask, NoMutex}
  BY DEF sys_mutex_lock, sys_mutex_unlock, sys_mutex_new, sys_mutex_free, sections
<1>2. \A u \in Tasks : mutex = u /\ mutex' # u => copy[u]["mutex"] = "none"
  BY SyncAssumption DEF sys_mutex_lock, sys_mutex_unlock, sys_mutex_new, sys_mutex_free
<1>3. SectionsOK'
  BY <1>1 DEF SectionsOK, Inside
<1>4. CopiesOK' /\ NoLostUpdate'
  BY <1>1, <1>2 DEF Inside
<1> QED
  BY <1>1, <1>3, <1>4

\* The semaphores, the clock and new threads leave sections and data alone.
LEMMA ElsewhereStep ==
  ASSUME UpdateInv, Elsewhere
  PROVE  UpdateInv'
BY DEF Elsewhere, UpdateInv, RestTypeOK, SectionsOK, CopiesOK, NoLostUpdate,
  sections, Inside

\* Every step keeps the invariant of the sections.
LEMMA UpdateStep ==
  ASSUME UpdateInv, [SyncNext]_syncVars
  PROVE  UpdateInv'
<1>1. ASSUME NEW t \in Tasks, CanRun(t), SectionStep(t)
      PROVE  UpdateInv'
  BY <1>1, ProtectStep, UnprotectStep, MutexStep, ReadStep, WriteStep DEF SectionStep
<1>2. alive \in SUBSET Tasks
  BY DEF UpdateInv, RestTypeOK
<1>3. ASSUME NEW t \in Tasks, SemStep(t)
      PROVE  UpdateInv'
  BY <1>2, <1>3, ElsewhereStep DEF SemStep, Elsewhere
<1>4. CASE Manage
  <2>1. ASSUME NEW t \in Tasks, sys_thread_new(t)
        PROVE  Elsewhere
    BY <1>2, <2>1 DEF sys_thread_new, Elsewhere
  <2>2. ASSUME SemManage, UNCHANGED <<alive, sections, mutex, copy>>
        PROVE  Elsewhere
    BY <1>2, <2>2 DEF Elsewhere
  <2>3. CASE sys_mutex_new \/ sys_mutex_free
    BY <2>3, MutexStep
  <2> QED
    BY <1>4, <2>1, <2>2, <2>3, ElsewhereStep DEF Manage
<1>5. CASE Clock \/ UNCHANGED syncVars
  BY <1>2, <1>5, ElsewhereStep DEF Clock, syncVars, Elsewhere
<1> QED
  BY <1>1, <1>3, <1>4, <1>5 DEF SyncNext

-----------------------------------------------------------------------------
(* The theorems. *)

\* The invariants of the semaphores and of the sections hold together.
LEMMA SyncInvariant == SyncSpec => [](SemInv /\ UpdateInv)
<1>1. SyncInit => SemInv /\ UpdateInv
  BY SemInitInv, UpdateInit DEF SyncInit
<1>2. SemInv /\ UpdateInv /\ [SyncNext]_syncVars => (SemInv /\ UpdateInv)'
  BY SyncStepsSemaphores, SemStepInv, UpdateStep
<1> QED
  BY <1>1, <1>2, PTL DEF SyncSpec

\* All objects of the port keep their types; interrupts are enabled only outside
\* of all sections, and only outermost sections have found them enabled
\* (sys_arch.c:73-106, 115-209).
THEOREM SyncTypes == SyncSpec => []SyncTypeOK
<1>1. SemInv /\ UpdateInv => SyncTypeOK
  <2> SUFFICES ASSUME SemInv, UpdateInv
               PROVE  SyncTypeOK
    OBVIOUS
  <2>1. \A t \in Tasks : DOMAIN saved[t] = 1 .. Len(saved[t])
    BY DEF UpdateInv, RestTypeOK
  <2>2. /\ irq => \A t \in Tasks : ~Inside(t)
        /\ \A t \in Tasks : \A k \in DOMAIN saved[t] : saved[t][k] => k = 1
    BY <2>1 DEF UpdateInv, SectionsOK
  <2> QED
    BY <2>2 DEF SemInv, UpdateInv, RestTypeOK, SyncTypeOK
<1> QED
  BY <1>1, SyncInvariant, PTL

\* What a task writes back inside a section or under the mutex is up to date,
\* however sections nest and tasks preempt each other (sys_arch.c:198-209).
THEOREM SyncNoLostUpdate == SyncSpec => []NoLostUpdate
<1>1. SemInv /\ UpdateInv => NoLostUpdate
  BY DEF UpdateInv
<1> QED
  BY <1>1, SyncInvariant, PTL

\* A wait with a limit that got its signal returns a time from 1 to the limit,
\* as long as a tick is at least a millisecond (sys_arch.c:95-105).
THEOREM SyncTimeInRange ==
  ASSUME HZ <= Second
  PROVE  SyncSpec => []SemTimeInRange
<1>1. SyncInit => SemTimeInRange
  BY SemInitInv DEF SyncInit
<1>2. SemInv /\ SemTimeInRange /\ [SyncNext]_syncVars => SemTimeInRange'
  BY SyncStepsSemaphores, RangeStep
<1> QED
  BY <1>1, <1>2, SyncInvariant, PTL DEF SyncSpec

\* The semaphores of the port are counting semaphores: a wait that returns a time
\* has taken one signal and one that returns SYS_ARCH_TIMEOUT none
\* (sys_arch.c:92-105).
THEOREM SyncCounting == SyncSpec => SemSpec
<1>1. SyncInit => Counting!Init
  BY CountingInit DEF SyncInit
<1>2. SemInv /\ SemInv' /\ [SyncNext]_syncVars => [Counting!Next]_Counting!vars
  BY SyncStepsSemaphores, CountingStep
<1> QED
  BY <1>1, <1>2, SyncInvariant, PTL DEF SyncSpec, SemSpec, Counting!Spec
=============================================================================
