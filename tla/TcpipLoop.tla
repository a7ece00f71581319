------------------------------ MODULE TcpipLoop ------------------------------
(***************************************************************************)
(* The thread of the network stack at its mailbox. Applications post it    *)
(* calls with sys_mbox_post and wait for the answer on a semaphore, device *)
(* drivers post packets with sys_mbox_trypost, and the thread counts down  *)
(* its timer with the times that sys_arch_mbox_fetch returns: this is the  *)
(* "sys.c-timer" of the comments at sys_arch.c:95-98 and 157-160. The loop *)
(* itself is lwIP's, and is modelled as those comments describe it.        *)
(***************************************************************************)
EXTENDS SysMbox

CONSTANTS
  Thread,       \* the fetching task
  Apps,         \* tasks that call the stack
  Drivers,      \* tasks that hand it packets
  Packets,      \* buffers of the drivers
  tcpip_mbox,   \* the mailbox
  MboxSize,
  Period        \* milliseconds between two expiries of the timer

\* The program around the mailbox. The message of a call is a variable on the
\* stack of the application that makes it, and is named by the application. It
\* is not an ASSUME, which would narrow what is proved of mailboxes in general;
\* the theorems about the loop state it.
LoopConstants ==
  /\ Posters = Apps \cup Drivers
  /\ Fetchers = {Thread}
  /\ Thread \notin Posters
  /\ Apps \cap Drivers = {}
  /\ Mboxes = {tcpip_mbox}
  /\ Msgs = Apps \cup Packets
  /\ Apps \cap Packets = {}
  /\ MboxSize \in Nat \ {0}
  /\ Period \in Nat \ {0}
  /\ 1 .. Period \subseteq Timeouts

VARIABLES
  next,   \* milliseconds until the timer expires
  api,    \* what an application is doing
  sem     \* the semaphore it waits on

loop     == <<next, api, sem>>
loopVars == <<vars, loop>>

\* The loop keeps its types on top of the mailbox: the timer never counts below
\* zero (sys_arch.c:167).
LoopTypeOK ==
  /\ TypeOK
  /\ next \in 0 .. Period
  /\ api \in [Apps -> {"idle", "posting", "waiting"}]
  /\ sem \in [Apps -> Nat]

\* tcpip_init has created the mailbox.
LoopInit ==
  /\ jiffies = 0
  /\ handle = [m \in Mboxes |-> "live"]
  /\ cap = [m \in Mboxes |-> MboxSize]
  /\ ring = [m \in Mboxes |-> <<>>]
  /\ pool = Msgs
  /\ LocalInit
  /\ next = Period
  /\ api = [a \in Apps |-> "idle"]
  /\ sem = [a \in Apps |-> 0]

-----------------------------------------------------------------------------
(* Applications. *)

ApiCall(a) ==
  /\ api[a] = "idle"
  /\ PostCall(a, tcpip_mbox, a)
  /\ api' = [api EXCEPT ![a] = "posting"]
  /\ UNCHANGED <<next, sem>>

ApiPost(a) ==
  /\ api[a] = "posting"
  /\ sys_mbox_post(a)
  /\ api' = [api EXCEPT ![a] = "waiting"]
  /\ UNCHANGED <<next, sem>>

\* Mutant: a wait that leaves the signal behind.
sys_arch_sem_waitKeeps(a) ==
  /\ api[a] = "waiting"
  /\ sem[a] > 0
  /\ api' = [api EXCEPT ![a] = "idle"]
  /\ UNCHANGED <<vars, next, sem>>

\* sys_arch_sem_wait(sem, 0), which has no limit: the call is over, and its
\* message goes out of scope with it.
sys_arch_sem_wait(a) ==
  /\ api[a] = "waiting"
  /\ sem[a] > 0
  /\ sem' = [sem EXCEPT ![a] = @ - 1]
  /\ api' = [api EXCEPT ![a] = "idle"]
  /\ UNCHANGED <<vars, next>>

-----------------------------------------------------------------------------
(* Drivers. *)

Packet(d) ==
  /\ \/ \E x \in Packets : sys_mbox_trypost(d, tcpip_mbox, x)
     \/ Discard(d)
  /\ UNCHANGED loop

-----------------------------------------------------------------------------
(* The thread of the stack. *)

\* The timer has expired: its handler runs and it is armed again.
TimerFire ==
  /\ pc[Thread] = "idle"
  /\ next = 0
  /\ next' = Period
  /\ UNCHANGED <<vars, api, sem>>

LoopFetch ==
  /\ next > 0
  /\ FetchCall(Thread, tcpip_mbox, next)
  /\ UNCHANGED loop

LoopWait ==
  /\ \/ RingGet(Thread)
     \/ RingWait(Thread)
     \/ FetchTimeout(Thread)
     \/ FetchReturn(Thread)
  /\ UNCHANGED loop

\* The timer is nearer by what the fetch returned.
CountDown ==
  next' = IF ret[Thread] < next THEN next - ret[Thread] ELSE 0

\* Mutant: the answer gets lost.
sys_sem_signalLost(a) == UNCHANGED sem

sys_sem_signal(a) == sem' = [sem EXCEPT ![a] = @ + 1]

\* The fetch is over. A packet is consumed, a call is executed and answered.
LoopHandle ==
  /\ Release(Thread)
  /\ IF msg[Thread] = NoMsg THEN next' = 0 ELSE CountDown
  /\ IF msg[Thread] \in Apps THEN sys_sem_signal(msg[Thread])
                             ELSE UNCHANGED sem
  /\ UNCHANGED api

ThreadStep == TimerFire \/ LoopFetch \/ LoopWait \/ LoopHandle

Clock == Tick /\ UNCHANGED loop

LoopNext ==
  \/ \E a \in Apps : ApiCall(a) \/ ApiPost(a) \/ sys_arch_sem_wait(a)
  \/ \E d \in Drivers : Packet(d)
  \/ ThreadStep
  \/ Clock

\* The scheduler runs the thread and the clock interrupt. A slot that becomes
\* free goes to a task that waits for it, however often drivers come along
\* with trypost: strong fairness for the post.
Fairness ==
  /\ WF_loopVars(ThreadStep)
  /\ WF_loopVars(Clock)
  /\ \A a \in Apps : SF_loopVars(ApiPost(a)) /\ WF_loopVars(sys_arch_sem_wait(a))

LoopSpec == LoopInit /\ [][LoopNext]_loopVars /\ Fairness

-----------------------------------------------------------------------------
(* What must be true. *)

\* While a call is in progress there is either its message, on its way to the
\* thread or with it, or the signal that answers it, and never both; before
\* and after the call there is neither. So the thread never touches the
\* message of a call that has returned, whose stack frame is gone, and a
\* signal that came late or twice never ends the next call too early.
CallsPaired ==
  \A a \in Apps :
    LET inFlight == IF a \in pool THEN 0 ELSE 1
    IN  inFlight + sem[a] = IF api[a] = "idle" THEN 0 ELSE 1

\* "... when there is high traffic on this semaphore, this function may always
\* return with zero and a sys.c-timer may never expire" (sys_arch.c:96-98,
\* 158-160) is what the minimum of the returned time rules out: the timer
\* expires again and again under any traffic.
TimerExpires == []<>(next = 0)

\* Every call of an application returns, although drivers compete with it for
\* the slots of the mailbox.
CallsReturn == \A a \in Apps : api[a] # "idle" ~> api[a] = "idle"
==============================================================================
