------------------------------- MODULE Sockets -------------------------------
(***************************************************************************)
(* The socket files of sockets.c: a file slot of the kernel's library that *)
(* stands for a socket descriptor of lwIP. Both tables are limited, both   *)
(* are shared by all tasks, and each call takes them one after the other:  *)
(* a step is one library call, so that the calls of several tasks overlap. *)
(*                                                                         *)
(* A task uses the sockets that it opened itself.                          *)
(***************************************************************************)
EXTENDS Naturals

CONSTANTS
  Tasks,
  Slots,    \* the files the library has: UOSCFG_MAX_OPEN_FILES
  Fds,      \* the sockets lwIP has
  NoTask, NoSlot, NoFd

ASSUME SocketsAssumption ==
  /\ NoTask \notin Tasks
  /\ NoSlot \notin Slots
  /\ NoFd \notin Fds

VARIABLES
  used,       \* the slots that uosFileAlloc gave out
  fsPrivFd,   \* the descriptor in a slot; a slot keeps it when it is freed
  opened,     \* the task that has a slot as an open socket
  conn,       \* the slot a descriptor was opened for; NoSlot when it is closed
  lost,       \* history: descriptors that lwip_close could not close
  leaked,     \* history: slots of sockets closed with closesocket
  pc,
  file,       \* locals of the calls
  sock

vars == <<used, fsPrivFd, opened, conn, lost, leaked, pc, file, sock>>

PC == {"idle", "socket", "accept", "failed", "assign", "use",
       "close", "free", "closesocket"}

Init ==
  /\ used = {}
  /\ fsPrivFd \in [Slots -> {NoFd}]
  /\ opened = [s \in Slots |-> NoTask]
  /\ conn = [f \in Fds |-> NoSlot]
  /\ lost = {}
  /\ leaked = {}
  /\ pc = [t \in Tasks |-> "idle"]
  /\ file = [t \in Tasks |-> NoSlot]
  /\ sock = [t \in Tasks |-> NoFd]

Goto(t, label) == pc' = [pc EXCEPT ![t] = label]

-----------------------------------------------------------------------------
(* Opening: socket and accept. *)

\* Both calls take a slot first, and return -1 when there is none.
uosFileAlloc(t, s) ==
  /\ s \notin used
  /\ used' = used \cup {s}
  /\ file' = [file EXCEPT ![t] = s]

socket(t) ==
  /\ pc[t] = "idle"
  /\ \E s \in Slots : uosFileAlloc(t, s)
  /\ Goto(t, "socket")
  /\ UNCHANGED <<fsPrivFd, opened, conn, lost, sock, leaked>>

netLwIP_FD(s) == fsPrivFd[s]

\* accept(s) keeps the new slot for as long as no connection comes in.
accept(t, s) ==
  /\ pc[t] = "idle"
  /\ opened[s] = t
  /\ \E n \in Slots : uosFileAlloc(t, n)
  /\ sock' = [sock EXCEPT ![t] = netLwIP_FD(s)]
  /\ Goto(t, "accept")
  /\ UNCHANGED <<fsPrivFd, opened, conn, lost, leaked>>

\* lwip_socket, and lwip_accept on the descriptor of an open socket: a new
\* descriptor, or -1.
lwip_open(t) ==
  /\ \/ pc[t] = "socket"
     \/ pc[t] = "accept" /\ conn[sock[t]] # NoSlot
  /\ \E f \in Fds :
       /\ conn[f] = NoSlot
       /\ conn' = [conn EXCEPT ![f] = file[t]]
       /\ sock' = [sock EXCEPT ![t] = f]
  /\ Goto(t, "assign")
  /\ UNCHANGED <<used, fsPrivFd, opened, lost, file, leaked>>

\* Mutant: -1 is taken for a descriptor.
lwip_open_failedUnchecked(t) ==
  /\ pc[t] \in {"socket", "accept"}
  /\ sock' = [sock EXCEPT ![t] = NoFd]
  /\ Goto(t, "assign")
  /\ UNCHANGED <<used, fsPrivFd, opened, conn, lost, file, leaked>>

lwip_open_failed(t) ==
  /\ pc[t] \in {"socket", "accept"}
  /\ sock' = [sock EXCEPT ![t] = NoFd]
  /\ Goto(t, "failed")
  /\ UNCHANGED <<used, fsPrivFd, opened, conn, lost, file, leaked>>

\* Mutant: forgets the slot when lwIP has no socket.
undoKeepsSlot(t) ==
  /\ pc[t] = "failed"
  /\ file' = [file EXCEPT ![t] = NoSlot]
  /\ Goto(t, "idle")
  /\ UNCHANGED <<used, fsPrivFd, opened, conn, lost, sock, leaked>>

\* uosFileFree(file); return -1.
undo(t) ==
  /\ pc[t] = "failed"
  /\ used' = used \ {file[t]}
  /\ file' = [file EXCEPT ![t] = NoSlot]
  /\ Goto(t, "idle")
  /\ UNCHANGED <<fsPrivFd, opened, conn, lost, sock, leaked>>

\* Mutant: the slot keeps the descriptor it had before.
assignNothing(t) ==
  /\ pc[t] = "assign"
  /\ opened' = [opened EXCEPT ![file[t]] = t]
  /\ file' = [file EXCEPT ![t] = NoSlot]
  /\ sock' = [sock EXCEPT ![t] = NoFd]
  /\ Goto(t, "idle")
  /\ UNCHANGED <<used, fsPrivFd, conn, lost, leaked>>

\* The slot gets its descriptor and the caller the slot.
assign(t) ==
  /\ pc[t] = "assign"
  /\ fsPrivFd' = [fsPrivFd EXCEPT ![file[t]] = sock[t]]
  /\ opened' = [opened EXCEPT ![file[t]] = t]
  /\ file' = [file EXCEPT ![t] = NoSlot]
  /\ sock' = [sock EXCEPT ![t] = NoFd]
  /\ Goto(t, "idle")
  /\ UNCHANGED <<used, conn, lost, leaked>>

-----------------------------------------------------------------------------
(* Using: sockRead, sockWrite and the macros of picoos-lwip.h. *)

\* The descriptor is looked up, then handed to lwIP.
Use(t, s) ==
  /\ pc[t] = "idle"
  /\ opened[s] = t
  /\ sock' = [sock EXCEPT ![t] = netLwIP_FD(s)]
  /\ Goto(t, "use")
  /\ UNCHANGED <<used, fsPrivFd, opened, conn, lost, file, leaked>>

lwip_use(t) ==
  /\ pc[t] = "use"
  /\ sock' = [sock EXCEPT ![t] = NoFd]
  /\ Goto(t, "idle")
  /\ UNCHANGED <<used, fsPrivFd, opened, conn, lost, file, leaked>>

-----------------------------------------------------------------------------
(* Closing. *)

\* uosClose calls sockClose, which reads the descriptor from the slot.
sockClose(t, s) ==
  /\ pc[t] = "idle"
  /\ opened[s] = t
  /\ opened' = [opened EXCEPT ![s] = NoTask]
  /\ file' = [file EXCEPT ![t] = s]
  /\ sock' = [sock EXCEPT ![t] = fsPrivFd[s]]
  /\ Goto(t, "close")
  /\ UNCHANGED <<used, fsPrivFd, conn, lost, leaked>>

\* The macro: lwip_close(netLwIP_FD(s)). It never frees the slot.
closesocket(t, s) ==
  /\ pc[t] = "idle"
  /\ opened[s] = t
  /\ opened' = [opened EXCEPT ![s] = NoTask]
  /\ sock' = [sock EXCEPT ![t] = netLwIP_FD(s)]
  /\ Goto(t, "closesocket")
  /\ leaked' = leaked \cup {s}
  /\ UNCHANGED <<used, fsPrivFd, conn, lost, file>>

\* Mutant: nothing is closed.
lwip_closeNothing(f) == UNCHANGED <<conn, lost>>

\* lwip_close may fail and leave the socket as it is. Its result is ignored.
lwip_close(f) ==
  \/ conn' = [conn EXCEPT ![f] = NoSlot] /\ UNCHANGED lost
  \/ lost' = lost \cup {f} /\ UNCHANGED conn

CloseFd(t) ==
  /\ pc[t] \in {"close", "closesocket"}
  /\ lwip_close(sock[t])
  /\ sock' = [sock EXCEPT ![t] = NoFd]
  /\ Goto(t, IF pc[t] = "close" THEN "free" ELSE "idle")
  /\ UNCHANGED <<used, fsPrivFd, opened, file, leaked>>

FreeFile(t) ==
  /\ pc[t] = "free"
  /\ used' = used \ {file[t]}
  /\ file' = [file EXCEPT ![t] = NoSlot]
  /\ Goto(t, "idle")
  /\ UNCHANGED <<fsPrivFd, opened, conn, lost, sock, leaked>>

Next ==
  \E t \in Tasks :
    \/ socket(t) \/ lwip_open(t) \/ lwip_open_failed(t) \/ undo(t) \/ assign(t)
    \/ lwip_use(t) \/ CloseFd(t) \/ FreeFile(t)
    \/ \E s \in Slots : accept(t, s) \/ Use(t, s) \/ sockClose(t, s) \/ closesocket(t, s)

Spec == Init /\ [][Next]_vars

-----------------------------------------------------------------------------
(* What must be true. *)

\* The two tables keep their types, and only a descriptor that lwIP returned is
\* put into a slot (sockets.c:101, 123).
TypeOK ==
  /\ used \subseteq Slots
  /\ fsPrivFd \in [Slots -> Fds \cup {NoFd}]
  /\ opened \in [Slots -> Tasks \cup {NoTask}]
  /\ conn \in [Fds -> Slots \cup {NoSlot}]
  /\ lost \subseteq Fds
  /\ leaked \subseteq Slots
  /\ pc \in [Tasks -> PC]
  /\ file \in [Tasks -> Slots \cup {NoSlot}]
  /\ sock \in [Tasks -> Fds \cup {NoFd}]
  /\ \A t \in Tasks : pc[t] = "assign" => sock[t] \in Fds

Open == {s \in Slots : opened[s] # NoTask}

\* A socket that a task has open leads to the descriptor that was opened for
\* it, and to no other: neither a descriptor that another task closed and lwIP
\* gave out again, nor the one that its slot had in an earlier life. And the
\* descriptor that a call has looked up is still that of the task's socket when
\* lwIP gets it (sockets.c:82-90, 107-111, 129-133, 146-160).
OpenLeadsToOwn ==
  /\ \A s \in Open :
       /\ s \in used
       /\ fsPrivFd[s] \in Fds /\ conn[fsPrivFd[s]] = s
  /\ \A t \in Tasks : pc[t] \in {"use", "accept"} =>
       \E s \in Slots : opened[s] = t /\ conn[sock[t]] = s

\* An open socket or a call that is about to hand it over or to close it has f.
Held(f) ==
  \/ \E s \in Open : fsPrivFd[s] = f
  \/ \E t \in Tasks : pc[t] \in {"assign", "close", "closesocket"} /\ sock[t] = f

\* A descriptor of lwIP is in use as long as an open socket or a call in progress
\* has it: no call that fails half way leaves one behind, and none is closed that
\* someone still has. The exception are the descriptors that lwip_close could
\* not close, which sockets.c:141 ignores: they stay in use for good, and nobody
\* has them any more, though their slots are given to new sockets
\* (sockets.c:100-105, 122-127, 137-144).
NoOrphanFd ==
  \A f \in Fds :
    /\ conn[f] # NoSlot <=> Held(f) \/ f \in lost
    /\ ~(Held(f) /\ f \in lost)

\* A slot that is in use belongs to an open socket or to a call in progress, or
\* its socket was closed with closesocket: an accept or a socket call that finds
\* no descriptor gives its slot back (sockets.c:103, 125, 142). And a slot that
\* is lost stays lost: nobody gets it while it counts as used.
NoOrphanSlot ==
  /\ \A s \in used :
       s \in Open \/ s \in leaked \/ \E t \in Tasks : file[t] = s
  /\ \A s \in leaked : s \in used /\ s \notin Open /\ \A t \in Tasks : file[t] # s
==============================================================================
