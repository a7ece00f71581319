--------------------------- MODULE SocketsProofs ---------------------------
(***************************************************************************)
(* The socket files of sockets.c, for every set of tasks, any number of    *)
(* file slots and any number of lwIP sockets.                              *)
(*                                                                         *)
(* The inductive invariant is Inv: the types, the three properties that    *)
(* the runs check, and what a call holds on the way (CallsHold). Slots are *)
(* owned by one task (SlotsApart), and so are the descriptors that the     *)
(* macro closesocket closes (FdsApart): lwIP would give out again what one *)
(* of two such calls has closed, and the other would close it once more.   *)
(***************************************************************************)
EXTENDS Sockets, TLAPS

Holding == {"socket", "accept", "failed", "assign", "close", "free"}

\* What the locals of a call stand for at each place.
CallsHold ==
  \A t \in Tasks :
    /\ pc[t] \in Holding <=> file[t] # NoSlot
    /\ pc[t] \in {"accept", "assign", "use", "close", "closesocket"} => sock[t] \in Fds
    /\ pc[t] \in {"assign", "close"} => conn[sock[t]] = file[t]
    /\ pc[t] = "closesocket" => conn[sock[t]] \in leaked
    /\ pc[t] \in {"use", "accept"} =>
         \E s \in Slots : opened[s] = t /\ fsPrivFd[s] = sock[t]

SlotsApart ==
  /\ \A t \in Tasks : file[t] # NoSlot => file[t] \in used /\ opened[file[t]] = NoTask
  /\ \A t, u \in Tasks : file[t] = file[u] /\ file[t] # NoSlot => t = u

FdsApart ==
  \A t, u \in Tasks :
    pc[t] = "closesocket" /\ pc[u] = "closesocket" /\ sock[t] = sock[u] => t = u

Inv ==
  /\ TypeOK
  /\ CallsHold
  /\ SlotsApart
  /\ FdsApart
  /\ OpenLeadsToOwn
  /\ NoOrphanFd
  /\ NoOrphanSlot

\* A call of a task, as Next has it.
Step(t) ==
  \/ socket(t) \/ lwip_open(t) \/ lwip_open_failed(t) \/ undo(t) \/ assign(t)
  \/ lwip_use(t) \/ CloseFd(t) \/ FreeFile(t)
  \/ \E s \in Slots : accept(t, s) \/ Use(t, s) \/ sockClose(t, s) \/ closesocket(t, s)

\* The places of a call are all different.
LEMMA Places ==
  ASSUME Inv, NEW t \in Tasks
  PROVE  /\ pc[t] \notin Holding <=> pc[t] \in {"idle", "use", "closesocket"}
         /\ file[t] # NoSlot => file[t] \in Slots
         /\ pc[t] \in Holding => file[t] \in used /\ opened[file[t]] = NoTask
BY DEF Inv, TypeOK, PC, Holding, CallsHold, SlotsApart

\* Nothing is open at the start.
LEMMA InitInv == Init => Inv
BY SocketsAssumption
DEF Init, Inv, TypeOK, PC, CallsHold, Holding, SlotsApart, FdsApart,
    OpenLeadsToOwn, Open, NoOrphanFd, Held, NoOrphanSlot

\* The slot that socket and accept take is nobody's.
LEMMA AllocStep ==
  ASSUME Inv, NEW t \in Tasks, socket(t) \/ \E s \in Slots : accept(t, s)
  PROVE  Inv'
<1> USE SocketsAssumption
<1>1. PICK n \in Slots : /\ n \notin used
                         /\ used' = used \cup {n}
                         /\ file' = [file EXCEPT ![t] = n]
  BY DEF socket, accept, uosFileAlloc
<1>2. /\ pc[t] = "idle"
      /\ UNCHANGED <<fsPrivFd, opened, conn, lost, leaked>>
      /\ \/ pc' = [pc EXCEPT ![t] = "socket"] /\ UNCHANGED sock
         \/ \E s \in Slots : /\ pc' = [pc EXCEPT ![t] = "accept"]
                             /\ opened[s] = t
                             /\ sock' = [sock EXCEPT ![t] = fsPrivFd[s]]
  BY DEF socket, accept, Goto, netLwIP_FD
<1>3. /\ opened[n] = NoTask
      /\ n \notin leaked
      /\ \A u \in Tasks : file[u] # n
  BY <1>1 DEF Inv, OpenLeadsToOwn, Open, NoOrphanSlot, SlotsApart
<1>4. \A s \in Slots : opened[s] = t => fsPrivFd[s] \in Fds /\ conn[fsPrivFd[s]] = s
  BY DEF Inv, OpenLeadsToOwn, Open
<1>5. TypeOK'
  BY <1>1, <1>2, <1>4 DEF Inv, TypeOK, PC
<1>6. CallsHold'
  BY <1>1, <1>2, <1>4 DEF Inv, TypeOK, CallsHold, Holding
<1>7. SlotsApart'
  BY <1>1, <1>2, <1>3 DEF Inv, TypeOK, SlotsApart
<1>8. FdsApart' /\ NoOrphanFd'
  BY <1>1, <1>2 DEF Inv, TypeOK, FdsApart, NoOrphanFd, Held, Open
<1>9. OpenLeadsToOwn'
  BY <1>1, <1>2, <1>4 DEF Inv, TypeOK, OpenLeadsToOwn, Open
<1>10. NoOrphanSlot'
  <2>1. file[t] = NoSlot
    BY <1>2 DEF Inv, CallsHold, Holding
  <2>2. file'[t] = n /\ \A v \in Tasks \ {t} : file'[v] = file[v]
    BY <1>1 DEF Inv, TypeOK
  <2>3. ASSUME NEW s \in used'
        PROVE  s \in Open' \/ s \in leaked' \/ \E v \in Tasks : file'[v] = s
    <3>1. CASE s = n
      BY <2>2, <3>1
    <3>2. CASE s \in used
      BY <1>2, <2>1, <2>2, <3>2 DEF Inv, TypeOK, NoOrphanSlot, Open
    <3> QED
      BY <1>1, <2>3, <3>1, <3>2
  <2>4. \A s \in leaked' :
          s \in used' /\ s \notin Open' /\ \A v \in Tasks : file'[v] # s
    BY <1>1, <1>2, <1>3, <2>2 DEF Inv, NoOrphanSlot, Open
  <2> QED
    BY <2>3, <2>4 DEF NoOrphanSlot
<1> QED
  BY <1>5, <1>6, <1>7, <1>8, <1>9, <1>10 DEF Inv


\* A descriptor that was given out is nobody's, and the slot it is given out for
\* is that of the call.
LEMMA OpenStep ==
  ASSUME Inv, NEW t \in Tasks, lwip_open(t)
  PROVE  Inv'
<1> USE SocketsAssumption
<1>1. PICK f \in Fds : /\ conn[f] = NoSlot
                       /\ conn' = [conn EXCEPT ![f] = file[t]]
                       /\ sock' = [sock EXCEPT ![t] = f]
  BY DEF lwip_open
<1>2. /\ pc[t] \in {"socket", "accept"}
      /\ pc' = [pc EXCEPT ![t] = "assign"]
      /\ UNCHANGED <<used, fsPrivFd, opened, lost, file, leaked>>
  BY DEF lwip_open, Goto
<1>3. file[t] \in Slots
  BY <1>2, Places DEF Inv, CallsHold, Holding
<1>4. TypeOK'
  BY <1>1, <1>2, <1>3 DEF Inv, TypeOK, PC
<1>5. \A u \in Tasks \ {t} : pc'[u] = pc[u] /\ sock'[u] = sock[u]
  BY <1>1, <1>2 DEF Inv, TypeOK
<1>6. \A g \in Fds : conn[g] # NoSlot => conn'[g] = conn[g]
  BY <1>1 DEF Inv, TypeOK
<1>7. CallsHold'
  <2>1. ASSUME NEW u \in Tasks \ {t}
        PROVE  /\ pc[u] \in {"assign", "close", "closesocket"} =>
                    conn[sock[u]] # NoSlot /\ conn'[sock[u]] = conn[sock[u]]
    BY <1>3, <1>6, Places DEF Inv, TypeOK, CallsHold, Holding, NoOrphanSlot
  <2> QED
    BY <1>1, <1>2, <1>3, <1>5, <2>1 DEF Inv, TypeOK, CallsHold, Holding
<1>8. SlotsApart' /\ FdsApart' /\ NoOrphanSlot'
  BY <1>2, <1>5 DEF Inv, TypeOK, SlotsApart, FdsApart, NoOrphanSlot, Open
<1>9. OpenLeadsToOwn'
  <2>1. \A s \in Open : fsPrivFd[s] \in Fds /\ conn'[fsPrivFd[s]] = s
    BY <1>6 DEF Inv, OpenLeadsToOwn, Open
  <2>2. \A u \in Tasks : pc'[u] \in {"use", "accept"} =>
          \E s \in Slots : opened[s] = u /\ fsPrivFd[s] = sock'[u]
    BY <1>2, <1>5 DEF Inv, TypeOK, CallsHold
  <2>3. \A u \in Tasks : \A s \in Slots : opened[s] = u => s \in Open
    BY DEF Open
  <2> QED
    BY <1>2, <2>1, <2>2, <2>3 DEF Inv, OpenLeadsToOwn, Open
<1>10. NoOrphanFd'
  <2>1. /\ conn'[f] # NoSlot /\ f \notin lost
        /\ \A g \in Fds \ {f} : conn'[g] = conn[g]
    BY <1>1, <1>3 DEF Inv, TypeOK, NoOrphanFd
  <2>2. pc'[t] = "assign" /\ sock'[t] = f
    BY <1>1, <1>2 DEF Inv, TypeOK
  <2>3. \A g \in Fds \ {f} : Held(g)' <=> Held(g)
    BY <1>2, <1>5, <2>2 DEF Held, Open
  <2>4. Held(f)'
    BY <2>2 DEF Held
  <2> QED
    BY <1>2, <2>1, <2>3, <2>4 DEF Inv, NoOrphanFd
<1> QED
  BY <1>4, <1>7, <1>8, <1>9, <1>10 DEF Inv


\* lwIP has no socket: the call still has its slot, until it gives it back.
LEMMA OpenFailedStep ==
  ASSUME Inv, NEW t \in Tasks, lwip_open_failed(t)
  PROVE  Inv'
<1> USE SocketsAssumption
<1>1. /\ pc[t] \in {"socket", "accept"}
      /\ pc' = [pc EXCEPT ![t] = "failed"]
      /\ sock' = [sock EXCEPT ![t] = NoFd]
      /\ UNCHANGED <<used, fsPrivFd, opened, conn, lost, file, leaked>>
  BY DEF lwip_open_failed, Goto
<1>2. TypeOK'
  BY <1>1 DEF Inv, TypeOK, PC
<1>3. CallsHold'
  BY <1>1 DEF Inv, TypeOK, CallsHold, Holding
<1>4. SlotsApart' /\ FdsApart' /\ NoOrphanSlot'
  BY <1>1 DEF Inv, TypeOK, SlotsApart, FdsApart, NoOrphanSlot, Open
<1>5. OpenLeadsToOwn' /\ NoOrphanFd'
  BY <1>1 DEF Inv, TypeOK, OpenLeadsToOwn, NoOrphanFd, Held, Open
<1> QED
  BY <1>2, <1>3, <1>4, <1>5 DEF Inv

\* A slot is given back by the call that has it, when it stands for no socket.
LEMMA FreeStep ==
  ASSUME Inv, NEW t \in Tasks, undo(t) \/ FreeFile(t)
  PROVE  Inv'
<1> USE SocketsAssumption
<1>1. /\ pc[t] \in {"failed", "free"}
      /\ pc' = [pc EXCEPT ![t] = "idle"]
      /\ used' = used \ {file[t]}
      /\ file' = [file EXCEPT ![t] = NoSlot]
      /\ UNCHANGED <<fsPrivFd, opened, conn, lost, sock, leaked>>
  BY DEF undo, FreeFile, Goto
<1>2. /\ file[t] \in Slots
      /\ opened[file[t]] = NoTask
      /\ file[t] \notin leaked
      /\ \A u \in Tasks \ {t} : file[u] # file[t]
  BY <1>1, Places DEF Inv, Holding, SlotsApart, NoOrphanSlot, CallsHold
<1>3. TypeOK'
  BY <1>1 DEF Inv, TypeOK, PC
<1>4. CallsHold'
  BY <1>1 DEF Inv, TypeOK, CallsHold, Holding
<1>5. SlotsApart' /\ FdsApart'
  BY <1>1, <1>2 DEF Inv, TypeOK, SlotsApart, FdsApart
<1>6. NoOrphanSlot'
  BY <1>1, <1>2 DEF Inv, TypeOK, NoOrphanSlot, Open
<1>7. OpenLeadsToOwn' /\ NoOrphanFd'
  BY <1>1, <1>2 DEF Inv, TypeOK, OpenLeadsToOwn, NoOrphanFd, Held, Open
<1> QED
  BY <1>3, <1>4, <1>5, <1>6, <1>7 DEF Inv

\* The call hands slot and descriptor over to the open socket.
LEMMA AssignStep ==
  ASSUME Inv, NEW t \in Tasks, assign(t)
  PROVE  Inv'
<1> USE SocketsAssumption
<1> DEFINE s == file[t]
           f == sock[t]
<1>1. /\ pc[t] = "assign"
      /\ pc' = [pc EXCEPT ![t] = "idle"]
      /\ fsPrivFd' = [fsPrivFd EXCEPT ![s] = f]
      /\ opened' = [opened EXCEPT ![s] = t]
      /\ file' = [file EXCEPT ![t] = NoSlot]
      /\ sock' = [sock EXCEPT ![t] = NoFd]
      /\ UNCHANGED <<used, conn, lost, leaked>>
  BY DEF assign, Goto
<1>2. /\ s \in Slots /\ s \in used
      /\ opened[s] = NoTask
      /\ s \notin leaked
      /\ f \in Fds /\ conn[f] = s
      /\ \A u \in Tasks \ {t} : file[u] # s
  BY <1>1, Places DEF Inv, Holding, SlotsApart, NoOrphanSlot, CallsHold
<1> HIDE DEF s, f
<1>3. TypeOK'
  BY <1>1, <1>2 DEF Inv, TypeOK, PC
<1>4. \A r \in Slots : opened[r] # NoTask =>
        r # s /\ opened'[r] = opened[r] /\ fsPrivFd'[r] = fsPrivFd[r]
  BY <1>1, <1>2 DEF Inv, TypeOK
<1>5. opened'[s] = t /\ fsPrivFd'[s] = f
  BY <1>1, <1>2 DEF Inv, TypeOK
<1>6. CallsHold'
  BY <1>1, <1>4 DEF Inv, TypeOK, CallsHold, Holding
<1>7. SlotsApart' /\ FdsApart'
  BY <1>1, <1>2 DEF Inv, TypeOK, SlotsApart, FdsApart
<1>8. Open' = Open \cup {s}
  BY <1>1, <1>2, <1>5 DEF Inv, TypeOK, Open
<1>9. NoOrphanSlot'
  BY <1>1, <1>2, <1>8 DEF Inv, TypeOK, NoOrphanSlot, s
<1>10. OpenLeadsToOwn'
  BY <1>1, <1>2, <1>4, <1>5, <1>8 DEF Inv, TypeOK, OpenLeadsToOwn, Open
<1>11. NoOrphanFd'
  BY <1>1, <1>2, <1>4, <1>5, <1>8 DEF Inv, TypeOK, NoOrphanFd, Held, Open, f
<1> QED
  BY <1>3, <1>6, <1>7, <1>9, <1>10, <1>11 DEF Inv


\* A lookup finds the descriptor of the task's own socket.
LEMMA UseStep ==
  ASSUME Inv, NEW t \in Tasks, lwip_use(t) \/ \E s \in Slots : Use(t, s)
  PROVE  Inv'
<1> USE SocketsAssumption
<1>1. CASE lwip_use(t)
  <2>1. /\ pc[t] = "use"
        /\ pc' = [pc EXCEPT ![t] = "idle"]
        /\ sock' = [sock EXCEPT ![t] = NoFd]
        /\ UNCHANGED <<used, fsPrivFd, opened, conn, lost, file, leaked>>
    BY <1>1 DEF lwip_use, Goto
  <2>2. TypeOK' /\ CallsHold'
    BY <2>1 DEF Inv, TypeOK, PC, CallsHold, Holding
  <2>3. SlotsApart' /\ FdsApart' /\ NoOrphanSlot'
    BY <2>1 DEF Inv, TypeOK, SlotsApart, FdsApart, NoOrphanSlot, Open
  <2>4. OpenLeadsToOwn' /\ NoOrphanFd'
    BY <2>1 DEF Inv, TypeOK, OpenLeadsToOwn, NoOrphanFd, Held, Open
  <2> QED
    BY <2>2, <2>3, <2>4 DEF Inv
<1>2. ASSUME NEW s \in Slots, Use(t, s)
      PROVE  Inv'
  <2>1. /\ pc[t] = "idle"
        /\ opened[s] = t
        /\ pc' = [pc EXCEPT ![t] = "use"]
        /\ sock' = [sock EXCEPT ![t] = fsPrivFd[s]]
        /\ UNCHANGED <<used, fsPrivFd, opened, conn, lost, file, leaked>>
    BY <1>2 DEF Use, netLwIP_FD, Goto
  <2>2. fsPrivFd[s] \in Fds /\ conn[fsPrivFd[s]] = s
    BY <2>1 DEF Inv, OpenLeadsToOwn, Open
  <2>3. TypeOK' /\ CallsHold'
    BY <2>1, <2>2 DEF Inv, TypeOK, PC, CallsHold, Holding
  <2>4. SlotsApart' /\ FdsApart' /\ NoOrphanSlot'
    BY <2>1 DEF Inv, TypeOK, SlotsApart, FdsApart, NoOrphanSlot, Open
  <2>5. OpenLeadsToOwn' /\ NoOrphanFd'
    BY <2>1, <2>2 DEF Inv, TypeOK, OpenLeadsToOwn, NoOrphanFd, Held, Open
  <2> QED
    BY <2>3, <2>4, <2>5 DEF Inv
<1> QED
  BY <1>1, <1>2

\* Closing begins: the slot is not open any more, nobody else is about to close
\* its descriptor, and it is that of a slot of the caller's own.
LEMMA CloseBegins ==
  ASSUME Inv, NEW t \in Tasks, NEW s \in Slots, sockClose(t, s) \/ closesocket(t, s)
  PROVE  Inv'
<1> USE SocketsAssumption
<1> DEFINE f == fsPrivFd[s]
<1>1. /\ pc[t] = "idle"
      /\ opened[s] = t
      /\ opened' = [opened EXCEPT ![s] = NoTask]
      /\ sock' = [sock EXCEPT ![t] = f]
      /\ UNCHANGED <<used, fsPrivFd, conn, lost>>
      /\ \/ /\ pc' = [pc EXCEPT ![t] = "close"]
            /\ file' = [file EXCEPT ![t] = s] /\ UNCHANGED leaked
         \/ /\ pc' = [pc EXCEPT ![t] = "closesocket"]
            /\ leaked' = leaked \cup {s} /\ UNCHANGED file
  BY DEF sockClose, closesocket, netLwIP_FD, Goto
<1>2. /\ f \in Fds /\ conn[f] = s
      /\ s \in used /\ s \notin leaked
      /\ file[t] = NoSlot
      /\ \A u \in Tasks : file[u] # s
  BY <1>1, Places DEF Inv, OpenLeadsToOwn, Open, NoOrphanSlot, SlotsApart, CallsHold, Holding
<1> HIDE DEF f
<1>3. TypeOK'
  BY <1>1, <1>2 DEF Inv, TypeOK, PC
<1>4. \A u \in Tasks \ {t} :
        pc'[u] = pc[u] /\ sock'[u] = sock[u] /\ file'[u] = file[u]
  BY <1>1 DEF Inv, TypeOK
<1>5. \A r \in Slots \ {s} : opened'[r] = opened[r]
  BY <1>1 DEF Inv, TypeOK
<1>6. CallsHold'
  <2>1. ASSUME NEW u \in Tasks \ {t}, pc[u] \in {"use", "accept"}
        PROVE  \E r \in Slots : opened'[r] = u /\ fsPrivFd[r] = sock[u]
    BY <1>1, <1>5, <2>1 DEF Inv, CallsHold
  <2> QED
    BY <1>1, <1>2, <1>4, <2>1 DEF Inv, TypeOK, CallsHold, Holding
<1>7. SlotsApart'
  BY <1>1, <1>2, <1>4 DEF Inv, TypeOK, SlotsApart
<1>8. FdsApart'
  <2>1. ASSUME NEW u \in Tasks, pc[u] = "closesocket"
        PROVE  sock[u] # f
    BY <1>2, <2>1 DEF Inv, CallsHold
  <2> QED
    BY <1>1, <1>4, <2>1 DEF Inv, TypeOK, FdsApart
<1>9. Open' = Open \ {s}
  BY <1>1, <1>5 DEF Inv, TypeOK, Open
<1>10. NoOrphanSlot'
  BY <1>1, <1>2, <1>4, <1>9 DEF Inv, TypeOK, NoOrphanSlot
<1>11. OpenLeadsToOwn'
  <2>1. \A u \in Tasks \ {t} : pc[u] \in {"use", "accept"} =>
          \E r \in Slots : opened'[r] = u /\ conn[sock[u]] = r
    BY <1>1, <1>5 DEF Inv, CallsHold, OpenLeadsToOwn, Open
  <2> QED
    BY <1>1, <1>4, <1>9, <2>1 DEF Inv, TypeOK, OpenLeadsToOwn
<1>12. NoOrphanFd'
  <2>1. pc'[t] \in {"close", "closesocket"} /\ sock'[t] = f
    BY <1>1 DEF Inv, TypeOK
  <2>2. pc[t] = "idle" /\ s \in Open
    BY <1>1, SocketsAssumption DEF Open
  <2>3. \A g \in Fds : Held(g)' <=> Held(g)
    BY <1>1, <1>4, <1>9, <2>1, <2>2 DEF Held, f
  <2> QED
    BY <1>1, <2>3 DEF Inv, NoOrphanFd
<1> QED
  BY <1>3, <1>6, <1>7, <1>8, <1>10, <1>11, <1>12 DEF Inv

\* What is closed is the descriptor of a slot that is not open, and no other call
\* relies on it.
LEMMA CloseFdStep ==
  ASSUME Inv, NEW t \in Tasks, CloseFd(t)
  PROVE  Inv'
<1> USE SocketsAssumption
<1> DEFINE f == sock[t]
<1>1. /\ pc[t] \in {"close", "closesocket"}
      /\ pc' = [pc EXCEPT ![t] = IF pc[t] = "close" THEN "free" ELSE "idle"]
      /\ sock' = [sock EXCEPT ![t] = NoFd]
      /\ \/ conn' = [conn EXCEPT ![f] = NoSlot] /\ UNCHANGED lost
         \/ lost' = lost \cup {f} /\ UNCHANGED conn
      /\ UNCHANGED <<used, fsPrivFd, opened, file, leaked>>
  BY DEF CloseFd, lwip_close, Goto
<1>2. /\ f \in Fds
      /\ conn[f] \in Slots
      /\ opened[conn[f]] = NoTask
      /\ pc[t] = "close" => conn[f] = file[t]
      /\ pc[t] = "closesocket" => conn[f] \in leaked
  BY <1>1, Places DEF Inv, TypeOK, CallsHold, Holding, NoOrphanSlot, Open
<1>3. \A u \in Tasks \ {t} :
        pc[u] \in {"assign", "use", "accept", "close", "closesocket"} => sock[u] # f
  <2> SUFFICES ASSUME NEW u \in Tasks \ {t}, sock[u] = f,
                      pc[u] \in {"assign", "use", "accept", "close", "closesocket"}
               PROVE  FALSE
    OBVIOUS
  <2>1. CASE pc[u] \in {"use", "accept"}
    BY <1>2, <2>1 DEF Inv, OpenLeadsToOwn
  <2>2. CASE pc[u] \in {"assign", "close"}
    <3>1. file[u] \in Slots /\ file[u] = conn[f]
      BY <1>2, <2>2 DEF Inv, CallsHold
    <3>2. file[u] \notin leaked
      BY <3>1 DEF Inv, NoOrphanSlot
    <3> QED
      BY <1>1, <1>2, <3>1, <3>2 DEF Inv, SlotsApart
  <2>3. CASE pc[u] = "closesocket"
    <3>1. conn[f] \in leaked
      BY <2>3 DEF Inv, CallsHold
    <3>2. pc[t] = "closesocket"
      BY <1>1, <1>2, <3>1 DEF Inv, NoOrphanSlot
    <3> QED
      BY <2>3, <3>2 DEF Inv, FdsApart
  <2> QED
    BY <2>1, <2>2, <2>3
<1>4. \A s \in Open : fsPrivFd[s] # f
  BY <1>2 DEF Inv, OpenLeadsToOwn, Open
<1> HIDE DEF f
<1>5. /\ \A u \in Tasks \ {t} : pc'[u] = pc[u] /\ sock'[u] = sock[u]
      /\ \A g \in Fds \ {f} : conn'[g] = conn[g]
      /\ pc'[t] = IF pc[t] = "close" THEN "free" ELSE "idle"
  BY <1>1 DEF Inv, TypeOK
<1>6. TypeOK'
  BY <1>1, <1>2 DEF Inv, TypeOK, PC
<1>7. CallsHold'
  <2>1. \A u \in Tasks \ {t} :
          pc[u] \in {"accept", "assign", "use", "close", "closesocket"} =>
            sock[u] \in Fds \ {f}
    BY <1>3 DEF Inv, CallsHold
  <2> QED
    BY <1>1, <1>5, <2>1 DEF Inv, CallsHold, Holding
<1>8. SlotsApart' /\ FdsApart' /\ NoOrphanSlot'
  BY <1>1, <1>5 DEF Inv, SlotsApart, FdsApart, NoOrphanSlot, Open
<1>9. OpenLeadsToOwn'
  <2>1. \A u \in Tasks : pc'[u] \in {"use", "accept"} =>
          u # t /\ sock[u] \in Fds \ {f}
    BY <1>1, <1>3, <1>5 DEF Inv, CallsHold
  <2> QED
    BY <1>1, <1>4, <1>5, <2>1 DEF Inv, OpenLeadsToOwn, Open
<1>10. NoOrphanFd'
  <2>1. \A g \in Fds \ {f} : Held(g)' <=> Held(g)
    BY <1>1, <1>5 DEF Held, Open, f
  <2>2. \A g \in Fds : g = f => ~Held(g)'
    BY <1>1, <1>3, <1>4, <1>5 DEF Held, Open
  <2>3. conn'[f] # NoSlot <=> f \in lost'
    <3>1. f \notin lost
      BY <1>1, <1>2 DEF Inv, NoOrphanFd, Held, f
    <3> QED
      BY <1>1, <1>2, <3>1, SocketsAssumption DEF Inv, TypeOK
  <2>4. \A g \in Fds \ {f} : g \in lost' <=> g \in lost
    BY <1>1
  <2> QED
    BY <1>5, <2>1, <2>2, <2>3, <2>4 DEF Inv, NoOrphanFd
<1> QED
  BY <1>6, <1>7, <1>8, <1>9, <1>10 DEF Inv

-----------------------------------------------------------------------------
(* The theorems. *)

\* The inductive invariant of the socket files.
THEOREM Invariant == Spec => []Inv
<1>1. Inv /\ [Next]_vars => Inv'
  <2> SUFFICES ASSUME Inv, [Next]_vars
               PROVE  Inv'
    OBVIOUS
  <2>1. ASSUME NEW t \in Tasks, Step(t)
        PROVE  Inv'
    BY <2>1, AllocStep, OpenStep, OpenFailedStep, FreeStep, AssignStep, UseStep,
       CloseBegins, CloseFdStep DEF Step
  <2>2. CASE UNCHANGED vars
    BY <2>2 DEF vars, Inv, TypeOK, CallsHold, SlotsApart, FdsApart,
       OpenLeadsToOwn, Open, NoOrphanFd, Held, NoOrphanSlot
  <2> QED
    BY <2>1, <2>2 DEF Next, Step
<1> QED
  BY <1>1, InitInv, PTL DEF Spec

\* The tables keep their types and only a descriptor that lwIP returned is put
\* into a slot (sockets.c:101, 123).
THEOREM TypeCorrect == Spec => []TypeOK
BY Invariant, PTL DEF Inv

\* The descriptor behind an open socket, and the one a call has looked up, is the
\* one that was opened for it, however opening, closing, failing and reusing of
\* slots and descriptors interleave (sockets.c:82-160).
THEOREM SocketsAreTheirOwn == Spec => []OpenLeadsToOwn
BY Invariant, PTL DEF Inv

\* The descriptors of lwIP in use are those that an open socket or a call in progress
\* has, and those that lwip_close failed to close. The latter are lost: in use for
\* good, and reached by no socket and no call (sockets.c:100-105, 122-127, 137-144).
THEOREM NoFdIsLost == Spec => []NoOrphanFd
BY Invariant, PTL DEF Inv

\* ... and no slot either, except those of sockets that were closed with the macro
\* closesocket, which stay in use (sockets.c:103, 125, 142).
THEOREM NoSlotIsLost == Spec => []NoOrphanSlot
BY Invariant, PTL DEF Inv
=============================================================================
