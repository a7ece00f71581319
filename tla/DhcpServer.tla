------------------------------ MODULE DhcpServer ------------------------------
(***************************************************************************)
(* The DHCP server of apps/dhcps/dhcps.c. Everything it does runs in the   *)
(* thread of the stack: dhcpServerStart and dhcpServerStop queue a         *)
(* callback for it, and it calls dhcpRecv for each message that arrives.   *)
(*                                                                         *)
(* The stations and the network are the environment: any station may send  *)
(* any message at any time. That covers messages that are lost, duplicated *)
(* and delivered late or out of order, and stations that crash.            *)
(***************************************************************************)
EXTENDS Integers, Sequences

CONSTANTS
  Macs,         \* the Ethernet addresses of the stations
  freeMac,      \* all zeros: the mark of a free lease, no station's address
  MAX_LEASES,   \* 3 in the code
  OctetMod,     \* 256: the values of the last octet of an address
  BaseOctet,    \* the last octet of the server's own address
  NoAddr,       \* 0.0.0.0
  Pcbs,         \* the control blocks udp_new may return
  NoPcb,        \* NULL
  MaxQueue      \* bound on the callbacks that wait for the thread

ASSUME DhcpAssumption ==
  /\ freeMac \notin Macs
  /\ NoAddr \notin Int
  /\ NoPcb \notin Pcbs
  /\ OctetMod \in Nat \ {0}
  /\ MAX_LEASES \in 0 .. OctetMod
  /\ BaseOctet \in Nat

VARIABLES
  running,   \* what callers know: the last call that was accepted was a start
  restarted, \* history: there was a start while the server was running
  queue,     \* callbacks queued with tcpip_callback
  dhcpPcb,
  pcb,       \* control blocks: "free", "new", or "bound" to the server's port
  leases,
  arp,       \* static entries of the ARP table; freeMac where there is none
  reply,     \* what the last message was answered with
  offered,   \* the address offered to a station since the last start
  acked,     \* the pairs it has confirmed since then
  latest     \* history: the address a station was confirmed last, before or after

server == <<running, restarted, queue, dhcpPcb, pcb>>
vars   == <<server, leases, arp, reply, offered, acked, latest>>

Index  == 0 .. MAX_LEASES - 1
Octets == 0 .. OctetMod - 1
Addrs  == Octets \cup {NoAddr}

\* Mutant: an octet wider than eight bits.
LeaseAddrUnbounded(i) == BaseOctet + i + 10

\* IP4_ADDR keeps the low eight bits.
LeaseAddr(i) == (BaseOctet + i + 10) % OctetMod

PoolAddrs == {LeaseAddr(i) : i \in Index}

NoReply == [type |-> "none"]

Replies ==
  {NoReply}
  \cup [type : {"offer", "ack"}, mac : Macs, ip : Addrs]
  \cup [type : {"nak"}, mac : Macs, ip : Addrs, wasFree : BOOLEAN]

\* Static storage: zero before the first start.
Init ==
  /\ running = FALSE /\ restarted = FALSE
  /\ queue = <<>>
  /\ dhcpPcb = NoPcb
  /\ pcb = [p \in Pcbs |-> "free"]
  /\ leases = [i \in Index |-> [mac |-> freeMac, ip |-> NoAddr]]
  /\ arp = [a \in Octets |-> freeMac]
  /\ reply = NoReply
  /\ offered = [m \in Macs |-> NoAddr]
  /\ acked = {}
  /\ latest = [m \in Macs |-> NoAddr]

-----------------------------------------------------------------------------
(* Starting and stopping. *)

\* Nothing keeps callers from starting or stopping it twice. tcpip_callback may
\* run out of memory, which they are told.
dhcpServerStart ==
  /\ Len(queue) < MaxQueue
  /\ queue' = Append(queue, "start")
  /\ running' = TRUE
  /\ restarted' = (restarted \/ running)
  /\ UNCHANGED <<dhcpPcb, pcb, leases, arp, reply, offered, acked, latest>>

dhcpServerStop ==
  /\ Len(queue) < MaxQueue
  /\ queue' = Append(queue, "stop")
  /\ running' = FALSE
  /\ UNCHANGED <<restarted, dhcpPcb, pcb, leases, arp, reply, offered, acked, latest>>

Bound == {p \in Pcbs : pcb[p] = "bound"}

\* All leases become free before udp_new is tried. udp_bind succeeds for the
\* first control block only. Callers never hear of a udp_new that failed.
dhcpServerStartRaw ==
  /\ queue # <<>> /\ Head(queue) = "start"
  /\ queue' = Tail(queue)
  /\ leases' = [i \in Index |-> [mac |-> freeMac, ip |-> LeaseAddr(i)]]
  /\ \/ /\ dhcpPcb' = NoPcb
        /\ UNCHANGED pcb
     \/ \E p \in Pcbs :
          /\ pcb[p] = "free"
          /\ dhcpPcb' = p
          /\ pcb' = [pcb EXCEPT ![p] = IF Bound = {} THEN "bound" ELSE "new"]
  /\ offered' = [m \in Macs |-> NoAddr]
  /\ acked' = {}
  /\ reply' = NoReply
  /\ UNCHANGED <<running, restarted, arp, latest>>

\* Mutant: stops without giving up the control block.
dhcpServerStopRawKeeps ==
  /\ queue # <<>> /\ Head(queue) = "stop"
  /\ queue' = Tail(queue)
  /\ dhcpPcb' = NoPcb
  /\ UNCHANGED <<running, restarted, pcb, leases, arp, reply, offered, acked, latest>>

\* udp_remove(NULL), after a start that failed, does nothing. The leases and
\* the static ARP entries stay.
dhcpServerStopRaw ==
  /\ queue # <<>> /\ Head(queue) = "stop"
  /\ queue' = Tail(queue)
  /\ pcb' = [p \in Pcbs |-> IF p = dhcpPcb THEN "free" ELSE pcb[p]]
  /\ dhcpPcb' = NoPcb
  /\ UNCHANGED <<running, restarted, leases, arp, reply, offered, acked, latest>>

-----------------------------------------------------------------------------
(* The lease table. *)

LeasesOf(m) == {i \in Index : leases[i].mac = m}

First(i, S) == i \in S /\ \A j \in S : i <= j

\* Mutant: looks for a free lease before it looks for the station's own.
AllocatesFreeFirst(m, i) ==
  IF LeasesOf(freeMac) # {} THEN First(i, LeasesOf(freeMac))
                            ELSE First(i, LeasesOf(m))

\* Mutant: takes the first lease when all are in use.
AllocatesStolen(m, i) ==
  IF LeasesOf(m) # {} THEN First(i, LeasesOf(m))
  ELSE IF LeasesOf(freeMac) # {} THEN First(i, LeasesOf(freeMac))
  ELSE First(i, Index)

\* allocateAddr finds lease i for station m: the one it has, or a free one.
Allocates(m, i) ==
  IF LeasesOf(m) # {} THEN First(i, LeasesOf(m))
                      ELSE First(i, LeasesOf(freeMac))

NoneLeft(m) == LeasesOf(m) \cup LeasesOf(freeMac) = {}

allocateAddr(m, i) ==
  /\ Allocates(m, i)
  /\ leases' = [leases EXCEPT ![i].mac = m]

\* dhcpRecv is called for what arrives at the bound control block, and answers
\* with the one of the last start, if there is one.
Receiving == Bound # {}
Answering == Receiving /\ dhcpPcb # NoPcb

\* A message that gets no answer: there is no lease for the station.
Refuse(m) ==
  /\ Receiving
  /\ NoneLeft(m)
  /\ reply' = NoReply
  /\ UNCHANGED <<server, leases, arp, offered, acked, latest>>

\* newResp finds no memory: no answer, but the lease is taken.
NoMemory(m) ==
  /\ Receiving
  /\ \E i \in Index : allocateAddr(m, i)
  /\ reply' = NoReply
  /\ UNCHANGED <<server, arp, offered, acked, latest>>

handleDiscover(m) ==
  /\ Answering
  /\ \E i \in Index :
       /\ allocateAddr(m, i)
       /\ reply' = [type |-> "offer", mac |-> m, ip |-> leases[i].ip]
       /\ offered' = [offered EXCEPT ![m] = leases[i].ip]
  /\ UNCHANGED <<server, arp, acked, latest>>

\* Mutant: an entry that exists already is left alone.
etharp_add_static_entry_once(a, m) ==
  IF arp[a] = freeMac THEN arp' \in {arp, [arp EXCEPT ![a] = m]}
                      ELSE UNCHANGED arp

\* An entry for the address is overwritten; a new one may find no room, which
\* the server does not notice.
etharp_add_static_entry(a, m) ==
  \/ arp' = [arp EXCEPT ![a] = m]
  \/ arp[a] = freeMac /\ UNCHANGED arp

\* A request for the address of the station's lease is confirmed.
Ack(m) ==
  /\ Answering
  /\ \E i \in Index :
       /\ allocateAddr(m, i)
       /\ reply' = [type |-> "ack", mac |-> m, ip |-> leases[i].ip]
       /\ acked' = acked \cup {<<m, leases[i].ip>>}
       /\ latest' = [latest EXCEPT ![m] = leases[i].ip]
       /\ etharp_add_static_entry(leases[i].ip, m)
  /\ UNCHANGED <<server, offered>>

\* One for any other address, or for none at all, is not.
Nak(m, reqAddr) ==
  /\ Answering
  /\ \E i \in Index :
       /\ allocateAddr(m, i)
       /\ reqAddr # leases[i].ip
       /\ reply' = [type |-> "nak", mac |-> m, ip |-> reqAddr,
                    wasFree |-> \E j \in LeasesOf(freeMac) : leases[j].ip = reqAddr]
  /\ UNCHANGED <<server, arp, offered, acked, latest>>

handleRequest(m) == Ack(m) \/ \E a \in PoolAddrs \cup {NoAddr} : Nak(m, a)

\* After two starts and a stop, the first control block still receives and
\* dhcpPcb is NULL: the message is handled, and nothing is sent.
Unsent(m) ==
  /\ Receiving /\ dhcpPcb = NoPcb
  /\ \E i \in Index :
       /\ allocateAddr(m, i)
       /\ etharp_add_static_entry(leases[i].ip, m) \/ UNCHANGED arp
  /\ reply' = NoReply
  /\ UNCHANGED <<server, offered, acked, latest>>

\* Other kinds of messages are dropped without a change.
dhcpRecv ==
  \E m \in Macs :
    handleDiscover(m) \/ handleRequest(m) \/ Refuse(m) \/ NoMemory(m) \/ Unsent(m)

Next ==
  \/ dhcpServerStart \/ dhcpServerStop
  \/ dhcpServerStartRaw \/ dhcpServerStopRaw
  \/ dhcpRecv

Spec == Init /\ [][Next]_vars

-----------------------------------------------------------------------------
(* What must be true. *)

\* The server's state keeps its types: every address it leases is an octet, also
\* where the pool wraps around (dhcps.c:372-375).
TypeOK ==
  /\ running \in BOOLEAN /\ restarted \in BOOLEAN
  /\ queue \in Seq({"start", "stop"})
  /\ dhcpPcb \in Pcbs \cup {NoPcb}
  /\ pcb \in [Pcbs -> {"free", "new", "bound"}]
  /\ leases \in [Index -> [mac : Macs \cup {freeMac}, ip : Addrs]]
  /\ arp \in [Octets -> Macs \cup {freeMac}]
  /\ reply \in Replies
  /\ offered \in [Macs -> Addrs]
  /\ acked \subseteq Macs \X Octets
  /\ latest \in [Macs -> Addrs]

\* dhcpPcb never names a control block that was given up. The server has exactly
\* the one that it receives on, or none, and none after a stop. A stop after a
\* udp_new that failed, a second stop, and a start after them, neither leak one nor
\* leave the old one bound to the port; only a start without a stop before it does
\* (dhcps.c:378-394).
PcbExact ==
  /\ dhcpPcb # NoPcb => pcb[dhcpPcb] # "free"
  /\ ~restarted => \A p \in Pcbs : pcb[p] = IF p = dhcpPcb THEN "bound" ELSE "free"
  /\ queue = <<>> /\ ~running => dhcpPcb = NoPcb

Reassured == {p[1] : p \in acked}

\* Two stations are told that they may use one address, or one station two, only
\* with a start in between, which forgets the leases and does let that happen
\* (dhcps.c:366). Between two starts the answers agree, however messages are
\* repeated, delayed or interleaved, because each one consults the lease table
\* (dhcps.c:93-113); and of two stations that are left with one address, one has
\* been told nothing since the last start.
SharedOnlyByRestart ==
  /\ \A p, q \in acked : p[1] = q[1] <=> p[2] = q[2]
  /\ \A m, n \in Macs :
       m # n /\ latest[m] = latest[n] /\ latest[m] # NoAddr => ~({m, n} \subseteq Reassured)

\* A station that requests the address it was offered is not turned down, no
\* matter what others did since the offer (dhcps.c:261-288).
OfferHonoured ==
  reply.type = "nak" => offered[reply.mac] # reply.ip \/ reply.ip = NoAddr

\* The static ARP entry of a confirmed address leads to the station that has
\* it, and never to one that had it before the server was restarted: stopping
\* leaves the entries behind (dhcps.c:305, 391-395).
ArpAgrees ==
  \A p \in acked : arp[p[2]] \in {p[1], freeMac}

Held == {<<leases[i].mac, leases[i].ip>> : i \in Index \ LeasesOf(freeMac)}

\* The lease table implements a pool of addresses: every message and every
\* failure is a step of AddressPool or none.
Pool == INSTANCE AddressPool WITH Addrs <- PoolAddrs, held <- Held

PoolSpec == Pool!Spec

\* "Request IP %s is not free" (dhcps.c:319) is said only of an address that
\* is not free.
NakMeansNotFree == reply.type = "nak" => ~reply.wasFree
==============================================================================
