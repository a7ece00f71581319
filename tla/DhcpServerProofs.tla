-------------------------- MODULE DhcpServerProofs --------------------------
(***************************************************************************)
(* The lease table of dhcps.c, for every set of stations, every number of  *)
(* leases and every base address.                                          *)
(*                                                                         *)
(* SharedOnlyByRestart is about what was confirmed; it is inductive only   *)
(* with LeaseInv: pairs confirmed and offered since the last start stand   *)
(* in the table, a station stands there once, and the entries have the     *)
(* addresses of the pool, which differ. LatestInv says that the last       *)
(* address of a station that has been confirmed one since is among them.   *)
(***************************************************************************)
EXTENDS DhcpServer, TLAPS

\* Before the first start the table is zero and nobody is served.
Unused ==
  /\ Bound = {}
  /\ acked = {}
  /\ \A i \in Index : leases[i].mac = freeMac
  /\ \A m \in Macs : offered[m] = NoAddr

LeaseInv ==
  /\ \A i, j \in Index :
       leases[i].mac = leases[j].mac /\ leases[i].mac # freeMac => i = j
  /\ Unused \/ \A i \in Index : leases[i].ip = LeaseAddr(i)
  /\ \A p \in acked : \E i \in Index : leases[i].mac = p[1] /\ leases[i].ip = p[2]
  /\ \A m \in Macs : offered[m] # NoAddr =>
       \E i \in Index : leases[i].mac = m /\ leases[i].ip = offered[m]

Inv == TypeOK /\ LeaseInv

\* Each station has one of the addresses confirmed since the last start.
Unique == \A p, q \in acked : p[1] = q[1] <=> p[2] = q[2]

LatestInv == \A p \in acked : <<p[1], latest[p[1]]>> \in acked

-----------------------------------------------------------------------------
(* Addresses. *)

\* A multiple of M from 0 up to M - 1 is 0.
LEMMA Multiple ==
  ASSUME NEW M \in Nat \ {0}, NEW d \in Int, 0 <= M * d, M * d < M
  PROVE  d = 0
<1>1. CASE d >= 1
  BY <1>1, M * d >= M, SMT
<1>2. CASE d <= -1
  BY <1>2, M * d <= -M, SMT
<1> QED
  BY <1>1, <1>2

\* Numbers that are less than M apart have different remainders.
LEMMA RemaindersDiffer ==
  ASSUME NEW M \in Nat \ {0}, NEW a \in Nat, NEW b \in Nat,
         a <= b, b - a < M, a % M = b % M
  PROVE  a = b
<1> DEFINE q == a \div M
           r == b \div M
<1>1. q \in Int /\ r \in Int /\ a % M \in Int
  BY SMT
<1>2. a = (M * q) + (a % M) /\ b = (M * r) + (b % M)
  BY SMT
<1> HIDE DEF q, r
<1>3. b - a = M * (r - q)
  BY <1>1, <1>2, SMT
<1>4. r - q = 0
  BY <1>1, <1>3, Multiple
<1> QED
  BY <1>1, <1>3, <1>4, SMT

\* The addresses of the leases differ, also where the pool wraps around: there are
\* no more leases than octets (dhcps.c:370-376).
LEMMA LeaseAddrInjective ==
  ASSUME NEW i \in Index, NEW j \in Index, LeaseAddr(i) = LeaseAddr(j)
  PROVE  i = j
<1> DEFINE a == BaseOctet + i + 10
           b == BaseOctet + j + 10
<1>1. a \in Nat /\ b \in Nat /\ OctetMod \in Nat \ {0}
  BY DhcpAssumption DEF Index
<1>2. b - a < OctetMod /\ a - b < OctetMod
  BY DhcpAssumption DEF Index
<1>3. a % OctetMod = b % OctetMod
  BY DEF LeaseAddr
<1>4. i \in Int /\ j \in Int /\ BaseOctet \in Int
  BY DhcpAssumption DEF Index
<1>5. a = b
  <2> HIDE DEF a, b
  <2>1. CASE a <= b
    BY <1>1, <1>2, <1>3, <2>1, RemaindersDiffer
  <2>2. CASE b <= a
    BY <1>1, <1>2, <1>3, <2>2, RemaindersDiffer
  <2> QED
    BY <1>1, <2>1, <2>2
<1> QED
  BY <1>4, <1>5

\* The address of a lease is an octet and not 0.0.0.0.
LEMMA LeaseAddrType ==
  ASSUME NEW i \in Index
  PROVE  LeaseAddr(i) \in Octets
<1>1. BaseOctet + i + 10 \in Int
  BY DhcpAssumption DEF Index
<1> QED
  BY <1>1, DhcpAssumption DEF LeaseAddr, Octets

-----------------------------------------------------------------------------
(* The table. *)

\* What allocateAddr does: lease i is the station's own, or was free and the
\* station had none; no other lease changes and no address does.
LEMMA AllocateFacts ==
  ASSUME TypeOK, LeaseInv, Receiving,
         NEW m \in Macs, NEW i \in Index, allocateAddr(m, i)
  PROVE  /\ leases[i].mac \in {m, freeMac}
         /\ \A j \in Index : leases[j].mac = m => j = i
         /\ leases[i].ip = LeaseAddr(i)
         /\ leases'[i] = [mac |-> m, ip |-> LeaseAddr(i)]
         /\ \A j \in Index \ {i} : leases'[j] = leases[j]
         /\ \A j \in Index : leases'[j].ip = LeaseAddr(j)
         /\ leases' \in [Index -> [mac : Macs \cup {freeMac}, ip : Addrs]]
<1>1. \A j \in Index : leases[j].ip = LeaseAddr(j)
  BY DEF LeaseInv, Unused, Receiving
<1>2. leases[i].mac \in {m, freeMac} /\ \A j \in Index : leases[j].mac = m => j = i
  BY DhcpAssumption DEF allocateAddr, Allocates, First, LeasesOf, LeaseInv
<1>3. leases' = [leases EXCEPT ![i].mac = m]
  BY DEF allocateAddr
<1>4. /\ leases'[i] = [mac |-> m, ip |-> leases[i].ip]
      /\ \A j \in Index \ {i} : leases'[j] = leases[j]
      /\ leases' \in [Index -> [mac : Macs \cup {freeMac}, ip : Addrs]]
  BY <1>3 DEF TypeOK
<1> QED
  BY <1>1, <1>2, <1>4

\* A pair that stands in the table stays there, and no station gets a second
\* lease.
LEMMA AllocateKeeps ==
  ASSUME TypeOK, LeaseInv, Receiving,
         NEW m \in Macs, NEW i \in Index, allocateAddr(m, i)
  PROVE  /\ \A n \in Macs : \A a \in Addrs :
              (\E k \in Index : leases[k].mac = n /\ leases[k].ip = a)
              => (\E k \in Index : leases'[k].mac = n /\ leases'[k].ip = a)
         /\ \A j, k \in Index :
              leases'[j].mac = leases'[k].mac /\ leases'[j].mac # freeMac => j = k
<1>0. /\ leases[i].mac \in {m, freeMac}
      /\ \A j \in Index : leases[j].mac = m => j = i
      /\ leases[i].ip = LeaseAddr(i)
      /\ leases'[i] = [mac |-> m, ip |-> LeaseAddr(i)]
      /\ \A j \in Index \ {i} : leases'[j] = leases[j]
  BY AllocateFacts, Zenon
<1>1. ASSUME NEW n \in Macs, NEW a \in Addrs, NEW k \in Index,
             leases[k].mac = n, leases[k].ip = a
      PROVE  leases'[k].mac = n /\ leases'[k].ip = a
  BY <1>0, <1>1, DhcpAssumption
<1>2. ASSUME NEW j \in Index, NEW k \in Index,
             leases'[j].mac = leases'[k].mac, leases'[j].mac # freeMac
      PROVE  j = k
  <2>1. \A k1 \in Index \ {i} : leases'[k1].mac # m
    BY <1>0
  <2> QED
    BY <1>0, <1>2, <2>1 DEF LeaseInv
<1> QED
  BY <1>1, <1>2

\* The zeroed lease table satisfies the invariant (dhcps.c:89).
LEMMA InitInv == Init => Inv
<1> SUFFICES ASSUME Init PROVE Inv
  OBVIOUS
<1>1. TypeOK
  <2>1. leases \in [Index -> [mac : Macs \cup {freeMac}, ip : Addrs]]
    BY DEF Init, Addrs
  <2>2. /\ pcb \in [Pcbs -> {"free", "new", "bound"}]
        /\ arp \in [Octets -> Macs \cup {freeMac}]
        /\ offered \in [Macs -> Addrs] /\ latest \in [Macs -> Addrs]
    BY DEF Init, Addrs
  <2>3. queue \in Seq({"start", "stop"}) /\ reply \in Replies
    BY DEF Init, Replies
  <2> QED
    BY <2>1, <2>2, <2>3 DEF Init, TypeOK
<1>2. Unused
  BY DEF Init, Unused, Bound
<1>3. LeaseInv
  BY <1>2 DEF Init, LeaseInv, Unused
<1> QED
  BY <1>1, <1>3 DEF Inv

\* A step that leaves the table, the offers and the confirmations alone and
\* binds no control block.
LEMMA TableUnchanged ==
  ASSUME LeaseInv, UNCHANGED <<leases, offered, acked>>, Bound' \subseteq Bound
  PROVE  LeaseInv'
BY DEF LeaseInv, Unused

\* Every callback and every message keeps the invariant.
LEMMA NextInv ==
  ASSUME Inv, [Next]_vars
  PROVE  Inv'
<1> USE DEF Inv
<1>1. CASE dhcpServerStart \/ dhcpServerStop
  <2>0. PICK c \in {"start", "stop"} : queue' = Append(queue, c)
    BY <1>1 DEF dhcpServerStart, dhcpServerStop
  <2>1. queue' \in Seq({"start", "stop"})
    BY <2>0 DEF TypeOK
  <2>3. TypeOK'
    BY <1>1, <2>1 DEF dhcpServerStart, dhcpServerStop, TypeOK
  <2>2. UNCHANGED <<leases, offered, acked>> /\ Bound' = Bound
    BY <1>1 DEF dhcpServerStart, dhcpServerStop, Bound
  <2> QED
    BY <2>2, <2>3, TableUnchanged
<1>2. CASE dhcpServerStartRaw
  <2>1. queue' \in Seq({"start", "stop"})
    BY <1>2 DEF dhcpServerStartRaw, TypeOK
  <2>2. /\ dhcpPcb' \in Pcbs \cup {NoPcb}
        /\ pcb' \in [Pcbs -> {"free", "new", "bound"}]
    BY <1>2 DEF dhcpServerStartRaw, TypeOK
  <2>3. leases' = [i \in Index |-> [mac |-> freeMac, ip |-> LeaseAddr(i)]]
    BY <1>2 DEF dhcpServerStartRaw
  <2>4. leases' \in [Index -> [mac : Macs \cup {freeMac}, ip : Addrs]]
    BY <2>3, LeaseAddrType DEF Addrs
  <2>5. offered' = [m \in Macs |-> NoAddr] /\ acked' = {} /\ reply' = NoReply
    BY <1>2 DEF dhcpServerStartRaw
  <2>6. TypeOK'
    BY <1>2, <2>1, <2>2, <2>4, <2>5 DEF dhcpServerStartRaw, TypeOK, Addrs, Replies
  <2>7. LeaseInv'
    BY <2>3, <2>5 DEF LeaseInv
  <2> QED
    BY <2>6, <2>7
<1>3. CASE dhcpServerStopRaw
  <2>1. TypeOK'
    BY <1>3 DEF dhcpServerStopRaw, TypeOK
  <2>2. UNCHANGED <<leases, offered, acked>> /\ Bound' \subseteq Bound
    BY <1>3 DEF dhcpServerStopRaw, TypeOK, Bound
  <2> QED
    BY <2>1, <2>2, TableUnchanged
<1>4. ASSUME NEW m \in Macs, Refuse(m)
      PROVE  Inv'
  <2>1. TypeOK'
    BY <1>4 DEF Refuse, server, TypeOK, Replies
  <2>2. UNCHANGED <<leases, offered, acked>> /\ Bound' = Bound
    BY <1>4 DEF Refuse, server, Bound
  <2> QED
    BY <2>1, <2>2, TableUnchanged
<1>5. ASSUME NEW m \in Macs, NEW i \in Index, Receiving, allocateAddr(m, i),
             UNCHANGED server, reply' \in Replies,
             arp' \in [Octets -> Macs \cup {freeMac}],
             \/ UNCHANGED <<offered, acked, latest>>
             \/ /\ offered' = [offered EXCEPT ![m] = leases[i].ip]
                /\ UNCHANGED <<acked, latest>>
             \/ /\ acked' = acked \cup {<<m, leases[i].ip>>}
                /\ latest' = [latest EXCEPT ![m] = leases[i].ip]
                /\ UNCHANGED offered
      PROVE  Inv'
  <2>1. /\ leases[i].ip = LeaseAddr(i)
        /\ leases'[i] = [mac |-> m, ip |-> LeaseAddr(i)]
        /\ \A j \in Index : leases'[j].ip = LeaseAddr(j)
        /\ leases' \in [Index -> [mac : Macs \cup {freeMac}, ip : Addrs]]
    BY <1>5, AllocateFacts
  <2>2. LeaseAddr(i) \in Octets /\ LeaseAddr(i) \in Addrs
    BY LeaseAddrType DEF Addrs
  <2>3. /\ offered' \in [Macs -> Addrs] /\ latest' \in [Macs -> Addrs]
        /\ acked' \subseteq Macs \X Octets
    BY <1>5, <2>1, <2>2 DEF TypeOK
  <2>4. TypeOK'
    BY <1>5, <2>1, <2>3 DEF TypeOK, server
  <2>5. /\ \A n \in Macs : \A a \in Addrs :
             (\E k \in Index : leases[k].mac = n /\ leases[k].ip = a)
             => (\E k \in Index : leases'[k].mac = n /\ leases'[k].ip = a)
        /\ \A j, k \in Index :
             leases'[j].mac = leases'[k].mac /\ leases'[j].mac # freeMac => j = k
    BY <1>5, AllocateKeeps
  <2>6. ASSUME NEW p \in acked'
        PROVE  \E k \in Index : leases'[k].mac = p[1] /\ leases'[k].ip = p[2]
    <3>1. CASE p \in acked
      <4>1. p[1] \in Macs /\ p[2] \in Addrs
        BY <3>1 DEF TypeOK, Addrs
      <4>2. \E k \in Index : leases[k].mac = p[1] /\ leases[k].ip = p[2]
        BY <3>1 DEF LeaseInv
      <4> QED
        BY <2>5, <4>1, <4>2
    <3>2. CASE p = <<m, leases[i].ip>>
      BY <2>1, <3>2
    <3> QED
      BY <1>5, <2>6, <3>1, <3>2
  <2>7. ASSUME NEW n \in Macs, offered'[n] # NoAddr
        PROVE  \E k \in Index : leases'[k].mac = n /\ leases'[k].ip = offered'[n]
    <3>1. CASE offered'[n] = offered[n]
      <4>1. \E k \in Index : leases[k].mac = n /\ leases[k].ip = offered[n]
        BY <2>7, <3>1 DEF LeaseInv
      <4>2. offered[n] \in Addrs
        BY DEF TypeOK
      <4>3. \E k \in Index : leases'[k].mac = n /\ leases'[k].ip = offered[n]
        BY <2>5, <4>1, <4>2, Zenon
      <4> QED
        BY <3>1, <4>3
    <3>2. CASE offered'[n] # offered[n]
      <4>1. n = m /\ offered'[n] = leases[i].ip
        BY <1>5, <3>2 DEF TypeOK
      <4> QED
        BY <2>1, <4>1
    <3> QED
      BY <3>1, <3>2
  <2>8. LeaseInv'
    BY <2>1, <2>5, <2>6, <2>7 DEF LeaseInv
  <2> QED
    BY <2>4, <2>8
<1>6. ASSUME NEW m \in Macs, NoMemory(m)
      PROVE  Inv'
  BY <1>5, <1>6 DEF NoMemory, Replies, TypeOK
<1>6a. ASSUME NEW m \in Macs, Unsent(m)
       PROVE  Inv'
  <2>1. PICK i \in Index :
          /\ allocateAddr(m, i)
          /\ etharp_add_static_entry(leases[i].ip, m) \/ UNCHANGED arp
    BY <1>6a DEF Unsent
  <2>2. arp' \in [Octets -> Macs \cup {freeMac}]
    BY <2>1 DEF TypeOK, etharp_add_static_entry
  <2> QED
    BY <1>5, <1>6a, <2>1, <2>2 DEF Unsent, Replies
<1>7. ASSUME NEW m \in Macs, handleDiscover(m)
      PROVE  Inv'
  <2>1. PICK i \in Index :
          /\ allocateAddr(m, i)
          /\ reply' = [type |-> "offer", mac |-> m, ip |-> leases[i].ip]
          /\ offered' = [offered EXCEPT ![m] = leases[i].ip]
    BY <1>7 DEF handleDiscover
  <2>2. reply' \in Replies
    BY <2>1 DEF TypeOK, Replies
  <2> QED
    BY <1>5, <1>7, <2>1, <2>2 DEF handleDiscover, Answering, TypeOK
<1>8. ASSUME NEW m \in Macs, Ack(m)
      PROVE  Inv'
  <2>1. PICK i \in Index :
          /\ allocateAddr(m, i)
          /\ reply' = [type |-> "ack", mac |-> m, ip |-> leases[i].ip]
          /\ acked' = acked \cup {<<m, leases[i].ip>>}
          /\ latest' = [latest EXCEPT ![m] = leases[i].ip]
          /\ etharp_add_static_entry(leases[i].ip, m)
    BY <1>8 DEF Ack
  <2>2. reply' \in Replies
    BY <2>1 DEF TypeOK, Replies
  <2>3. arp' \in [Octets -> Macs \cup {freeMac}]
    BY <2>1 DEF TypeOK, etharp_add_static_entry
  <2> QED
    BY <1>5, <1>8, <2>1, <2>2, <2>3 DEF Ack, Answering
<1>9. ASSUME NEW m \in Macs, NEW a \in PoolAddrs \cup {NoAddr}, Nak(m, a)
      PROVE  Inv'
  <2>1. a \in Addrs
    BY LeaseAddrType DEF PoolAddrs, Addrs
  <2>2. PICK i \in Index :
          /\ allocateAddr(m, i)
          /\ reply' = [type |-> "nak", mac |-> m, ip |-> a,
                       wasFree |-> \E j \in LeasesOf(freeMac) : leases[j].ip = a]
    BY <1>9 DEF Nak
  <2>3. (\E j \in LeasesOf(freeMac) : leases[j].ip = a) \in BOOLEAN
    OBVIOUS
  <2>4. reply' \in Replies
    BY <2>1, <2>2, <2>3 DEF Replies
  <2> QED
    BY <1>5, <1>9, <2>2, <2>4 DEF Nak, Answering, TypeOK
<1>10. CASE UNCHANGED vars
  <2>1. TypeOK'
    BY <1>10 DEF vars, server, TypeOK
  <2>2. UNCHANGED <<leases, offered, acked>> /\ Bound' = Bound
    BY <1>10 DEF vars, server, Bound
  <2> QED
    BY <2>1, <2>2, TableUnchanged
<1> QED
  BY <1>1, <1>2, <1>3, <1>4, <1>6, <1>6a, <1>7, <1>8, <1>9, <1>10
  DEF Next, dhcpRecv, handleRequest

-----------------------------------------------------------------------------
(* The theorems. *)

\* The inductive invariant of the server: the types, and what the lease table says
\* about the addresses it has offered and confirmed (dhcps.c:93-113).
THEOREM Invariant == Spec => []Inv
BY InitInv, NextInv, PTL DEF Spec

\* The types of the state of dhcps.c hold in every reachable state: every lease
\* and every offer has an octet, every reply is one of the four kinds.
THEOREM TypeCorrect == Spec => []TypeOK
BY Invariant, PTL DEF Inv

\* Confirmed pairs stand in the lease table, whose stations and addresses differ.
LEMMA ConfirmedOnce == Inv => Unique
<1> SUFFICES ASSUME Inv, NEW p \in acked, NEW q \in acked
             PROVE  p[1] = q[1] <=> p[2] = q[2]
  BY DEF Unique
<1>1. \A i \in Index : leases[i].ip = LeaseAddr(i)
  BY DEF Inv, LeaseInv, Unused
<1>2. PICK i \in Index : leases[i].mac = p[1] /\ leases[i].ip = p[2]
  BY DEF Inv, LeaseInv
<1>3. PICK j \in Index : leases[j].mac = q[1] /\ leases[j].ip = q[2]
  BY DEF Inv, LeaseInv
<1>4. p[1] # freeMac
  BY DhcpAssumption DEF Inv, TypeOK
<1>5. ASSUME p[1] = q[1]
      PROVE  i = j
  BY <1>2, <1>3, <1>4, <1>5 DEF Inv, LeaseInv
<1>6. ASSUME p[2] = q[2]
      PROVE  i = j
  BY <1>1, <1>2, <1>3, <1>6, LeaseAddrInjective
<1> QED
  BY <1>2, <1>3, <1>5, <1>6

\* Stations that were both confirmed an address since the last start have none
\* in common.
LEMMA InvShare == Inv /\ LatestInv => SharedOnlyByRestart
<1> SUFFICES ASSUME Inv, LatestInv
             PROVE  SharedOnlyByRestart
  OBVIOUS
<1>1. ASSUME NEW m \in Macs, NEW n \in Macs, latest[m] = latest[n],
             {m, n} \subseteq Reassured
      PROVE  m = n
  <2>1. <<m, latest[m]>> \in acked /\ <<n, latest[n]>> \in acked
    BY <1>1 DEF LatestInv, Reassured
  <2> QED
    BY <1>1, <2>1, ConfirmedOnce DEF Unique
<1> QED
  BY <1>1, ConfirmedOnce DEF SharedOnlyByRestart, Unique

\* A confirmation is recorded both ways, and a start takes back only one of them.
LEMMA NextLatest ==
  ASSUME Inv, LatestInv, [Next]_vars
  PROVE  LatestInv'
<1>1. CASE UNCHANGED <<acked, latest>>
  BY <1>1 DEF LatestInv
<1>2. CASE acked' = {}
  BY <1>2 DEF LatestInv
<1>3. ASSUME NEW m \in Macs, Ack(m)
      PROVE  LatestInv'
  <2>1. PICK i \in Index :
          /\ acked' = acked \cup {<<m, leases[i].ip>>}
          /\ latest' = [latest EXCEPT ![m] = leases[i].ip]
    BY <1>3 DEF Ack
  <2>2. ASSUME NEW p \in acked'
        PROVE  <<p[1], latest'[p[1]]>> \in acked'
    <3>1. CASE p[1] = m
      BY <2>1, <3>1 DEF Inv, TypeOK
    <3>2. CASE p[1] # m
      <4>1. p \in acked /\ latest'[p[1]] = latest[p[1]]
        BY <2>1, <2>2, <3>2 DEF Inv, TypeOK
      <4> QED
        BY <2>1, <4>1 DEF LatestInv
    <3> QED
      BY <3>1, <3>2
  <2> QED
    BY <2>2 DEF LatestInv
<1> QED
  BY <1>1, <1>2, <1>3
  DEF Next, dhcpRecv, handleRequest, handleDiscover, Nak, Refuse, NoMemory, Unsent,
      dhcpServerStart, dhcpServerStop, dhcpServerStartRaw, dhcpServerStopRaw, server, vars

\* Between two starts no two stations are confirmed the same address, and no
\* station two addresses, in any order of discoveries, requests, failures of
\* newResp and stops. Across a start, which forgets the leases, two stations can
\* come to have one address: then one of them has been told nothing since
\* (dhcps.c:93-113, 366).
THEOREM OnlyRestartsShare == Spec => []SharedOnlyByRestart
<1>1. Init => LatestInv
  BY DEF Init, LatestInv
<1> QED
  BY <1>1, NextLatest, InvShare, Invariant, PTL DEF Spec

\* A refusal is about an address that was not offered to the station.
LEMMA NextOffer ==
  ASSUME Inv, OfferHonoured, [Next]_vars
  PROVE  OfferHonoured'
<1>1. ASSUME NEW m \in Macs, NEW a \in PoolAddrs \cup {NoAddr}, Nak(m, a)
      PROVE  OfferHonoured'
  <2>1. PICK i \in Index :
          /\ allocateAddr(m, i)
          /\ a # leases[i].ip
          /\ reply' = [type |-> "nak", mac |-> m, ip |-> a,
                       wasFree |-> \E j \in LeasesOf(freeMac) : leases[j].ip = a]
    BY <1>1 DEF Nak
  <2>2. \A j \in Index : leases[j].mac = m => j = i
    BY <1>1, <2>1, AllocateFacts DEF Nak, Answering, Inv
  <2>3. ASSUME offered[m] = a, a # NoAddr
        PROVE  FALSE
    <3>1. PICK j \in Index : leases[j].mac = m /\ leases[j].ip = a
      BY <2>3 DEF Inv, LeaseInv
    <3> QED
      BY <2>1, <2>2, <3>1
  <2>4. reply'.mac = m /\ reply'.ip = a /\ offered' = offered
    BY <1>1, <2>1 DEF Nak
  <2> QED
    BY <2>3, <2>4 DEF OfferHonoured
<1>2. ASSUME reply'.type # "nak"
      PROVE  OfferHonoured'
  BY <1>2 DEF OfferHonoured
<1>3. CASE UNCHANGED <<reply, offered>>
  BY <1>3 DEF OfferHonoured
<1>4. ASSUME NEW m \in Macs, handleDiscover(m) \/ Ack(m) \/ Refuse(m) \/ NoMemory(m)
             \/ Unsent(m)
      PROVE  reply'.type # "nak"
  BY <1>4 DEF handleDiscover, Ack, Refuse, NoMemory, Unsent, NoReply
<1>5. CASE dhcpServerStartRaw
  BY <1>2, <1>5 DEF dhcpServerStartRaw, NoReply
<1> QED
  BY <1>1, <1>2, <1>3, <1>4, <1>5
  DEF Next, dhcpRecv, handleRequest, dhcpServerStart, dhcpServerStop,
      dhcpServerStopRaw, vars

\* A station that requests the address it was offered is never turned down,
\* whatever other stations and the callers of the server did in between.
THEOREM OffersAreHonoured == Spec => []OfferHonoured
<1>1. Init => OfferHonoured
  BY DEF Init, OfferHonoured, NoReply
<1> QED
  BY <1>1, NextOffer, Invariant, PTL DEF Spec

\* Every step keeps the static ARP entries in agreement with what was confirmed:
\* an entry is overwritten with each confirmation (dhcps.c:305).
LEMMA NextArp ==
  ASSUME Inv, Inv', ArpAgrees, [Next]_vars
  PROVE  ArpAgrees'
<1>1. CASE UNCHANGED <<arp, acked>>
  BY <1>1 DEF ArpAgrees
<1>2. CASE acked' = {}
  BY <1>2 DEF ArpAgrees
<1>3. ASSUME NEW m \in Macs, Ack(m)
      PROVE  ArpAgrees'
  <2>1. PICK i \in Index :
          /\ allocateAddr(m, i)
          /\ acked' = acked \cup {<<m, leases[i].ip>>}
          /\ etharp_add_static_entry(leases[i].ip, m)
    BY <1>3 DEF Ack
  <2> DEFINE a == leases[i].ip
  <2>2. a \in Octets
    <3>1. TypeOK /\ LeaseInv /\ Receiving /\ allocateAddr(m, i)
      BY <1>3, <2>1 DEF Ack, Answering, Inv
    <3>2. leases[i].ip = LeaseAddr(i)
      BY <3>1, AllocateFacts
    <3> QED
      BY <3>2, LeaseAddrType
  <2>3. \A b \in Octets \ {a} : arp'[b] = arp[b]
    BY <2>1 DEF etharp_add_static_entry, Inv, TypeOK
  <2>4. arp'[a] \in {m, freeMac}
    BY <2>1, <2>2 DEF etharp_add_static_entry, Inv, TypeOK
  <2>5. <<m, a>> \in acked'
    BY <2>1
  <2>6. \A p \in acked' : p[1] = m <=> p[2] = a
    <3>1. Unique'
      BY ConfirmedOnce, PTL
    <3> QED
      BY <2>5, <3>1 DEF Unique
  <2> HIDE DEF a
  <2>7. ASSUME NEW p \in acked'
        PROVE  arp'[p[2]] \in {p[1], freeMac}
    <3>1. CASE p[2] = a
      BY <2>4, <2>6, <3>1
    <3>2. CASE p[2] # a
      <4>1. p \in acked
        BY <2>1, <3>2 DEF a
      <4>2. p[2] \in Octets
        BY <4>1 DEF Inv, TypeOK
      <4> QED
        BY <2>3, <3>2, <4>1, <4>2 DEF ArpAgrees
    <3> QED
      BY <3>1, <3>2
  <2> QED
    BY <2>7 DEF ArpAgrees
<1>4. ASSUME NEW m \in Macs, Unsent(m)
      PROVE  ArpAgrees'
  <2>1. PICK i \in Index :
          /\ allocateAddr(m, i)
          /\ etharp_add_static_entry(leases[i].ip, m) \/ UNCHANGED arp
    BY <1>4 DEF Unsent
  <2>2. /\ leases[i].mac \in {m, freeMac}
        /\ \A j \in Index : leases[j].ip = LeaseAddr(j)
    BY <1>4, <2>1, AllocateFacts DEF Unsent, Receiving, Inv, LeaseInv, Unused
  <2>3. ASSUME NEW p \in acked
        PROVE  arp'[p[2]] \in {p[1], freeMac}
    <3>1. p[1] \in Macs /\ p[2] \in Octets
      BY DEF Inv, TypeOK
    <3>2. PICK k \in Index : leases[k].mac = p[1] /\ leases[k].ip = p[2]
      BY DEF Inv, LeaseInv
    <3>3. p[2] = leases[i].ip => p[1] = m
      BY <2>2, <3>1, <3>2, LeaseAddrInjective, DhcpAssumption
    <3>4. arp[p[2]] \in {p[1], freeMac}
      BY DEF ArpAgrees
    <3>5. arp'[p[2]] \in {arp[p[2]]} \cup (IF p[2] = leases[i].ip THEN {m} ELSE {})
      BY <2>1, <3>1 DEF etharp_add_static_entry, Inv, TypeOK
    <3> QED
      BY <3>3, <3>4, <3>5
  <2> QED
    BY <1>4, <2>3 DEF Unsent, ArpAgrees
<1> QED
  BY <1>1, <1>2, <1>3, <1>4
  DEF Next, dhcpRecv, handleRequest, handleDiscover, Nak, Refuse, NoMemory,
      dhcpServerStart, dhcpServerStop, dhcpServerStartRaw, dhcpServerStopRaw,
      server, vars

\* A static ARP entry for a confirmed address leads to the station that holds
\* the address now, not to one that held it before a restart.
THEOREM ArpFollowsLeases == Spec => []ArpAgrees
<1>1. Init => ArpAgrees
  BY DEF Init, ArpAgrees
<1> QED
  BY <1>1, NextArp, Invariant, PTL DEF Spec

-----------------------------------------------------------------------------
(* Control blocks. What dhcpServerStart and dhcpServerStop queue is carried  *)
(* out later, so that the control block follows the queue and not the caller. *)

\* The last call that was queued is the last that was accepted.
LastCall == queue # <<>> => (running <=> queue[Len(queue)] = "start")

\* Without a restart, a start follows a stop in the queue, and the one that
\* is carried out next finds no control block.
StartsApart ==
  ~restarted =>
    /\ \A i \in 1 .. Len(queue) - 1 : queue[i] = "start" => queue[i + 1] = "stop"
    /\ queue # <<>> /\ queue[1] = "start" => dhcpPcb = NoPcb

PcbInv == LastCall /\ StartsApart /\ PcbExact

\* A call is queued behind those that wait.
LEMMA CallQueued ==
  ASSUME NEW S, NEW q \in Seq(S), NEW x \in S
  PROVE  /\ Append(q, x) # <<>>
         /\ Len(Append(q, x)) = Len(q) + 1
         /\ Len(q) \in Nat
         /\ q = <<>> <=> Len(q) = 0
         /\ \A i \in 1 .. Len(q) : Append(q, x)[i] = q[i]
         /\ Append(q, x)[Len(q) + 1] = x
OBVIOUS

\* The thread of the stack takes the first one.
LEMMA CallTaken ==
  ASSUME NEW S, NEW q \in Seq(S), q # <<>>
  PROVE  /\ Len(q) \in Nat \ {0}
         /\ Len(Tail(q)) = Len(q) - 1
         /\ Tail(q) = <<>> <=> Len(q) = 1
         /\ Head(q) = q[1]
         /\ \A i \in 1 .. Len(q) - 1 : Tail(q)[i] = q[i + 1]
<1>1. Tail(q) \in Seq(S) /\ Len(q) \in Nat \ {0} /\ Len(Tail(q)) = Len(q) - 1
  OBVIOUS
<1>2. Tail(q) = <<>> <=> Len(Tail(q)) = 0
  <2> DEFINE t == Tail(q)
  <2> SUFFICES t = <<>> <=> Len(t) = 0
    OBVIOUS
  <2>1. t \in Seq(S)
    BY <1>1
  <2> HIDE DEF t
  <2> QED
    BY <2>1
<1>3. Head(q) = q[1] /\ \A i \in 1 .. Len(q) - 1 : Tail(q)[i] = q[i + 1]
  OBVIOUS
<1> QED
  BY <1>1, <1>2, <1>3

\* A call of the application's changes the queue only.
LEMMA CallStep ==
  ASSUME TypeOK, PcbInv, dhcpServerStart \/ dhcpServerStop
  PROVE  PcbInv'
<1> DEFINE n == Len(queue)
<1>1. PICK x \in {"start", "stop"} :
        /\ queue' = Append(queue, x)
        /\ running' = (x = "start")
        /\ restarted' = (restarted \/ (x = "start" /\ running))
        /\ UNCHANGED <<dhcpPcb, pcb>>
  BY DEF dhcpServerStart, dhcpServerStop, TypeOK
<1>2. /\ queue' # <<>> /\ Len(queue') = n + 1 /\ n \in Nat
      /\ queue = <<>> <=> n = 0
      /\ \A i \in 1 .. n : queue'[i] = queue[i]
      /\ queue'[n + 1] = x
  BY <1>1, CallQueued DEF TypeOK
<1> HIDE DEF n
<1>3. LastCall'
  BY <1>1, <1>2 DEF LastCall
<1>4. StartsApart'
  <2> SUFFICES ASSUME ~restarted'
               PROVE  /\ \A i \in 1 .. n : queue'[i] = "start" => queue'[i + 1] = "stop"
                      /\ queue'[1] = "start" => dhcpPcb' = NoPcb
    BY <1>2 DEF StartsApart
  <2>1. ~restarted /\ (x = "start" => ~running)
    BY <1>1
  <2>2. ASSUME NEW i \in 1 .. n, queue'[i] = "start"
        PROVE  queue'[i + 1] = "stop"
    <3>1. CASE i = n
      <4>1. running
        BY <1>2, <2>2, <3>1 DEF PcbInv, LastCall, n
      <4> QED
        BY <1>2, <2>1, <3>1, <4>1
    <3>2. CASE i < n
      BY <1>2, <2>1, <2>2, <3>2 DEF PcbInv, StartsApart, n
    <3> QED
      BY <1>2, <3>1, <3>2
  <2>3. ASSUME queue'[1] = "start"
        PROVE  dhcpPcb' = NoPcb
    <3>1. CASE n = 0
      BY <1>1, <1>2, <2>1, <2>3, <3>1 DEF PcbInv, PcbExact
    <3>2. CASE n > 0
      BY <1>1, <1>2, <2>1, <2>3, <3>2 DEF PcbInv, StartsApart
    <3> QED
      BY <1>2, <3>1, <3>2
  <2> QED
    BY <2>2, <2>3
<1>5. PcbExact'
  BY <1>1, <1>2 DEF PcbInv, PcbExact
<1> QED
  BY <1>3, <1>4, <1>5 DEF PcbInv

\* The thread of the stack carries out the first call of the queue.
LEMMA CarriedOut ==
  ASSUME TypeOK, PcbInv, dhcpServerStartRaw \/ dhcpServerStopRaw
  PROVE  PcbInv'
<1> DEFINE n == Len(queue)
<1>1. /\ queue # <<>> /\ queue' = Tail(queue) /\ UNCHANGED <<running, restarted>>
      /\ dhcpServerStartRaw => queue[1] = "start"
  BY DEF dhcpServerStartRaw, dhcpServerStopRaw, TypeOK
<1>2. /\ n \in Nat \ {0} /\ Len(queue') = n - 1
      /\ queue' = <<>> <=> n = 1
      /\ \A i \in 1 .. n - 1 : queue'[i] = queue[i + 1]
  BY <1>1, CallTaken DEF TypeOK
<1> HIDE DEF n
<1>3. LastCall'
  <2> SUFFICES ASSUME n > 1 PROVE running' <=> queue'[n - 1] = "start"
    BY <1>2 DEF LastCall
  <2>1. queue'[n - 1] = queue[n]
    BY <1>2
  <2> QED
    BY <1>1, <2>1 DEF PcbInv, LastCall, n
<1>4. StartsApart'
  <2> SUFFICES ASSUME ~restarted
               PROVE  /\ \A i \in 1 .. n - 2 : queue'[i] = "start" => queue'[i + 1] = "stop"
                      /\ n > 1 /\ queue'[1] = "start" => dhcpPcb' = NoPcb
    BY <1>1, <1>2 DEF StartsApart
  <2>1. \A i \in 1 .. n - 1 : queue[i] = "start" => queue[i + 1] = "stop"
    BY DEF PcbInv, StartsApart, n
  <2>2. \A i \in 1 .. n - 2 : queue'[i] = "start" => queue'[i + 1] = "stop"
    BY <1>2, <2>1
  <2>3. ASSUME n > 1, queue'[1] = "start"
        PROVE  dhcpPcb' = NoPcb
    <3>1. queue[1] # "start"
      BY <1>2, <2>1, <2>3
    <3> QED
      BY <1>1, <3>1 DEF dhcpServerStopRaw
  <2> QED
    BY <2>2, <2>3
<1>5. ASSUME ~restarted'
      PROVE  \A p \in Pcbs : pcb'[p] = IF p = dhcpPcb' THEN "bound" ELSE "free"
  <2>1. \A p \in Pcbs : pcb[p] = IF p = dhcpPcb THEN "bound" ELSE "free"
    BY <1>1, <1>5 DEF PcbInv, PcbExact
  <2>2. CASE dhcpServerStopRaw
    BY <2>1, <2>2, DhcpAssumption DEF dhcpServerStopRaw
  <2>3. CASE dhcpServerStartRaw
    <3>1. dhcpPcb = NoPcb
      BY <1>1, <1>5, <2>3 DEF PcbInv, StartsApart
    <3>2. \A p \in Pcbs : pcb[p] = "free"
      BY <2>1, <3>1, DhcpAssumption
    <3>3. Bound = {}
      BY <3>2 DEF Bound
    <3> QED
      BY <2>3, <3>2, <3>3, DhcpAssumption DEF dhcpServerStartRaw, TypeOK
  <2> QED
    BY <2>2, <2>3
<1>7. dhcpPcb' # NoPcb => pcb'[dhcpPcb'] # "free"
  <2>1. CASE dhcpServerStopRaw
    BY <2>1 DEF dhcpServerStopRaw
  <2>2. CASE dhcpServerStartRaw
    <3>1. CASE dhcpPcb' = NoPcb
      BY <3>1
    <3>2. CASE dhcpPcb' # NoPcb
      <4>1. PICK p \in Pcbs :
              dhcpPcb' = p /\ pcb' = [pcb EXCEPT ![p] = IF Bound = {} THEN "bound" ELSE "new"]
        BY <2>2, <3>2 DEF dhcpServerStartRaw
      <4> QED
        BY <4>1 DEF TypeOK
    <3> QED
      BY <3>1, <3>2
  <2> QED
    BY <2>1, <2>2
<1>6. queue' = <<>> /\ ~running' => dhcpPcb' = NoPcb
  <2>1. CASE dhcpServerStopRaw
    BY <2>1 DEF dhcpServerStopRaw
  <2>2. CASE dhcpServerStartRaw
    BY <1>1, <1>2, <2>2 DEF PcbInv, LastCall, n
  <2> QED
    BY <2>1, <2>2
<1> QED
  BY <1>3, <1>4, <1>5, <1>6, <1>7 DEF PcbInv, PcbExact

\* dhcpPcb never names a control block that was given up; and the server has the
\* one it receives on, or none, as long as nobody starts it twice in a row, however
\* the calls and the thread that carries them out are interleaved and whether or
\* not udp_new succeeds (dhcps.c:378-394).
THEOREM PcbsAreExact == Spec => []PcbExact
<1>1. Init => PcbInv
  BY DhcpAssumption DEF Init, PcbInv, LastCall, StartsApart, PcbExact
<1>2. TypeOK /\ PcbInv /\ [Next]_vars => PcbInv'
  <2> SUFFICES ASSUME TypeOK, PcbInv, [Next]_vars PROVE PcbInv'
    OBVIOUS
  <2>1. CASE dhcpRecv \/ UNCHANGED vars
    <3>1. UNCHANGED <<running, restarted, queue, dhcpPcb, pcb>>
      BY <2>1
      DEF dhcpRecv, handleDiscover, handleRequest, Ack, Nak, Refuse, NoMemory,
          Unsent, server, vars
    <3> QED
      BY <3>1 DEF PcbInv, LastCall, StartsApart, PcbExact
  <2> QED
    BY <2>1, CallStep, CarriedOut DEF Next
<1>3. PcbInv => PcbExact
  BY DEF PcbInv
<1> QED
  BY <1>1, <1>2, <1>3, TypeCorrect, PTL DEF Spec

-----------------------------------------------------------------------------
(* Refinement: the lease table is an AddressPool. *)

\* Every step of the server is a step of AddressPool or leaves it alone.
LEMMA NextRefines ==
  ASSUME Inv, [Next]_vars
  PROVE  Pool!Next \/ UNCHANGED <<Held, acked>>
<1>1. CASE UNCHANGED <<leases, acked>>
  BY <1>1 DEF Held, LeasesOf
<1>2. CASE dhcpServerStartRaw
  <2>1. acked' = {} /\ \A i \in Index : leases'[i].mac = freeMac
    BY <1>2 DEF dhcpServerStartRaw
  <2>2. Held' = {}
    BY <2>1 DEF Held, LeasesOf
  <2> QED
    BY <2>1, <2>2 DEF Pool!Next, Pool!Restart
<1>3. ASSUME NEW m \in Macs, NEW i \in Index, Receiving, allocateAddr(m, i),
             acked' \in {acked, acked \cup {<<m, leases[i].ip>>}}
      PROVE  Pool!Next
  <2> DEFINE a == leases[i].ip
  <2>1. /\ leases[i].mac \in {m, freeMac}
        /\ \A j \in Index : leases[j].mac = m => j = i
        /\ a = LeaseAddr(i)
        /\ leases'[i] = [mac |-> m, ip |-> LeaseAddr(i)]
        /\ \A j \in Index \ {i} : leases'[j] = leases[j]
    BY <1>3, AllocateFacts DEF Inv
  <2>2. a \in PoolAddrs
    BY <2>1 DEF PoolAddrs
  <2>3. \A j \in Index : leases[j].ip = LeaseAddr(j)
    BY <1>3 DEF Receiving, Inv, LeaseInv, Unused
  <2>4. m # freeMac
    BY DhcpAssumption
  <2>5. ASSUME NEW p \in Held
        PROVE  p[1] = m <=> p[2] = a
    <3>1. PICK j \in Index : p = <<leases[j].mac, leases[j].ip>> /\ leases[j].mac # freeMac
      BY <2>5 DEF Held, LeasesOf
    <3>2. p[2] = a => j = i
      BY <2>1, <2>3, <3>1, LeaseAddrInjective
    <3>3. p[1] = m => j = i
      BY <2>1, <3>1
    <3>4. j = i => p[1] = m /\ p[2] = a
      BY <2>1, <3>1
    <3> QED
      BY <3>2, <3>3, <3>4
  <2>6. Held' = Held \cup {<<m, a>>}
    <3>1. ASSUME NEW j \in Index, leases'[j].mac # freeMac
          PROVE  <<leases'[j].mac, leases'[j].ip>> \in Held \cup {<<m, a>>}
      BY <2>1, <3>1 DEF Held, LeasesOf
    <3>2. ASSUME NEW j \in Index, leases[j].mac # freeMac
          PROVE  leases'[j].mac # freeMac /\ leases'[j].mac = leases[j].mac
                 /\ leases'[j].ip = leases[j].ip
      <4>1. CASE j = i
        BY <2>1, <3>2, <4>1
      <4>2. CASE j # i
        BY <2>1, <3>2, <4>2
      <4> QED
        BY <4>1, <4>2
    <3>3. leases'[i].mac = m /\ leases'[i].ip = a
      BY <2>1
    <3>4. Held' \subseteq Held \cup {<<m, a>>}
      BY <3>1 DEF Held, LeasesOf
    <3>5. Held \subseteq Held'
      BY <3>2 DEF Held, LeasesOf
    <3>6. <<m, a>> \in Held'
      BY <2>4, <3>3 DEF Held, LeasesOf
    <3> QED
      BY <3>4, <3>5, <3>6
  <2>7. Pool!Serve(m, a)
    BY <1>3, <2>5, <2>6 DEF Pool!Serve
  <2> QED
    BY <2>2, <2>7 DEF Pool!Next
<1>4. ASSUME NEW m \in Macs,
             handleDiscover(m) \/ Ack(m) \/ NoMemory(m) \/ Unsent(m)
             \/ \E b \in PoolAddrs \cup {NoAddr} : Nak(m, b)
      PROVE  Pool!Next
  <2>1. PICK i \in Index :
          /\ allocateAddr(m, i)
          /\ acked' \in {acked, acked \cup {<<m, leases[i].ip>>}}
    BY <1>4 DEF handleDiscover, Ack, NoMemory, Unsent, Nak, Answering
  <2>2. Receiving
    BY <1>4 DEF handleDiscover, Ack, NoMemory, Unsent, Nak, Answering
  <2> QED
    BY <1>3, <2>1, <2>2
<1> QED
  BY <1>1, <1>2, <1>4
  DEF Next, dhcpRecv, handleRequest, Refuse, dhcpServerStart, dhcpServerStop,
      dhcpServerStopRaw, vars

\* The lease table implements a pool of addresses that gives each station at
\* most one and each address away at most once, until a restart takes all back.
THEOREM ImplementsPool == Spec => PoolSpec
<1>1. Init => Pool!Init
  BY DEF Init, Pool!Init, Held, LeasesOf
<1>2. Inv /\ [Next]_vars => [Pool!Next]_(Pool!vars)
  BY NextRefines DEF Pool!vars
<1> QED
  BY <1>1, <1>2, Invariant, PTL DEF Spec, PoolSpec, Pool!Spec
=============================================================================
