----------------------------- MODULE DhcpOptions -----------------------------
(***************************************************************************)
(* The bytes of a DHCP message's options, as apps/dhcps/dhcps.c reads and  *)
(* writes them. One message arrives; dhcpRecv takes its kind from a fixed  *)
(* place, handleRequest walks over the options to find the address that    *)
(* the station wants, and the reply is built option by option.             *)
(*                                                                         *)
(* Stations send options in any order, with padding between them, and may  *)
(* forget the end mark. The lease is the one that DhcpServer's             *)
(* allocateAddr finds; a message that gets none has no part in this.       *)
(***************************************************************************)
EXTENDS Integers, Sequences, SequencesExt, FiniteSetsExt

CONSTANTS
  Items,        \* options that stations send: [code, data], data of bytes
  MaxItems,     \* bound on the options of a message
  OptionsLen,   \* bytes of the options field
  NewAddr,      \* the address of the station's lease, four bytes
  Addrs,        \* addresses
  Netmask,
  ServerAddr

ZeroAddr == <<0, 0, 0, 0>>

Byte    == 0 .. 255
Address == [1 .. 4 -> Byte]

\* Message types and option codes.
DHCP == [DISCOVER |-> 1, OFFER |-> 2, REQUEST |-> 3, ACK |-> 5, NAK |-> 6]

OPT == [NETMASK |-> 1, REQ_IP |-> 50, LEASE_TIME |-> 51, MSGTYPE |-> 53,
        SERVERID |-> 54, RENEW_TIME |-> 58, REBIND_TIME |-> 59, END |-> 255]

OPT_PAD == 0

Pad == [code |-> OPT_PAD, data |-> <<>>]

\* The two codes that have no length stand for themselves; the length of any
\* other option is a byte. The size of the field is lwIP's, which makes it 68 bytes
\* or more; the replies have to do with the 34 that are assumed here.
ASSUME OptionsAssumption ==
  /\ \A item \in Items \ {Pad} :
       /\ item \in [code : 1 .. 254, data : Seq(Byte)]
       /\ Len(item.data) <= 255
  /\ MaxItems \in Nat
  /\ OptionsLen \in Nat /\ OptionsLen >= 34
  /\ Addrs \subseteq Address /\ {NewAddr, ZeroAddr} \subseteq Addrs
  /\ {Netmask, ServerAddr} \subseteq Address

VARIABLES
  sent,       \* the options of the message, as the station means them
  ended,      \* whether it has put an end mark after them
  phase,      \* where the handling of the message is
  optionPtr,  \* the place of the walk, from 1
  reqAddr,    \* the address that was asked for, as far as the walk has come
  yiaddr,     \* the address in the reply
  resp        \* the reply's options; none while it is empty

vars == <<sent, ended, phase, optionPtr, reqAddr, yiaddr, resp>>

-----------------------------------------------------------------------------
(* What a message looks like. *)

Encoded(item) ==
  IF item = Pad THEN <<OPT_PAD>>
                ELSE <<item.code, Len(item.data)>> \o item.data

\* The field after bytes were put there, the rest of it zero; nothing keeps them
\* from going on behind it.
InField(bytes) ==
  [i \in 1 .. Max({OptionsLen, Len(bytes)}) |-> IF i <= Len(bytes) THEN bytes[i] ELSE 0]

\* The field that holds the options.
Field(items, end) ==
  InField(FlattenSeq([i \in DOMAIN items |-> Encoded(items[i])])
            \o (IF end THEN <<OPT.END>> ELSE <<>>))

Options == Field(sent, ended)

Init ==
  /\ sent \in BoundedSeq(Items, MaxItems)
  /\ ended \in BOOLEAN
  /\ phase = "received"
  /\ optionPtr = 1
  /\ reqAddr = ZeroAddr
  /\ yiaddr = ZeroAddr
  /\ resp = <<>>

-----------------------------------------------------------------------------
(* Writing options. The writes have no bound: they go on behind the field if    *)
(* the options do not fit.                                                      *)

addOptionByte(opts, opt, val) == opts \o <<opt, 1, val>>

addOptionIP(opts, opt, ip) == opts \o <<opt, 4>> \o ip

\* Mutant: the low byte first.
addOptionTimeLow(opts, opt, t) ==
  opts \o <<opt, 4, t % 256, (t \div 256) % 256,
            (t \div 65536) % 256, t \div 16777216>>

addOptionTime(opts, opt, t) ==
  opts \o <<opt, 4, t \div 16777216, (t % 16777216) \div 65536,
            (t % 65536) \div 256, t % 256>>

\* newResp clears the field before options are put there.
Finish(opts) == InField(opts \o <<OPT.END>>)

Type(t) == addOptionByte(<<>>, OPT.MSGTYPE, t)

Offer ==
  Finish(addOptionIP(addOptionIP(Type(DHCP.OFFER),
           OPT.NETMASK, Netmask), OPT.SERVERID, ServerAddr))

\* Mutant: the lease time is written twice.
AckTimesRepeated ==
  addOptionTime(addOptionTime(addOptionTime(addOptionTime(Type(DHCP.ACK),
    OPT.RENEW_TIME, 30 * 60), OPT.REBIND_TIME, 50 * 60), OPT.LEASE_TIME, 60 * 60),
    OPT.LEASE_TIME, 60 * 60)

AckTimes ==
  addOptionTime(addOptionTime(addOptionTime(Type(DHCP.ACK),
    OPT.RENEW_TIME, 30 * 60), OPT.REBIND_TIME, 50 * 60), OPT.LEASE_TIME, 60 * 60)

Ack ==
  Finish(addOptionIP(addOptionIP(AckTimes,
           OPT.NETMASK, Netmask), OPT.SERVERID, ServerAddr))

Nak == Finish(addOptionIP(Type(DHCP.NAK), OPT.SERVERID, ServerAddr))

-----------------------------------------------------------------------------
(* Handling the message. *)

\* Mutant: takes the length for the kind.
MessageTypeLength == Options[2]

\* req->options[2], where the kind is when its option is the first one.
MessageType == Options[3]

dhcpRecv ==
  /\ phase = "received"
  /\ \/ /\ MessageType = DHCP.DISCOVER
        /\ phase' = "answered"
        /\ yiaddr' = NewAddr
        /\ resp' = Offer
     \/ /\ MessageType = DHCP.REQUEST
        /\ phase' = "walk"
        /\ UNCHANGED <<yiaddr, resp>>
     \/ /\ MessageType \notin {DHCP.DISCOVER, DHCP.REQUEST}
        /\ phase' = "answered"
        /\ UNCHANGED <<yiaddr, resp>>
  /\ UNCHANGED <<sent, ended, optionPtr, reqAddr>>

getOption    == Options[optionPtr]
getOptionLen == Options[optionPtr + 1]
getOptionData == SubSeq(Options, optionPtr + 2, optionPtr + 5)

\* An address is taken only from an option of four bytes.
TakesAddr == getOption = OPT.REQ_IP /\ getOptionLen = 4

\* What the next step of the walk reads lies in the field: the option, its
\* length, and the address if it is one.
Inside ==
  /\ optionPtr \in DOMAIN Options
  /\ getOption # OPT.END =>
       /\ optionPtr + 1 \in DOMAIN Options
       /\ TakesAddr => optionPtr + 5 \in DOMAIN Options

\* Mutant: steps over the data but not over the code and the length.
nextOptionData == optionPtr + getOptionLen

nextOption == optionPtr + getOptionLen + 2

Walk ==
  /\ phase = "walk" /\ Inside /\ getOption # OPT.END
  /\ reqAddr' = IF TakesAddr THEN getOptionData ELSE reqAddr
  /\ optionPtr' = nextOption
  /\ UNCHANGED <<sent, ended, phase, yiaddr, resp>>

\* The walk has no bound. What it finds behind the field may be anything, and
\* the next end mark may be anywhere.
WalkOutside ==
  /\ phase = "walk" /\ ~Inside
  /\ phase' = "outside"
  /\ reqAddr' \in Addrs \cup {reqAddr}
  /\ UNCHANGED <<sent, ended, optionPtr, yiaddr, resp>>

Answer ==
  \/ reqAddr = NewAddr /\ yiaddr' = reqAddr /\ resp' = Ack
  \/ reqAddr # NewAddr /\ yiaddr' = yiaddr /\ resp' = Nak

handleRequest ==
  /\ \/ phase = "walk" /\ Inside /\ getOption = OPT.END
     \/ phase = "outside"
  /\ phase' = "answered"
  /\ Answer
  /\ UNCHANGED <<sent, ended, optionPtr, reqAddr>>

Handle == dhcpRecv \/ Walk \/ handleRequest

Next == Handle \/ WalkOutside

\* The handling of a message is one function call.
Spec == Init /\ [][Next]_vars /\ WF_vars(Handle)

-----------------------------------------------------------------------------
(* What must be true. *)

\* The places and addresses keep their types, and no reply has a byte behind its
\* field: the options that are written without a bound fit (dhcps.c:138-178,
\* 229-234, 291-299, 321-325).
OptTypeOK ==
  /\ sent \in Seq(Items) /\ ended \in BOOLEAN
  /\ phase \in {"received", "walk", "outside", "answered"}
  /\ optionPtr \in Nat \ {0}
  /\ reqAddr \in Address /\ yiaddr \in Addrs
  /\ resp = <<>> \/ resp \in [1 .. OptionsLen -> Byte]

\* Pad options come in pairs: to the walk, a pad option and the byte behind it
\* are the code and the length of an option.
RunOfPads(i, j) ==
  /\ \A k \in i .. j : sent[k] = Pad
  /\ i = 1 \/ sent[i - 1] # Pad
  /\ j = Len(sent) \/ sent[j + 1] # Pad

WellFormed ==
  /\ ended
  /\ \A i \in DOMAIN sent : \A j \in i .. Len(sent) :
       RunOfPads(i, j) => (j - i + 1) % 2 = 0

\* What the station asks for: the last requested address of its options.
AddrOptions == {i \in DOMAIN sent : sent[i].code = OPT.REQ_IP /\ Len(sent[i].data) = 4}
Wanted == IF AddrOptions = {} THEN ZeroAddr ELSE sent[Max(AddrOptions)].data

\* The walk over a message with an end mark and paired padding never leaves the
\* field, although it has no bound, also when the data of an option looks like
\* an option (dhcps.c:271-286).
WalkStaysInside == WellFormed => phase # "outside"

TypeFirst == sent # <<>> /\ sent[1].code = OPT.MSGTYPE /\ Len(sent[1].data) = 1
Kind == sent[1].data[1]

Opt(code, data) == [code |-> code, data |-> data]

\* Seconds in network order.
Seconds(t) == CHOOSE b \in [1 .. 4 -> {0} \cup {t % 256} \cup {t \div 256}] :
                b[1] * 16777216 + b[2] * 65536 + b[3] * 256 + b[4] = t

\* The options that a station may expect, by kind and address.
Expected ==
  IF Kind = DHCP.DISCOVER THEN
    <<Opt(OPT.MSGTYPE, <<DHCP.OFFER>>), Opt(OPT.NETMASK, Netmask),
      Opt(OPT.SERVERID, ServerAddr)>>
  ELSE IF Wanted = NewAddr THEN
    <<Opt(OPT.MSGTYPE, <<DHCP.ACK>>), Opt(OPT.RENEW_TIME, Seconds(1800)),
      Opt(OPT.REBIND_TIME, Seconds(3000)), Opt(OPT.LEASE_TIME, Seconds(3600)),
      Opt(OPT.NETMASK, Netmask), Opt(OPT.SERVERID, ServerAddr)>>
  ELSE
    <<Opt(OPT.MSGTYPE, <<DHCP.NAK>>), Opt(OPT.SERVERID, ServerAddr)>>

\* A well-formed message that begins with its kind is answered by what it asks
\* for: offer, confirmation or refusal, the address, and options that any reader
\* of options finds again (dhcps.c:178, 222-234, 269-325, 344).
AnswerMatches ==
  phase = "answered" /\ WellFormed /\ TypeFirst =>
    IF Kind \in {DHCP.DISCOVER, DHCP.REQUEST}
    THEN /\ resp = Field(Expected, TRUE)
         /\ yiaddr = (IF Kind = DHCP.DISCOVER \/ Wanted = NewAddr THEN NewAddr ELSE ZeroAddr)
    ELSE resp = <<>>

\* The walk ends for each of these messages (dhcps.c:271, 130-135).
WalkEnds == WellFormed ~> phase = "answered"
==============================================================================
