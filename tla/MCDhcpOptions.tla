--------------------------- MODULE MCDhcpOptions ---------------------------
(***************************************************************************)
(* The options that stations send in the checked instance. Each one is     *)
(* there for something the walk could take it for.                         *)
(***************************************************************************)
EXTENDS DhcpOptions

MCNewAddr == <<10, 0, 0, 12>>
Another   == <<10, 0, 0, 13>>

MCAddrs == {ZeroAddr, MCNewAddr, Another}

MCItems ==
  {Pad,
   Opt(OPT.MSGTYPE, <<DHCP.DISCOVER>>),
   Opt(OPT.MSGTYPE, <<DHCP.REQUEST>>),
   Opt(OPT.MSGTYPE, <<7>>),                     \* DHCPRELEASE
   Opt(OPT.REQ_IP, MCNewAddr),
   Opt(OPT.REQ_IP, Another),
   Opt(OPT.REQ_IP, <<10>>),                     \* not an address
   Opt(12, <<OPT.END, OPT.REQ_IP, 4>>),         \* a name, with codes in it
   Opt(80, <<>>)}                               \* an option without data

MCNetmask    == <<255, 255, 255, 0>>
MCServerAddr == <<10, 0, 0, 1>>
=============================================================================
