----------------------------- MODULE AddressPool -----------------------------
(***************************************************************************)
(* What a DHCP server promises: it hands every station at most one address *)
(* and every address to at most one station, for good. Only a restart      *)
(* takes the addresses back.                                               *)
(***************************************************************************)
CONSTANTS Macs, Addrs

VARIABLES
  held,   \* pairs <<station, address>> the server has set aside
  acked   \* pairs that it has confirmed to the station

vars == <<held, acked>>

Init == held = {} /\ acked = {}

\* Station m is told about address a, which may bind it to a.
Serve(m, a) ==
  /\ \A p \in held : p[1] = m <=> p[2] = a
  /\ held' = held \cup {<<m, a>>}
  /\ acked' \in {acked, acked \cup {<<m, a>>}}

Restart == held' = {} /\ acked' = {}

Next == Restart \/ \E m \in Macs, a \in Addrs : Serve(m, a)

Spec == Init /\ [][Next]_vars
==============================================================================
