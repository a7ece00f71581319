---------------------------- MODULE MCDhcpServer ----------------------------
(***************************************************************************)
(* DhcpServer for model checking: more stations than leases, and a base    *)
(* address from which the pool wraps around the last octet.                *)
(***************************************************************************)
EXTENDS DhcpServer, TLC

Symmetry == Permutations(Macs) \cup Permutations(Pcbs)
=============================================================================
