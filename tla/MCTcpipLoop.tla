----------------------------- MODULE MCTcpipLoop -----------------------------
(***************************************************************************)
(* The constants of the checked instances are those of one program.        *)
(***************************************************************************)
EXTENDS TcpipLoop

ASSUME LoopAssumption == LoopConstants
=============================================================================
