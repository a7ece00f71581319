-------------------------- MODULE MCCs8900aDriver --------------------------
(***************************************************************************)
(* Cs8900aDriver for model checking: short frames, in one buffer and in a  *)
(* chain, of even and of odd length, and registers of each group that is   *)
(* set at the start.                                                       *)
(***************************************************************************)
EXTENDS Cs8900aDriver

MCChains == {<<3>>, <<4>>, <<2, 4, 5>>, <<1, 3>>}

\* Each byte is another one, also the one behind the end.
MCFrameByte(k) == k + 2

Reg(a, v) == [Addr |-> a, Data |-> v]

\* The address 00:bd:03:04:05:07, and what follows it.
MCInitSeq ==
  <<Reg(PP.IA, 48384), Reg(PP.IA + 2, 1027), Reg(PP.IA + 4, 1797),
    Reg(PP.LineCTL, 192),
    Reg(PP.LAF, 65535), Reg(PP.LAF + 2, 65535),
    Reg(PP.LAF + 4, 65535), Reg(PP.LAF + 6, 65535),
    Reg(PP.RxCTL, 3840)>>
=============================================================================
