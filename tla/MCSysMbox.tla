------------------------------ MODULE MCSysMbox ------------------------------
(***************************************************************************)
(* SysMbox for model checking. A tick is two milliseconds and a word has   *)
(* three bits, so that jiffies and the products of WaitResult wrap around. *)
(***************************************************************************)
EXTENDS SysMbox, TLC

\* Buffers are interchangeable, and so are the tasks that only fetch. The
\* properties are safety properties, for which this is sound.
Symmetry == Permutations(Msgs) \cup Permutations(Fetchers \ Posters)
==============================================================================
