------------------------------ MODULE MCSockets ------------------------------
(* Sockets for model checking: tasks, slots and descriptors are alike. *)
EXTENDS Sockets, TLC

Symmetry == Permutations(Tasks) \cup Permutations(Slots) \cup Permutations(Fds)
==============================================================================
