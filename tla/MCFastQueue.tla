----------------------------- MODULE MCFastQueue -----------------------------
(* Small instances of FastQueue for TLC. *)
EXTENDS FastQueue, TLC

CONSTANTS p1, p2, p3, u1, u2, u3, u4

Symmetry == Permutations(Procs) \cup Permutations(URLs)
===============================================================================
