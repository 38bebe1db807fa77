------------------------------- MODULE Counting -------------------------------
(***************************************************************************)
(* Sums over a finite set as the size of a set: x contributes f[x] units   *)
(* of its own.  Unlike a fold, which unfolds element by element, a         *)
(* cardinality can be reasoned about with the laws of finite sets, in      *)
(* CountingProofs.                                                         *)
(***************************************************************************)
EXTENDS Naturals, FiniteSets

Units(S, f) == UNION {{x} \X (1 .. f[x]) : x \in S}

\* The sum of f[x] for x in S.
Total(S, f) == Cardinality(Units(S, f))
===============================================================================
