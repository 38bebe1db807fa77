------------------------------ MODULE MCGuards ------------------------------
(***************************************************************************)
(* The two guards that stand between a caller and what it asks for, one    *)
(* after the other: BrowserPool with three visitors and two browsers, and  *)
(* CircuitBreaker with four callers.  They share nothing, so in each       *)
(* behaviour one of them is used and the other rests.                      *)
(***************************************************************************)
EXTENDS BrowserPool, CircuitBreaker

VARIABLE used

guardVars == <<used, poolVars, breakerVars>>

GuardsInit == used \in {"pool", "breaker"} /\ Init /\ BreakerInit

GuardsNext ==
  \/ used = "pool" /\ Next /\ UNCHANGED <<used, breakerVars>>
  \/ used = "breaker" /\ BreakerNext /\ UNCHANGED <<used, poolVars>>

\* Each guard is scheduled as its own specification says.
GuardsFairness == (used = "pool" => Fairness) /\ (used = "breaker" => BreakerFairness)

GuardsSpec == GuardsInit /\ [][GuardsNext]_guardVars /\ GuardsFairness
=============================================================================
