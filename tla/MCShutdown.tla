------------------------------ MODULE MCShutdown ------------------------------
(* Two goroutines and three callbacks for Shutdown. *)
EXTENDS Shutdown, TLC

CONSTANTS p1, p2, p3, c1, c2, c3
===============================================================================
