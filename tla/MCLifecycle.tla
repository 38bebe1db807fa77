----------------------------- MODULE MCLifecycle -----------------------------
(* Two workers, a caller of Stop and the listener, for Lifecycle. *)
EXTENDS Lifecycle, TLC

CONSTANTS w1, w2, stopper, listener
===============================================================================
