-------------------------- MODULE MCPersistentQueue --------------------------
(* Three URLs and a buffer of two for PersistentQueue. *)
EXTENDS PersistentQueue, TLC

CONSTANTS u1, u2, u3
===============================================================================
