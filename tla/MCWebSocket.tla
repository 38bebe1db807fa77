---------------------------- MODULE MCWebSocket ----------------------------
(***************************************************************************)
(* WebSocket with two connections and a call of SendMessage, all of one    *)
(* address or one connection of another, and records of two messages.      *)
(***************************************************************************)
EXTENDS WebSocket

CONSTANTS c1, c2, c3

MCPlans == {[c \in {c1, c2, c3} |-> "u1"],
            [c \in {c1, c2, c3} |-> IF c = c2 THEN "u2" ELSE "u1"]}
=============================================================================
