----------------------------- MODULE WebSocket -----------------------------
(***************************************************************************)
(* The WebSocket handler (internal/websocket/handler.go).  The crawler     *)
(* starts a goroutine with Connect for every address it comes across, the  *)
(* same one as often as it is found, and reads the endpoints when the      *)
(* crawl ends, without waiting for them; SendMessage may be called for an  *)
(* endpoint that is known.                                                 *)
(*                                                                         *)
(* Every Connect makes a record of its own, named here after its           *)
(* goroutine, and puts it under its address whatever is there.  A goroutine*)
(* keeps a pointer to the record it works for, and goes on with that one   *)
(* when another record has taken its place.                                *)
(***************************************************************************)
EXTENDS Naturals, Sequences, FiniteSets, Counting

CONSTANTS
  Conns,    \* goroutines, each with one call of Connect,
  Senders,  \* and those whose call is one of SendMessage
  URLs,
  Plans,    \* the addresses of the calls: functions from Conns to URLs
  maxMsgs,  \* messages kept in a record
  None

ASSUME ConnsAssumption == IsFiniteSet(Conns)
ASSUME SendersAssumption == Senders \subseteq Conns
ASSUME MaxMsgsAssumption == maxMsgs \in Nat \ {0}
ASSUME PlansAssumption == Plans \subseteq [Conns -> URLs]
ASSUME NoneAssumption == None \notin Conns

VARIABLES
  pc,         \* where each goroutine stands
  url,        \* the address of its call
  info,       \* the record it works for
  endpoints,  \* h.endpoints: the record of each address
  messages,   \* the messages of each record, by the goroutine that recorded them
  cancelled,  \* the crawler's context
  expired,    \* timeoutCtx of a goroutine has expired
  heard       \* history: how many messages a goroutine had for its record,
              \* counted up to maxMsgs

vars == <<pc, url, info, endpoints, messages, cancelled, expired, heard>>

Places == {"idle", "register", "dial", "loop", "read", "record",
           "lookup", "dialToSend", "recordSent", "awaitReply", "recordReply", "done"}

TypeOK ==
  /\ pc \in [Conns -> Places]
  /\ url \in [Conns -> URLs]
  /\ info \in [Conns -> Conns \cup {None}]
  /\ endpoints \in [URLs -> Conns \cup {None}]
  /\ messages \in [Conns -> Seq(Conns)]
  /\ cancelled \in BOOLEAN
  /\ expired \in [Conns -> BOOLEAN]
  /\ heard \in [Conns -> 0..maxMsgs]

Init ==
  /\ pc = [c \in Conns |-> "idle"]
  /\ url \in Plans
  /\ info = [c \in Conns |-> None]
  /\ endpoints = [u \in URLs |-> None]
  /\ messages = [c \in Conns |-> <<>>]
  /\ cancelled = FALSE
  /\ expired = [c \in Conns |-> FALSE]
  /\ heard = [c \in Conns |-> 0]

Goto(c, place) == pc' = [pc EXCEPT ![c] = place]

-----------------------------------------------------------------------------
(***************************************************************************)
(* Connect.                                                                *)
(***************************************************************************)

\* The handler may be disabled: enabled is read without the lock, and only here.
Connect(c) ==
  /\ c \notin Senders /\ pc[c] = "idle"
  /\ Goto(c, "register") \/ Goto(c, "done")
  /\ UNCHANGED <<url, info, endpoints, messages, cancelled, expired, heard>>

\* A new record, in the place of any other.
Register(c) ==
  /\ pc[c] = "register"
  /\ info' = [info EXCEPT ![c] = c]
  /\ endpoints' = [endpoints EXCEPT ![url[c]] = c]
  /\ Goto(c, "dial")
  /\ UNCHANGED <<url, messages, cancelled, expired, heard>>

\* The address is no URL, the server refuses, or the handshake times out; a
\* cancelled context fails too.  Otherwise the time for messages begins.
Dial(c) ==
  /\ pc[c] = "dial"
  /\ \/ ~cancelled /\ Goto(c, "loop")
     \/ Goto(c, "done")
  /\ UNCHANGED <<url, info, endpoints, messages, cancelled, expired, heard>>

\* recordMessages returns, and ends its timeoutCtx.
Leave(c) == Goto(c, "done") /\ expired' = [expired EXCEPT ![c] = TRUE]

\* The head of the loop: is timeoutCtx, a context below the crawler's, done?
\* Mutant: only the read deadline ends the loop, and every message moves it.
DeadlineOnly(c) ==
  /\ pc[c] = "loop"
  /\ Goto(c, "read") /\ UNCHANGED expired
  /\ UNCHANGED <<url, info, endpoints, messages, cancelled, heard>>

CheckTimeout(c) ==
  /\ pc[c] = "loop"
  /\ IF expired[c] \/ cancelled THEN Leave(c)
                                ELSE Goto(c, "read") /\ UNCHANGED expired
  /\ UNCHANGED <<url, info, endpoints, messages, cancelled, heard>>

\* ReadMessage: a message, or an error, of the server or of the deadline.
\* No context interrupts it.
ReadMessage(c) ==
  /\ pc[c] = "read"
  /\ Leave(c) \/ (Goto(c, "record") /\ UNCHANGED expired)
  /\ UNCHANGED <<url, info, endpoints, messages, cancelled, heard>>

-----------------------------------------------------------------------------
\* Mutant: the message goes to the record that the address has now.
KeepByAddress(c) ==
  LET r == endpoints[url[c]]
  IN /\ messages' = IF r # None /\ Len(messages[r]) < maxMsgs
                      THEN [messages EXCEPT ![r] = Append(@, c)]
                      ELSE messages
     /\ heard' = [heard EXCEPT ![c] = IF @ < maxMsgs THEN @ + 1 ELSE @]

\* One message for the goroutine's record, if there is room, under h.mu.
Keep(c) ==
  /\ messages' = IF Len(messages[info[c]]) < maxMsgs
                   THEN [messages EXCEPT ![info[c]] = Append(@, c)]
                   ELSE messages
  /\ heard' = [heard EXCEPT ![c] = IF @ < maxMsgs THEN @ + 1 ELSE @]

Record(c, place, next) ==
  /\ pc[c] = place
  /\ Keep(c)
  /\ Goto(c, next)
  /\ UNCHANGED <<url, info, endpoints, cancelled, expired>>

RecordMessage(c) == Record(c, "record", "loop")
RecordSent(c) == Record(c, "recordSent", "awaitReply")
RecordReply(c) == Record(c, "recordReply", "done")

-----------------------------------------------------------------------------
(***************************************************************************)
(* SendMessage: the record is looked up, and used after the dial.          *)
(***************************************************************************)
SendMessage(c) ==
  /\ c \in Senders /\ pc[c] = "idle"
  /\ Goto(c, "lookup")
  /\ UNCHANGED <<url, info, endpoints, messages, cancelled, expired, heard>>

LookUp(c) ==
  /\ pc[c] = "lookup"
  /\ IF endpoints[url[c]] = None
       THEN Goto(c, "done") /\ UNCHANGED info
       ELSE Goto(c, "dialToSend") /\ info' = [info EXCEPT ![c] = endpoints[url[c]]]
  /\ UNCHANGED <<url, endpoints, messages, cancelled, expired, heard>>

\* The dial and the write: either may fail.
DialToSend(c) ==
  /\ pc[c] = "dialToSend"
  /\ \/ ~cancelled /\ Goto(c, "recordSent")
     \/ Goto(c, "done")
  /\ UNCHANGED <<url, info, endpoints, messages, cancelled, expired, heard>>

AwaitReply(c) ==
  /\ pc[c] = "awaitReply"
  /\ \E next \in {"recordReply", "done"} : Goto(c, next)
  /\ UNCHANGED <<url, info, endpoints, messages, cancelled, expired, heard>>

-----------------------------------------------------------------------------
\* What GetEndpoints returns of an address: a copy of the messages that its
\* record has by then.
GetEndpoints(u) == IF endpoints[u] = None THEN <<>> ELSE messages[endpoints[u]]

Clear ==
  /\ endpoints' = [u \in URLs |-> None]
  /\ UNCHANGED <<pc, url, info, messages, cancelled, expired, heard>>

Cancel ==
  /\ cancelled' = TRUE
  /\ UNCHANGED <<pc, url, info, endpoints, messages, expired, heard>>

\* msgTimeout has passed since recordMessages began.
Expire(c) ==
  /\ pc[c] \in {"loop", "read", "record"}
  /\ expired' = [expired EXCEPT ![c] = TRUE]
  /\ UNCHANGED <<pc, url, info, endpoints, messages, cancelled, heard>>

Step(c) == \/ Register(c) \/ Dial(c) \/ CheckTimeout(c) \/ ReadMessage(c) \/ RecordMessage(c)
           \/ LookUp(c) \/ DialToSend(c) \/ RecordSent(c) \/ AwaitReply(c) \/ RecordReply(c)

Next == \/ \E c \in Conns : Connect(c) \/ SendMessage(c) \/ Step(c) \/ Expire(c)
        \/ Clear \/ Cancel

\* Goroutines run, dials and reads have deadlines, timers fire.
Fairness == \A c \in Conns : WF_vars(Step(c)) /\ WF_vars(Expire(c))

Spec == Init /\ [][Next]_vars /\ Fairness
-----------------------------------------------------------------------------
(***************************************************************************)
(* Properties.                                                             *)
(***************************************************************************)
Least(a, b) == IF a < b THEN a ELSE b

\* A record holds at most maxMsgs messages, and only of goroutines that work
\* for it: of those that share an address, the ones whose record was replaced
\* never write into the one that replaced it.  What is reported of an address
\* was said there.
RecordsOwn ==
  /\ \A r \in Conns :
       /\ Len(messages[r]) <= maxMsgs
       /\ \A i \in DOMAIN messages[r] : info[messages[r][i]] = r
  /\ \A u \in URLs : \A i \in DOMAIN GetEndpoints(u) : url[GetEndpoints(u)[i]] = u

\* What each goroutine has heard for a record.
HeardFor(r) == [c \in Conns |-> IF info[c] = r THEN heard[c] ELSE 0]

\* And nothing is lost: up to maxMsgs a record has all that the goroutines
\* working for it have heard, though it is no endpoint any more.
MessagesKept ==
  /\ RecordsOwn
  /\ \A r \in Conns : Len(messages[r]) = Least(maxMsgs, Total(Conns, HeardFor(r)))

\* Connect and SendMessage return, though the server never stops talking.
CallsReturn == \A c \in Conns : pc[c] # "idle" ~> pc[c] = "done"
=============================================================================
