------------------------------- MODULE URLQueue -------------------------------
(***************************************************************************)
(* What a URL queue promises to the crawl workers.  A URL is pending at    *)
(* most once, and whoever takes it is its only owner until the URL is      *)
(* released and may be accepted again.  An accepted URL lands later, when  *)
(* its pusher has put it where a pop looks; until then no pop finds it.  A *)
(* pop that comes back short has left nothing behind that had landed when  *)
(* it began.  Nothing is promised about order.                             *)
(***************************************************************************)
EXTENDS Integers, FiniteSets

CONSTANTS Procs,    \* goroutines that call the queue
          URLs,     \* URLs that may be pushed
          MaxBatch  \* the most URLs a pop may ask for

VARIABLES queued,  \* URLs that have landed and are not yet taken
          coming,  \* coming[p]: URLs accepted from p that have not landed
          taken,   \* taken[p]: URLs that p removed and that are still reserved
          room,    \* room[p]: items that p's pop may still take; 0 out of a pop
          due      \* due[p]: URLs that p's pop is bound to come across

vars == <<queued, coming, taken, room, due>>

Coming == UNION {coming[p] : p \in Procs}
Taken  == UNION {taken[p] : p \in Procs}

Init == /\ queued = {}
        /\ coming = [p \in Procs |-> {}]
        /\ taken = [p \in Procs |-> {}]
        /\ room = [p \in Procs |-> 0]
        /\ due = [p \in Procs |-> {}]

\* A push of a URL that is neither pending nor being taken is accepted.
Accept(p, u) ==
    /\ u \notin queued \cup Coming \cup Taken
    /\ coming' = [coming EXCEPT ![p] = @ \cup {u}]
    /\ UNCHANGED <<queued, taken, room, due>>

\* URLs that p has pushed land; of the pops in progress, those of qs have yet
\* to look where they land, the others may miss them.
Land(p, us, qs) ==
    /\ us # {} /\ us \subseteq coming[p]
    /\ \A q \in qs : room[q] > 0
    /\ queued' = queued \cup us
    /\ coming' = [coming EXCEPT ![p] = @ \ us]
    /\ due' = [q \in Procs |-> IF q \in qs THEN due[q] \cup us ELSE due[q]]
    /\ UNCHANGED <<taken, room>>

\* p begins a pop of up to n items: all that has landed is due to it.
BeginPop(p, n) ==
    /\ room[p] = 0
    /\ room' = [room EXCEPT ![p] = n]
    /\ due' = [due EXCEPT ![p] = queued]
    /\ UNCHANGED <<queued, coming, taken>>

\* p removes landed URLs and becomes their only owner; with its room used up
\* the pop owes nothing more.
Take(p, us) ==
    /\ us # {} /\ us \subseteq queued
    /\ Cardinality(us) <= room[p]
    /\ queued' = queued \ us
    /\ taken' = [taken EXCEPT ![p] = @ \cup us]
    /\ room' = [room EXCEPT ![p] = @ - Cardinality(us)]
    /\ due' = [q \in Procs |-> IF q = p /\ room'[p] = 0 THEN {} ELSE due[q] \ us]
    /\ UNCHANGED coming

\* A pop ends short only if nothing that was due to it is left.
EndShort(p) ==
    /\ room[p] > 0 /\ due[p] = {}
    /\ room' = [room EXCEPT ![p] = 0]
    /\ UNCHANGED <<queued, coming, taken, due>>

\* The reservation of a taken URL ends: it may be pushed again.
Release(p, u) ==
    /\ u \in taken[p]
    /\ taken' = [taken EXCEPT ![p] = @ \ {u}]
    /\ UNCHANGED <<queued, coming, room, due>>

\* Clear forgets every pending URL; it runs alone.
Forget ==
    /\ \A p \in Procs : coming[p] = {} /\ taken[p] = {} /\ room[p] = 0
    /\ queued' = {}
    /\ UNCHANGED <<coming, taken, room, due>>

Next ==
    \/ \E p \in Procs :
        \/ \E u \in URLs : Accept(p, u) \/ Release(p, u)
        \/ \E us \in SUBSET URLs :
            Take(p, us) \/ \E qs \in SUBSET Procs : Land(p, us, qs)
        \/ \E n \in 1 .. MaxBatch : BeginPop(p, n)
        \/ EndShort(p)
    \/ Forget

Spec == Init /\ [][Next]_vars

TypeOK == /\ queued \subseteq URLs
          /\ coming \in [Procs -> SUBSET URLs]
          /\ taken \in [Procs -> SUBSET URLs]
          /\ room \in [Procs -> Nat]
          /\ due \in [Procs -> SUBSET URLs]
===============================================================================
