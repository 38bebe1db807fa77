---------------------------- MODULE PersistentQueue ----------------------------
(***************************************************************************)
(* internal/queue/persistent.go: a queue kept in a bolt database, with a   *)
(* memory buffer of at most MaxMem of its items in front.  One lock makes  *)
(* the calls sequential; within a call each database transaction is a step *)
(* of its own, may fail (Pop ignores that), and the process may crash      *)
(* between any two of them.  The order of items in the buffer is left open. *)
(***************************************************************************)
EXTENDS Integers, FiniteSets

CONSTANTS Keys,        \* the URLs, by which the buckets are keyed
          MaxMem,      \* maxMem; the memory queue's capacity as well
          MaxFaults    \* bound on crashes and failed transactions

ASSUME PersistentQueueConstants == MaxMem \in Nat \ {0} /\ MaxFaults \in Nat

VARIABLES disk,        \* keys of the queue bucket
          visited,     \* keys of the visited bucket
          memory,      \* the memory queue
          stage,       \* where the call holding the lock is
          hand,        \* URLs the call is working on: at most one
          delivered,   \* ghost: URLs that Pop has returned
          owed,        \* ghost: URLs accepted and not returned since
          crashes,     \* crashes so far
          failed,      \* failed transactions so far
          again        \* ghost: URLs that Pop returned once more

durable == <<disk, visited>>
ghosts  == <<delivered, owed, again>>
faults  == <<crashes, failed>>
persistentVars == <<durable, memory, stage, hand, ghosts, faults>>

Labels == {"down", "idle", "pushed", "refilled", "remove", "mark", "return", "clear"}

PersistentInit ==
    /\ disk = {} /\ visited = {} /\ memory = {}
    /\ stage = "idle" /\ hand = {}
    /\ delivered = {} /\ owed = {} /\ again = 0
    /\ crashes = 0 /\ failed = 0

MayFault == crashes + failed < MaxFaults

\* A transaction takes effect, or it fails and changes nothing.
Commit(effect, rollback) ==
    \/ effect /\ UNCHANGED faults
    \/ MayFault /\ failed' = failed + 1 /\ rollback /\ UNCHANGED crashes

\* What a scan that stops after MaxMem items may read of a bucket.
Loads(bucket) ==
    {us \in SUBSET bucket :
        Cardinality(us) = MaxMem \/ (us = bucket /\ Cardinality(us) < MaxMem)}

-------------------------------------------------------------------------------
(* Push.                                                                    *)

\* Mutant: isVisited is not asked.
PushAnything(u) ==
    /\ stage = "idle"
    /\ Commit(/\ disk' = disk \cup {u} /\ owed' = owed \cup {u}
              /\ hand' = {u} /\ stage' = "pushed",
              UNCHANGED <<disk, owed, hand, stage>>)
    /\ UNCHANGED <<visited, memory, delivered, again>>

\* Mutant: an item for which the buffer has room is not written to disk.
PushBuffered(u) ==
    /\ stage = "idle"
    /\ u \notin visited
    /\ disk' = IF Cardinality(memory) < MaxMem THEN disk ELSE disk \cup {u}
    /\ owed' = owed \cup {u}
    /\ hand' = {u} /\ stage' = "pushed"
    /\ UNCHANGED <<visited, memory, delivered, again, faults>>

\* Push writes to disk first; a failed write is an error to the caller.
PushToDisk(u) ==
    /\ stage = "idle"
    /\ u \notin visited
    /\ Commit(/\ disk' = disk \cup {u} /\ owed' = owed \cup {u}
              /\ hand' = {u} /\ stage' = "pushed",
              UNCHANGED <<disk, owed, hand, stage>>)
    /\ UNCHANGED <<visited, memory, delivered, again>>

\* The item enters the buffer if that has room.
PushToMemory ==
    /\ stage = "pushed"
    /\ memory' = IF Cardinality(memory) < MaxMem THEN memory \cup hand ELSE memory
    /\ hand' = {} /\ stage' = "idle"
    /\ UNCHANGED <<durable, ghosts, faults>>

-------------------------------------------------------------------------------
(* Pop: take an item from the buffer, refilled from disk when it is empty;  *)
(* remove it from disk; mark it visited; return it.                         *)

Pop ==
    /\ stage \in {"idle", "refilled"}
    /\ \E u \in memory :
        /\ memory' = memory \ {u}
        /\ hand' = {u}
    /\ stage' = "remove"
    /\ UNCHANGED <<durable, ghosts, faults>>

\* Mutant: the refill reads nothing.
RefillNothing ==
    /\ stage = "idle"
    /\ UNCHANGED persistentVars

\* An empty disk is ErrQueueEmpty.
Refill ==
    /\ stage = "idle"
    /\ memory = {} /\ disk # {}
    /\ memory' \in Loads(disk)
    /\ stage' = "refilled"
    /\ UNCHANGED <<durable, hand, ghosts, faults>>

RemoveFromDisk ==
    /\ stage = "remove"
    /\ Commit(disk' = disk \ hand, UNCHANGED disk)
    /\ stage' = "mark"
    /\ UNCHANGED <<visited, memory, hand, ghosts>>

MarkVisited ==
    /\ stage = "mark"
    /\ Commit(visited' = visited \cup hand, UNCHANGED visited)
    /\ stage' = "return"
    /\ UNCHANGED <<disk, memory, hand, ghosts>>

ReturnItem ==
    /\ stage = "return"
    /\ delivered' = delivered \cup hand
    /\ owed' = owed \ hand
    /\ again' = again + Cardinality(hand \cap delivered)
    /\ hand' = {} /\ stage' = "idle"
    /\ UNCHANGED <<durable, memory, faults>>

-------------------------------------------------------------------------------
(* Clear, Close, and the process.                                           *)

\* The visited bucket stays.
ClearMemory ==
    /\ stage = "idle"
    /\ memory' = {}
    /\ stage' = "clear"
    /\ UNCHANGED <<durable, hand, ghosts, faults>>

ClearDisk ==
    /\ stage = "clear"
    /\ Commit(disk' = {} /\ owed' = {}, UNCHANGED <<disk, owed>>)
    /\ stage' = "idle"
    /\ UNCHANGED <<visited, memory, hand, delivered, again>>

CloseDisk ==
    /\ stage = "idle"
    /\ memory' = {}
    /\ stage' = "down"
    /\ UNCHANGED <<durable, hand, ghosts, faults>>

\* A crash loses the buffer and what the call in progress holds.
Crash ==
    /\ stage # "down" /\ MayFault
    /\ crashes' = crashes + 1
    /\ memory' = {} /\ hand' = {} /\ stage' = "down"
    /\ UNCHANGED <<durable, ghosts, failed>>

\* NewPersistentQueue on the same file.
Restart ==
    /\ stage = "down"
    /\ memory' \in Loads(disk)
    /\ stage' = "idle"
    /\ UNCHANGED <<durable, hand, ghosts, faults>>

-------------------------------------------------------------------------------
Proceed == PushToMemory \/ RemoveFromDisk \/ MarkVisited \/ ReturnItem \/ ClearDisk \/ Restart
Consume == Pop \/ Refill

PersistentNext ==
    \/ \E u \in Keys : PushToDisk(u)
    \/ Consume \/ Proceed \/ ClearMemory \/ CloseDisk \/ Crash

\* Calls end, the process is restarted, and somebody keeps calling Pop.
Fairness == WF_persistentVars(Proceed) /\ SF_persistentVars(Consume)

PersistentSpec == PersistentInit /\ [][PersistentNext]_persistentVars /\ Fairness

-------------------------------------------------------------------------------
(* Properties.                                                              *)

PersistentTypeOK ==
    /\ disk \subseteq Keys /\ visited \subseteq Keys
    /\ memory \subseteq Keys /\ Cardinality(memory) <= MaxMem
    /\ hand \subseteq Keys /\ Cardinality(hand) <= 1
    /\ stage \in Labels
    /\ delivered \subseteq Keys /\ owed \subseteq Keys
    /\ again \in Nat /\ crashes \in Nat /\ failed \in Nat

\* The buffer holds nothing that a crash would lose: whatever fails, a
\* buffered item is on disk until Pop takes it.
BufferIsOnDisk == memory \subseteq disk

\* Each crash loses at most the one item that Pop has removed from disk and
\* not yet returned; a failed transaction loses none.
BoundedLoss == Cardinality(owed \ (disk \cup hand)) <= crashes

\* A URL is returned twice only for a failed removal or a failed mark, at
\* most once for each; crashes alone never cause it.
RedeliveryNeedsFailure == again <= failed

\* Spilled items are reached: while somebody pops, every item on disk leaves it.
EverythingIsPopped == \A u \in Keys : u \in disk ~> u \notin disk
===============================================================================
