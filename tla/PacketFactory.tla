--------------------------- MODULE PacketFactory ---------------------------
(***************************************************************************)
(* The packet factory manager (net/packet/factorymanager.cc): createpacket *)
(* and removepacket, which any thread may call at any time.  A packet is   *)
(* made and counted under lock_, but it is entered into allocpackets_, the *)
(* table of what the destructor still has to delete, after the lock has    *)
(* been given up; removepacket takes it out of the table under the lock.   *)
(*                                                                         *)
(* The table is a map of the standard library: two threads in it at once,  *)
(* one of them writing, is undefined.  The model lets the later change be  *)
(* lost, and remembers that it has happened.                               *)
(***************************************************************************)
EXTENDS Naturals, FiniteSets

CONSTANTS
  Threads,         \* the threads that call the manager
  Packets,         \* the packets they can make
  DynamicPackets,  \* those with a dynamic id, which are not counted
  AllocMax         \* NET_PACKET_FACTORYMANAGER_ALLOCMAX

ASSUME FactoryAssumption ==
  /\ IsFiniteSet(Packets) /\ Packets \subseteq Nat \ {0}
  /\ DynamicPackets \subseteq Packets
  /\ AllocMax \in Nat

VARIABLES
  call,   \* where each thread is in the manager
  object, \* the packet its call is about
  lock,   \* the thread that holds lock_
  live,   \* the packets that have been made and not been deleted
  count,  \* the sum of packet_alloccount_
  alloc,  \* allocpackets_
  torn    \* two threads have been in allocpackets_ at once

factory == <<call, object, lock, live, count, alloc, torn>>

NoPacket == 0
Nobody == "nobody"

FactoryInit ==
  /\ call = [t \in Threads |-> "idle"] /\ object = [t \in Threads |-> NoPacket]
  /\ lock = Nobody
  /\ live = {} /\ count = 0 /\ alloc = {} /\ torn = FALSE

\* How much a packet adds to its entry of packet_alloccount_.
Counted(p) == IF p \in DynamicPackets THEN 0 ELSE 1

Moves(t, to) == call' = [call EXCEPT ![t] = to]
Returns(t) ==
  /\ Moves(t, "idle") /\ object' = [object EXCEPT ![t] = NoPacket]

\* A thread calls createpacket or removepacket.
Calls(t, what, p) ==
  /\ call[t] = "idle"
  /\ Moves(t, what) /\ object' = [object EXCEPT ![t] = p]
  /\ UNCHANGED <<lock, live, count, alloc, torn>>

CallCreate(t, p) == p \notin live /\ Calls(t, "create", p)
CallRemove(t, p) == Calls(t, "remove", p)

-----------------------------------------------------------------------------
(* createpacket *)

\* Under the lock, between lock() and unlock().
CreateObject(t) ==
  /\ call[t] = "create" /\ lock = Nobody
  /\ live' = live \cup {object[t]}
  /\ count' = count + Counted(object[t])
  /\ Moves(t, "add")
  /\ UNCHANGED <<object, lock, alloc, torn>>

AddStart(t) ==
  /\ call[t] = "add" /\ Moves(t, "adding")
  /\ UNCHANGED <<object, lock, live, count, alloc, torn>>

\* Another thread is in the table too.
Overlap(t) == \E u \in Threads \ {t} : call[u] \in {"adding", "erasing"}

\* A change of the table, or its loss.
Changes(t, changed) ==
  /\ torn' = (torn \/ Overlap(t))
  /\ alloc' = changed \/ (Overlap(t) /\ alloc' = alloc)

\* A full table takes no more packets, and nobody is told.
AddDone(t) ==
  /\ call[t] = "adding" /\ Returns(t)
  /\ Changes(t, IF Cardinality(alloc) >= AllocMax THEN alloc
                ELSE alloc \cup {object[t]})
  /\ UNCHANGED <<lock, live, count>>

-----------------------------------------------------------------------------
(* removepacket *)

EraseStart(t) ==
  /\ call[t] = "remove" /\ lock = Nobody
  /\ lock' = t /\ Moves(t, "erasing")
  /\ UNCHANGED <<object, live, count, alloc, torn>>

\* Mutant: the packet stays in the table.
EraseKeepsEntry(t) ==
  /\ call[t] = "erasing" /\ lock' = Nobody /\ Returns(t)
  /\ live' = live \ {object[t]}
  /\ count' = count - Counted(object[t])
  /\ Changes(t, alloc)

EraseDone(t) ==
  /\ call[t] = "erasing" /\ lock' = Nobody /\ Returns(t)
  /\ live' = live \ {object[t]}
  /\ count' = count - Counted(object[t])
  /\ Changes(t, alloc \ {object[t]})

FactoryStep(t) ==
  \/ CreateObject(t) \/ AddStart(t) \/ AddDone(t)
  \/ EraseStart(t) \/ EraseDone(t)
=============================================================================
