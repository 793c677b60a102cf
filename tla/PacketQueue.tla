---------------------------- MODULE PacketQueue ----------------------------
(***************************************************************************)
(* The packet queue of a connection manager (cache_ in                     *)
(* net/connection/manager/base.cc): threads hand packets over with         *)
(* sendpacket, the thread that runs the tick takes them out and executes   *)
(* them in process_cachecommand.  sendpacket and recvpacket run under      *)
(* lock_, so each is one step; a packet that has been taken is executed    *)
(* outside the lock, with sends (also of its own handler) in between.      *)
(*                                                                         *)
(* head and tail run from 0 to size, so they also use the cell behind the  *)
(* array of size cells.  What lies there is the allocator's: padding that  *)
(* is zero and left alone (a large array of glibc, mapped by itself), or a *)
(* foreign word that is no packet and not zero (a small one: the size of   *)
(* the next chunk).  Every array the model allocates chooses one of them.  *)
(*                                                                         *)
(* Packets are numbered in the order in which they are sent.  What becomes *)
(* of a packet is told apart by its kind: "plain" is executed and removed, *)
(* "flagged" carries kPacketFlagRemove, "stray" names no connection.       *)
(***************************************************************************)
EXTENDS Naturals, Sequences

CONSTANTS
  CacheSize,    \* NET_MANAGER_CACHE_SIZE: first size and increment
  MaxPackets    \* bound: packets sent in a behaviour

ASSUME CacheAssumption == CacheSize \in Nat \ {0}
ASSUME PacketsAssumption == MaxPackets \in Nat

VARIABLES
  queue, head, tail, size,  \* cache_: packets by cell (Null: free), indices
  kinds,                    \* kinds of the packets sent so far
  pc, i, packet,            \* process_cachecommand: control, loop index, packet in hand
  taken,                    \* packets received, in order
  removed,                  \* packets given back to the factory
  overrun                   \* history: an index met a foreign word and it was used

cache == <<queue, head, tail, size>>
vars == <<queue, head, tail, size, kinds, pc, i, packet, taken, removed, overrun>>

Null == 0
Packets == 1 .. MaxPackets
Foreign == MaxPackets + 1   \* a word that is no packet, taken for one
Behind == {Null, Foreign}   \* what may lie behind an array
Kinds == {"plain", "flagged", "stray"}

TypeOK ==
  /\ size \in Nat \ {0}
  /\ queue \in [0 .. size -> Packets \cup Behind]
  /\ head \in 0 .. size /\ tail \in 0 .. size
  /\ kinds \in Seq(Kinds) /\ Len(kinds) <= MaxPackets
  /\ pc \in {"idle", "receive", "execute", "crashed"} /\ i \in Nat
  /\ packet \in Packets \cup Behind
  /\ taken \in Seq(Packets) /\ removed \subseteq Packets
  /\ overrun \in BOOLEAN

Init ==
  /\ \E word \in Behind :
       queue = [j \in 0 .. CacheSize |-> IF j = CacheSize THEN word ELSE Null]
  /\ head = 0 /\ tail = 0 /\ size = CacheSize
  /\ kinds = <<>>
  /\ pc = "idle" /\ i = 0 /\ packet = Null
  /\ taken = <<>> /\ removed = {} /\ overrun = FALSE

-----------------------------------------------------------------------------
(* sendpacket *)

\* Mutant: the index may run one cell further.
SuccessorLate(j, sz) == IF j > sz THEN 0 ELSE j + 1

Successor(j, sz) == IF j + 1 > sz THEN 0 ELSE j + 1

\* Mutant: the part of the array before head is not moved behind the rest.
GrownUnrolled(word) ==
  [j \in 0 .. size + CacheSize |->
     IF j < size THEN queue[j] ELSE IF j = size + CacheSize THEN word ELSE Null]

\* cacheresize copies from head on, then from the start of the array; only
\* size cells take part, the one behind the array is left.  word is what lies
\* behind the new array.
Grown(word) ==
  [j \in 0 .. size + CacheSize |->
     IF j = size + CacheSize THEN word
     ELSE IF head < tail
     THEN IF j < tail - head THEN queue[head + j] ELSE Null
     ELSE IF j < size - head THEN queue[head + j]
     ELSE IF j < size - head + tail THEN queue[j - (size - head)]
     ELSE Null]

NewPacket(kind) ==
  /\ pc # "crashed" /\ Len(kinds) < MaxPackets
  /\ kinds' = Append(kinds, kind)
Sent == Len(kinds)

Send(kind) ==
  /\ NewPacket(kind) /\ queue[tail] = Null
  /\ queue' = [queue EXCEPT ![tail] = Sent + 1]
  /\ tail' = Successor(tail, size)
  /\ UNCHANGED <<head, size, pc, i, packet, taken, removed, overrun>>

\* Mutant: head is left where it was.
GrowKeepsHead(kind) ==
  /\ NewPacket(kind) /\ queue[tail] # Null
  /\ \E word \in Behind : queue' = [Grown(word) EXCEPT ![size] = Sent + 1]
  /\ tail' = Successor(size, size + CacheSize) /\ size' = size + CacheSize
  /\ overrun' = (overrun \/ queue[tail] = Foreign)
  /\ UNCHANGED <<head, pc, i, packet, taken, removed>>

\* The cell at the tail is not free: the array is replaced by a longer one.  A
\* foreign word at the tail looks like a full ring: when head has moved on, free
\* cells are left before the new packet, and recvpacket does not cross them.
SendGrowing(kind) ==
  /\ NewPacket(kind) /\ queue[tail] # Null
  /\ \E word \in Behind : queue' = [Grown(word) EXCEPT ![size] = Sent + 1]
  /\ head' = 0 /\ size' = size + CacheSize
  /\ tail' = Successor(size, size + CacheSize)
  /\ overrun' = (overrun \/ queue[tail] = Foreign)
  /\ UNCHANGED <<pc, i, packet, taken, removed>>

-----------------------------------------------------------------------------
(* process_cachecommand *)

Start ==
  /\ pc = "idle"
  /\ pc' = "receive" /\ i' = 0
  /\ UNCHANGED <<cache, kinds, packet, taken, removed, overrun>>

\* Mutant: the cell is not cleared.
TakeKeeps ==
  /\ packet' = queue[head]
  /\ queue' = queue
  /\ head' = Successor(head, size)

\* recvpacket
Take ==
  /\ packet' = queue[head]
  /\ queue' = [queue EXCEPT ![head] = Null]
  /\ head' = Successor(head, size)

Receive ==
  /\ pc = "receive" /\ i < size /\ queue[head] \in Packets
  /\ Take
  /\ taken' = Append(taken, queue[head])
  /\ pc' = "execute"
  /\ UNCHANGED <<tail, size, kinds, i, removed, overrun>>

\* The queue is drained up to the end of the array, and the word behind it is
\* taken for a packet.
ReceiveForeign ==
  /\ pc = "receive" /\ i < size /\ queue[head] = Foreign
  /\ Take
  /\ pc' = "execute" /\ overrun' = TRUE
  /\ UNCHANGED <<tail, size, kinds, i, taken, removed>>

\* size is read outside the lock; it only grows.
ReceiveDone ==
  /\ pc = "receive" /\ (i >= size \/ queue[head] = Null)
  /\ pc' = "idle" /\ i' = 0
  /\ UNCHANGED <<cache, kinds, packet, taken, removed, overrun>>

\* The packet in hand is one, of this kind.
Executes(kind) == pc = "execute" /\ packet \in Packets /\ kinds[packet] = kind

\* Whatever execute() returns or throws, the result is not kept: the packet is
\* removed and the loop goes on.
ExecutePlain ==
  /\ Executes("plain")
  /\ removed' = removed \cup {packet}
  /\ packet' = Null
  /\ pc' = "receive" /\ i' = i + 1
  /\ UNCHANGED <<cache, kinds, taken, overrun>>

\* A flagged packet ends the loop: the rest waits for the next tick.
ExecuteFlagged ==
  /\ Executes("flagged")
  /\ removed' = removed \cup {packet}
  /\ packet' = Null
  /\ pc' = "idle" /\ i' = 0
  /\ UNCHANGED <<cache, kinds, taken, overrun>>

\* Assert(false) throws: the packet is never given back.
ExecuteStray ==
  /\ Executes("stray")
  /\ packet' = Null
  /\ pc' = "idle" /\ i' = 0
  /\ UNCHANGED <<cache, kinds, taken, removed, overrun>>

\* Every way through the loop calls a method of the packet: the foreign word is
\* followed as a pointer, and the process ends.
ExecuteForeign ==
  /\ pc = "execute" /\ packet = Foreign
  /\ pc' = "crashed"
  /\ UNCHANGED <<cache, kinds, i, packet, taken, removed, overrun>>

Process ==
  \/ Start \/ Receive \/ ReceiveForeign \/ ReceiveDone
  \/ ExecutePlain \/ ExecuteFlagged \/ ExecuteStray \/ ExecuteForeign

Next == Process \/ \E kind \in Kinds : Send(kind) \/ SendGrowing(kind)

\* tick() is called for ever.
Spec == Init /\ [][Next]_vars /\ WF_vars(Process)

-----------------------------------------------------------------------------
(* Properties *)

InQueue == {queue[j] : j \in 0 .. size} \cap Packets

\* Nobody uses a packet after it has been given back, and no packet is held
\* twice: it is in one cell, or in hand, or removed.  This stays so after an
\* index has met a foreign word (net/connection/manager/base.cc:547, 566, 673).
OneHolder ==
  /\ \A j, k \in 0 .. size : queue[j] = queue[k] /\ queue[j] \in Packets => j = k
  /\ packet \notin InQueue /\ packet \notin removed
  /\ InQueue \cap removed = {}

\* The cells from head on, up to tail.
Waiting ==
  LET n == IF queue[head] \notin Packets THEN 0
           ELSE IF head < tail THEN tail - head ELSE tail + size + 1 - head
  IN  [j \in 1 .. n |-> queue[(head + j - 1) % (size + 1)]]

\* The ring, with its wrap-around and its growth, is a queue that loses at
\* most one packet, and only when it grows, until an index meets a foreign word
\* behind the array; from then on each packet is still taken at most once
\* (net/connection/manager/base.cc:547, 654, 673).
Channel == INSTANCE PacketChannel WITH waiting <- Waiting, broken <- overrun
ImplementsChannel == Channel!Spec

\* However many ticks the flagged and the stray packets end early, a packet in
\* the queue is taken in the end, or lost to a growth of the queue, or behind a
\* foreign word (net/connection/manager/base.cc:566, 583).
Drained == \A p \in Packets : p \in InQueue ~> p \notin InQueue \/ overrun
=============================================================================
