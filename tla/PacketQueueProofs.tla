------------------------- MODULE PacketQueueProofs -------------------------
(* Proofs about PacketQueue, for any size of the cache and number of packets. *)
EXTENDS PacketQueue, Integers, SequenceTheorems, TLAPS

\* The cells that hold packets: from head on up to tail, all when it is full.
Inside(k) ==
  /\ queue[head] \in Packets
  /\ IF head < tail THEN head <= k /\ k < tail ELSE head <= k \/ k < tail

\* How far cell k is behind head.
From(k) == IF head <= k THEN k - head ELSE k + size + 1 - head

\* As long as no foreign word has been used, the ring is one.
RingInv ==
  /\ head # tail => queue[head] \in Packets
  /\ \A k \in 0 .. size : queue[k] \in Packets <=> Inside(k)
  /\ \A k, l \in 0 .. size :
       Inside(k) /\ Inside(l) /\ From(k) < From(l) => queue[k] < queue[l]

\* Every packet met has been sent, and is in one place, whatever was used.
HeldInv ==
  /\ pc \in {"idle", "receive"} => packet = Null
  /\ pc = "execute" => packet # Null
  /\ packet \in Packets => packet <= Len(kinds)
  /\ \A p \in removed : p <= Len(kinds)
  /\ \A p \in InQueue : p <= Len(kinds)
  /\ \A j \in DOMAIN taken : taken[j] <= Len(kinds) /\ taken[j] \notin InQueue
  /\ OneHolder

QueueInv == TypeOK /\ HeldInv /\ (~overrun => RingInv)

-----------------------------------------------------------------------------
(* The invariant *)

LEMMA QueueInit == Init => QueueInv
<1> SUFFICES ASSUME Init PROVE QueueInv OBVIOUS
<1> USE CacheAssumption, PacketsAssumption DEF Init, Null
<1>0. \A k \in 0 .. CacheSize : queue[k] \in Behind /\ queue[k] \notin Packets
  BY DEF Behind, Foreign, Packets
<1>1. TypeOK BY <1>0, EmptySeq DEF TypeOK, Behind
<1>2. RingInv BY <1>0 DEF RingInv, Inside
<1>3. InQueue = {} BY <1>0 DEF InQueue
<1>4. HeldInv
  <2>1. DOMAIN taken = {} /\ Len(kinds) = 0 BY EmptySeq
  <2>2. OneHolder BY <1>0, <1>3 DEF OneHolder
  <2> QED BY <1>3, <2>1, <2>2 DEF HeldInv, Packets
<1> QED BY <1>1, <1>2, <1>4 DEF QueueInv

LEMMA NewPacketIs ==
  ASSUME TypeOK, NEW kind \in Kinds, NewPacket(kind)
  PROVE  /\ kinds' \in Seq(Kinds) /\ Len(kinds') = Len(kinds) + 1
         /\ Len(kinds') <= MaxPackets
         /\ Len(kinds) \in Nat /\ Sent + 1 \in Packets
         /\ Sent = Len(kinds)
BY AppendProperties, LenProperties, PacketsAssumption
   DEF TypeOK, NewPacket, Sent, Packets

\* The cells hold what they held, at other places, and a new packet at one.
LEMMA HeldMoves ==
  ASSUME TypeOK, HeldInv, NEW kind \in Kinds, NewPacket(kind),
         UNCHANGED <<pc, packet, taken, removed>>,
         NEW at \in 0 .. size', NEW source,
         \A k \in 0 .. size' : queue'[k] \in Packets =>
           \/ k = at /\ queue'[k] = Sent + 1
           \/ /\ k # at /\ source[k] \in 0 .. size
              /\ queue'[k] = queue[source[k]]
              /\ \A l \in 0 .. size' :
                   l # at /\ queue'[l] \in Packets /\ source[k] = source[l] => k = l
  PROVE  HeldInv'
<1>0. /\ Len(kinds') = Len(kinds) + 1 /\ Len(kinds) \in Nat
      /\ Sent + 1 \in Packets /\ Sent = Len(kinds)
  BY NewPacketIs
<1>1. /\ \A p \in InQueue : p \in Nat /\ p <= Len(kinds)
      /\ \A p \in removed : p \in Nat /\ p <= Len(kinds)
      /\ packet \in Packets => packet <= Len(kinds)
      /\ \A j \in DOMAIN taken :
           taken[j] \in Packets /\ taken[j] <= Len(kinds) /\ taken[j] \notin InQueue
      /\ packet \notin InQueue /\ packet \notin removed
      /\ InQueue \cap removed = {}
  <2>1. \A j \in DOMAIN taken : taken[j] \in Packets
    BY ElementOfSeq, LenProperties DEF TypeOK
  <2> QED BY <2>1 DEF HeldInv, OneHolder, TypeOK, InQueue, Packets
<1>2. ASSUME NEW p \in InQueue' PROVE p = Sent + 1 \/ p \in InQueue
  <2>1. PICK k \in 0 .. size' : queue'[k] = p /\ p \in Packets
    BY <1>2 DEF InQueue
  <2> QED BY <2>1 DEF InQueue
<1>3. \A p \in InQueue' : p <= Len(kinds') BY <1>0, <1>1, <1>2
<1>4. \A p \in removed' : p <= Len(kinds') BY <1>0, <1>1
<1>5. Sent + 1 \notin removed /\ Sent + 1 # packet
  BY <1>0, <1>1
<1>6. ASSUME NEW j \in DOMAIN taken
      PROVE  taken[j] <= Len(kinds') /\ taken[j] \notin InQueue'
  BY <1>0, <1>1, <1>2 DEF Packets
<1>7. OneHolder'
  <2>1. ASSUME NEW j \in 0 .. size', NEW k \in 0 .. size',
               queue'[j] = queue'[k], queue'[j] \in Packets
        PROVE  j = k
    <3>1. ASSUME NEW c \in 0 .. size, queue[c] \in Packets PROVE queue[c] # Sent + 1
      <4>1. queue[c] \in InQueue BY <3>1 DEF InQueue
      <4> QED BY <4>1, <1>0, <1>1
    <3>2. CASE j = at /\ k = at BY <3>2
    <3>3. CASE j = at /\ k # at BY <2>1, <3>1, <3>3
    <3>4. CASE j # at /\ k = at BY <2>1, <3>1, <3>4
    <3>5. CASE j # at /\ k # at
      <4>1. /\ source[j] \in 0 .. size /\ queue'[j] = queue[source[j]]
            /\ source[k] \in 0 .. size /\ queue'[k] = queue[source[k]]
        BY <2>1, <3>5
      <4>2. source[j] = source[k] BY <2>1, <4>1 DEF HeldInv, OneHolder
      <4> QED BY <2>1, <3>5, <4>2
    <3> QED BY <3>2, <3>3, <3>4, <3>5
  <2>2. packet \notin InQueue' BY <1>1, <1>2, <1>5
  <2>3. InQueue' \cap removed = {} BY <1>1, <1>2, <1>5
  <2> QED BY <1>1, <2>1, <2>2, <2>3 DEF OneHolder
<1>8. (packet \in Packets => packet <= Len(kinds))'
  BY <1>0, <1>1 DEF Packets
<1> QED BY <1>3, <1>4, <1>6, <1>7, <1>8 DEF HeldInv

LEMMA SendKeeps ==
  ASSUME QueueInv, NEW kind \in Kinds, Send(kind) PROVE QueueInv'
<1> USE DEF QueueInv, Send
<1>0. /\ kinds' \in Seq(Kinds) /\ Len(kinds') = Len(kinds) + 1
      /\ Len(kinds') <= MaxPackets
      /\ Len(kinds) \in Nat /\ Sent + 1 \in Packets /\ Sent = Len(kinds)
  BY NewPacketIs
<1>1. tail' \in 0 .. size
  BY CacheAssumption DEF TypeOK, Successor
<1>2. TypeOK' BY <1>0, <1>1 DEF TypeOK
<1>3. \A k \in 0 .. size : queue'[k] = IF k = tail THEN Sent + 1 ELSE queue[k]
  BY DEF TypeOK
<1>4. HeldInv'
  <2> DEFINE source == [k \in 0 .. size |-> k]
  <2>1. \A k \in 0 .. size' : source[k] = k /\ k \in 0 .. size OBVIOUS
  <2>2. tail \in 0 .. size' BY DEF TypeOK
  <2> HIDE DEF source
  <2>3. \A k \in 0 .. size' : queue'[k] \in Packets =>
          \/ k = tail /\ queue'[k] = Sent + 1
          \/ /\ k # tail /\ source[k] \in 0 .. size
             /\ queue'[k] = queue[source[k]]
             /\ \A l \in 0 .. size' :
                  l # tail /\ queue'[l] \in Packets /\ source[k] = source[l] => k = l
    BY <1>3, <2>1
  <2> QED BY <2>2, <2>3, HeldMoves
<1>5. ASSUME ~overrun PROVE RingInv'
  <2>0. RingInv /\ queue[tail] \notin Packets /\ TypeOK
    BY <1>5 DEF Packets, Null
  <2>1. \A k \in 0 .. size : Inside(k)' <=> Inside(k) \/ k = tail
    BY <1>0, <1>3, <2>0 DEF TypeOK, RingInv, Inside, Successor
  <2>2. ASSUME NEW k \in 0 .. size, Inside(k) PROVE From(k) < From(tail)
    BY <2>0, <2>2 DEF TypeOK, RingInv, Inside, From
  <2>3. (head # tail => queue[head] \in Packets)'
    BY <1>0, <1>3, <2>0 DEF TypeOK, RingInv, Successor
  <2>4. (\A k \in 0 .. size : queue[k] \in Packets <=> Inside(k))'
    BY <1>0, <1>3, <2>0, <2>1 DEF RingInv
  <2>5. ASSUME NEW k \in 0 .. size, NEW l \in 0 .. size,
               Inside(k)', Inside(l)', From(k) < From(l)
        PROVE  queue'[k] < queue'[l]
    <3>1. k # tail
      BY <2>0, <2>1, <2>2, <2>5 DEF TypeOK, From
    <3>2. CASE l = tail
      <4>1. Inside(k) /\ queue'[k] = queue[k] /\ queue'[l] = Sent + 1
        BY <1>3, <2>1, <2>5, <3>1, <3>2
      <4>2. queue[k] \in Packets /\ queue[k] \in InQueue
        BY <4>1, <2>0 DEF RingInv, InQueue
      <4>3. queue[k] <= Len(kinds) BY <4>2 DEF HeldInv
      <4> QED BY <4>1, <4>2, <4>3, <1>0 DEF Packets
    <3>3. CASE l # tail
      BY <1>3, <2>0, <2>1, <2>5, <3>1, <3>3 DEF RingInv
    <3> QED BY <3>2, <3>3
  <2> QED BY <2>3, <2>4, <2>5 DEF RingInv, From
<1> QED BY <1>2, <1>4, <1>5

\* A ring with a packet at its tail is full.
LEMMA RingFull ==
  ASSUME TypeOK, RingInv, queue[tail] \in Packets
  PROVE  head = tail /\ \A k \in 0 .. size : queue[k] \in Packets /\ Inside(k)
BY DEF TypeOK, RingInv, Inside

\* Where the cell k of the longer array was in the old one.
Source(k) == IF k < size - head THEN head + k ELSE k - (size - head)

\* What the ring holds after it has grown.
LEMMA GrownIs ==
  ASSUME TypeOK, NEW kind \in Kinds, SendGrowing(kind)
  PROVE  /\ size' \in Nat /\ size' >= size + 1 /\ tail' = size + 1 /\ head' = 0
         /\ queue' \in [0 .. size' -> Packets \cup Behind]
         /\ queue'[size] = Sent + 1
         /\ \A k \in 0 .. size' : k > size => queue'[k] \notin Packets
         /\ \A k \in 0 .. size - 1 :
              /\ Source(k) \in 0 .. size
              /\ queue'[k] \in Packets =>
                   /\ queue'[k] = queue[Source(k)]
                   /\ k < size - head \/ (tail <= head /\ k < size - head + tail)
              /\ head = tail => queue'[k] = queue[Source(k)]
<1> USE DEF SendGrowing
<1>0. Sent + 1 \in Packets BY NewPacketIs
<1>1. /\ size \in Nat \ {0} /\ head \in 0 .. size /\ tail \in 0 .. size
      /\ queue \in [0 .. size -> Packets \cup Behind]
  BY DEF TypeOK
<1>2. size' = size + CacheSize /\ size' \in Nat /\ size' >= size + 1
      /\ tail' = size + 1 /\ head' = 0
  BY <1>1, CacheAssumption DEF Successor
<1>3. PICK word \in Behind : queue' = [Grown(word) EXCEPT ![size] = Sent + 1]
  OBVIOUS
<1>4. \A k \in 0 .. size' : queue'[k] = IF k = size THEN Sent + 1 ELSE Grown(word)[k]
  BY <1>1, <1>2, <1>3 DEF Grown
<1>5. \A k \in 0 .. size' : Grown(word)[k] =
        IF k = size' THEN word
        ELSE IF head < tail
        THEN IF k < tail - head THEN queue[head + k] ELSE Null
        ELSE IF k < size - head THEN queue[head + k]
        ELSE IF k < size - head + tail THEN queue[k - (size - head)]
        ELSE Null
  BY <1>2 DEF Grown
<1>6. Null \in Behind /\ \A w \in Behind : w \notin Packets
  BY PacketsAssumption DEF Behind, Null, Foreign, Packets
<1>7. ASSUME NEW k \in 0 .. size', k > size
      PROVE  queue'[k] \in Behind /\ queue'[k] \notin Packets
  BY <1>1, <1>4, <1>5, <1>6, <1>7
<1>8. ASSUME NEW k \in 0 .. size - 1
      PROVE  /\ Source(k) \in 0 .. size
             /\ queue'[k] \in {queue[Source(k)], Null}
             /\ queue'[k] # Null =>
                  k < size - head \/ (tail <= head /\ k < size - head + tail)
             /\ head = tail => queue'[k] = queue[Source(k)]
  <2>1. queue'[k] = IF head < tail
                    THEN IF k < tail - head THEN queue[head + k] ELSE Null
                    ELSE IF k < size - head THEN queue[head + k]
                    ELSE IF k < size - head + tail THEN queue[k - (size - head)]
                    ELSE Null
    BY <1>1, <1>2, <1>4, <1>5
  <2> QED BY <2>1, <1>1 DEF Source
<1>9. ASSUME NEW k \in 0 .. size' PROVE queue'[k] \in Packets \cup Behind
  <2>1. CASE k < size
    <3>1. k \in 0 .. size - 1 BY <2>1, <1>1
    <3> QED BY <3>1, <1>1, <1>6, <1>8
  <2>2. CASE k = size BY <2>2, <1>0, <1>4
  <2>3. CASE k > size BY <2>3, <1>7
  <2> QED BY <2>1, <2>2, <2>3, <1>1
<1>10. queue' \in [0 .. size' -> Packets \cup Behind]
  BY <1>2, <1>3, <1>9 DEF Grown
<1>11. queue'[size] = Sent + 1 BY <1>1, <1>2, <1>4
<1>12. \A k \in 0 .. size - 1 : queue'[k] \in Packets => queue'[k] # Null
  BY <1>6
<1> QED BY <1>2, <1>7, <1>8, <1>10, <1>11, <1>12

LEMMA GrowingHolds ==
  ASSUME QueueInv, NEW kind \in Kinds, SendGrowing(kind)
  PROVE  TypeOK' /\ HeldInv'
<1>1. /\ TypeOK /\ HeldInv /\ NewPacket(kind)
      /\ UNCHANGED <<pc, i, packet, taken, removed>> /\ overrun' \in BOOLEAN
  BY DEF QueueInv, SendGrowing, TypeOK
<1>2. /\ kinds' \in Seq(Kinds) /\ Len(kinds') <= MaxPackets
  BY <1>1, NewPacketIs
<1>3. /\ size' \in Nat /\ size' >= size + 1 /\ tail' = size + 1 /\ head' = 0
      /\ queue' \in [0 .. size' -> Packets \cup Behind]
      /\ queue'[size] = Sent + 1
      /\ \A k \in 0 .. size' : k > size => queue'[k] \notin Packets
      /\ \A k \in 0 .. size - 1 :
           /\ Source(k) \in 0 .. size
           /\ queue'[k] \in Packets =>
                /\ queue'[k] = queue[Source(k)]
                /\ k < size - head \/ (tail <= head /\ k < size - head + tail)
  BY <1>1, GrownIs
<1>4. size \in Nat \ {0} /\ head \in 0 .. size /\ tail \in 0 .. size
  BY <1>1 DEF TypeOK
<1>5. TypeOK' BY <1>1, <1>2, <1>3, <1>4 DEF TypeOK
<1> DEFINE source == [k \in 0 .. size' |-> Source(k)]
<1>6. \A k \in 0 .. size' : source[k] = Source(k) OBVIOUS
<1>7. size \in 0 .. size' BY <1>3, <1>4
<1> HIDE DEF source
<1>8. ASSUME NEW k \in 0 .. size', queue'[k] \in Packets, k # size
      PROVE  /\ source[k] \in 0 .. size /\ queue'[k] = queue[source[k]]
             /\ k \in 0 .. size - 1
             /\ k < size - head \/ (tail <= head /\ k < size - head + tail)
  <2>1. k \in 0 .. size - 1 BY <1>3, <1>4, <1>8
  <2> QED BY <2>1, <1>3, <1>6, <1>8
<1>9. ASSUME NEW k \in 0 .. size', NEW l \in 0 .. size', k # size, l # size,
             queue'[k] \in Packets, queue'[l] \in Packets, source[k] = source[l]
      PROVE  k = l
  <2>1. /\ k < size - head \/ (tail <= head /\ k < size - head + tail)
        /\ l < size - head \/ (tail <= head /\ l < size - head + tail)
    BY <1>8, <1>9
  <2>2. Source(k) = Source(l) BY <1>6, <1>9
  <2> QED BY <2>1, <2>2, <1>3, <1>4 DEF Source
<1>10. HeldInv'
  <2>1. \A k \in 0 .. size' : queue'[k] \in Packets =>
          \/ k = size /\ queue'[k] = Sent + 1
          \/ /\ k # size /\ source[k] \in 0 .. size
             /\ queue'[k] = queue[source[k]]
             /\ \A l \in 0 .. size' :
                  l # size /\ queue'[l] \in Packets /\ source[k] = source[l] => k = l
    BY <1>3, <1>8, <1>9
  <2> QED BY <1>1, <1>7, <2>1, HeldMoves
<1> QED BY <1>5, <1>10

\* A ring that grows with a packet at its tail was full.
LEMMA GrowingKeepsRing ==
  ASSUME QueueInv, NEW kind \in Kinds, SendGrowing(kind), ~overrun'
  PROVE  /\ ~overrun /\ RingInv /\ RingInv'
         /\ head = tail /\ queue[tail] \in Packets
<1>1. /\ TypeOK /\ HeldInv /\ ~overrun /\ queue[tail] \notin Behind /\ RingInv
  BY DEF QueueInv, SendGrowing, Behind, TypeOK
<1>2. /\ head = tail /\ \A k \in 0 .. size : queue[k] \in Packets /\ Inside(k)
      /\ size \in Nat \ {0} /\ head \in 0 .. size
      /\ queue \in [0 .. size -> Packets \cup Behind]
      /\ queue[tail] \in Packets
  <2>1. queue[tail] \in Packets BY <1>1 DEF TypeOK
  <2> QED BY <1>1, <2>1, RingFull DEF TypeOK
<1>3. /\ size' \in Nat /\ size' >= size + 1 /\ tail' = size + 1 /\ head' = 0
      /\ queue'[size] = Sent + 1
      /\ \A k \in 0 .. size' : k > size => queue'[k] \notin Packets
      /\ \A k \in 0 .. size - 1 :
           Source(k) \in 0 .. size /\ queue'[k] = queue[Source(k)]
  BY <1>1, <1>2, GrownIs
<1>4. Sent + 1 \in Packets /\ Sent = Len(kinds) /\ Len(kinds) \in Nat
  BY <1>1, NewPacketIs DEF SendGrowing
<1>5. \A k \in 0 .. size' : queue'[k] \in Packets <=> k <= size
  <2> SUFFICES ASSUME NEW k \in 0 .. size' PROVE queue'[k] \in Packets <=> k <= size
    OBVIOUS
  <2>1. CASE k < size
    <3>1. k \in 0 .. size - 1 BY <2>1, <1>2
    <3> QED BY <2>1, <3>1, <1>2, <1>3
  <2>2. CASE k = size BY <2>2, <1>3, <1>4
  <2>3. CASE k > size BY <2>3, <1>2, <1>3
  <2> QED BY <2>1, <2>2, <2>3, <1>2
<1>6. \A k \in 0 .. size' : Inside(k)' <=> k <= size
  BY <1>2, <1>3, <1>5 DEF Inside
<1>7. (head # tail => queue[head] \in Packets)' BY <1>2, <1>3, <1>5
<1>8. ASSUME NEW k \in 0 .. size', NEW l \in 0 .. size',
             k <= size, l <= size, k < l
      PROVE  queue'[k] < queue'[l]
  <2>1. k \in 0 .. size - 1 BY <1>8, <1>2
  <2>2. Source(k) \in 0 .. size /\ queue'[k] = queue[Source(k)] BY <2>1, <1>3
  <2>3. CASE l = size
    <3>1. queue[Source(k)] \in InQueue BY <2>2, <1>2 DEF InQueue
    <3>2. queue[Source(k)] <= Len(kinds) BY <3>1, <1>1 DEF HeldInv
    <3> QED BY <2>2, <2>3, <3>1, <3>2, <1>3, <1>4 DEF InQueue, Packets
  <2>4. CASE l # size
    <3>1. l \in 0 .. size - 1 BY <1>8, <2>4, <1>2
    <3>2. Source(l) \in 0 .. size /\ queue'[l] = queue[Source(l)] BY <3>1, <1>3
    <3>3. From(Source(k)) < From(Source(l))
      BY <1>8, <2>1, <3>1, <1>2 DEF Source, From
    <3> QED BY <2>2, <3>2, <3>3, <1>1, <1>2 DEF RingInv
  <2> QED BY <2>3, <2>4
<1>9. \A k \in 0 .. size' : From(k)' = k BY <1>3 DEF From
<1>10. RingInv' BY <1>5, <1>6, <1>7, <1>8, <1>9 DEF RingInv
<1> QED BY <1>1, <1>2, <1>10

LEMMA SendGrowingKeeps ==
  ASSUME QueueInv, NEW kind \in Kinds, SendGrowing(kind) PROVE QueueInv'
BY GrowingHolds, GrowingKeepsRing DEF QueueInv

\* A packet or a foreign word leaves the ring.
LEMMA TakeHolds ==
  ASSUME QueueInv, Receive \/ ReceiveForeign PROVE TypeOK' /\ HeldInv'
<1> USE DEF QueueInv
<1>0. /\ UNCHANGED <<tail, size, kinds, i, removed>> /\ pc = "receive"
      /\ packet' = queue[head] /\ pc' = "execute" /\ overrun' \in BOOLEAN
      /\ head' = IF head + 1 > size THEN 0 ELSE head + 1
      /\ queue' = [queue EXCEPT ![head] = Null]
      /\ queue[head] \in Packets => taken' = Append(taken, queue[head])
      /\ queue[head] \notin Packets => taken' = taken
      /\ queue[head] # Null
      /\ Null \notin Packets /\ Foreign \notin Packets
      /\ Null \in Behind /\ Foreign \in Behind
  <2>1. /\ Null \notin Packets /\ Foreign \notin Packets /\ Foreign # Null
        /\ Null \in Behind /\ Foreign \in Behind
    BY PacketsAssumption DEF Null, Foreign, Packets, Behind
  <2>2. overrun' \in BOOLEAN
    BY DEF Receive, ReceiveForeign, TypeOK
  <2> QED BY <2>1, <2>2 DEF Receive, ReceiveForeign, Take, Successor
<1>1. /\ size \in Nat \ {0} /\ head \in 0 .. size /\ tail \in 0 .. size
      /\ queue \in [0 .. size -> Packets \cup Behind]
      /\ taken \in Seq(Packets) /\ removed \subseteq Packets
  BY DEF TypeOK
<1>2. \A k \in 0 .. size : queue'[k] = IF k = head THEN Null ELSE queue[k]
  BY <1>0, <1>1
<1>3. TypeOK'
  <2>1. taken' \in Seq(Packets) BY <1>0, <1>1, AppendProperties
  <2>2. queue' \in [0 .. size -> Packets \cup Behind] BY <1>0, <1>1
  <2>3. head' \in 0 .. size BY <1>0, <1>1
  <2> QED BY <1>0, <1>1, <2>1, <2>2, <2>3 DEF TypeOK
<1>4. ASSUME NEW p \in InQueue' PROVE p \in InQueue /\ p # queue[head]
  <2>1. PICK k \in 0 .. size : queue'[k] = p /\ p \in Packets
    BY <1>0, <1>4 DEF InQueue
  <2>2. k # head /\ queue[k] = p BY <1>0, <1>2, <2>1
  <2>3. p # queue[head] BY <1>1, <2>1, <2>2 DEF HeldInv, OneHolder
  <2> QED BY <2>1, <2>2, <2>3 DEF InQueue
<1>5. queue[head] \in Packets => queue[head] \in InQueue BY <1>1 DEF InQueue
<1>6. OneHolder'
  <2>1. \A j, k \in 0 .. size :
          queue'[j] = queue'[k] /\ queue'[j] \in Packets => j = k
    BY <1>0, <1>2 DEF HeldInv, OneHolder
  <2>2. packet' \notin InQueue' BY <1>0, <1>4
  <2>3. packet' \notin removed BY <1>0, <1>1, <1>5 DEF HeldInv, OneHolder
  <2>4. InQueue' \cap removed = {} BY <1>4 DEF HeldInv, OneHolder
  <2> QED BY <1>0, <2>1, <2>2, <2>3, <2>4 DEF OneHolder
<1>7. ASSUME NEW j \in DOMAIN taken'
      PROVE  taken'[j] <= Len(kinds) /\ taken'[j] \notin InQueue'
  <2>1. CASE queue[head] \in Packets
    <3>1. /\ DOMAIN taken = 1 .. Len(taken) /\ Len(taken) \in Nat
          /\ DOMAIN taken' = 1 .. Len(taken) + 1
          /\ \A k \in 1 .. Len(taken) : taken'[k] = taken[k]
          /\ taken'[Len(taken) + 1] = queue[head]
      BY <1>0, <1>1, <2>1, AppendProperties, LenProperties
    <3>2. CASE j = Len(taken) + 1
      BY <3>1, <3>2, <1>4, <1>5, <2>1 DEF HeldInv
    <3>3. CASE j # Len(taken) + 1
      <4>1. j \in DOMAIN taken /\ taken'[j] = taken[j] BY <3>1, <3>3, <1>7
      <4> QED BY <4>1, <1>4 DEF HeldInv
    <3> QED BY <3>2, <3>3
  <2>2. CASE queue[head] \notin Packets
    BY <1>0, <1>4, <1>7, <2>2 DEF HeldInv
  <2> QED BY <2>1, <2>2
<1>8. HeldInv'
  <2>1. (packet \in Packets => packet <= Len(kinds))'
    BY <1>0, <1>5 DEF HeldInv
  <2>2. \A p \in InQueue' : p <= Len(kinds) BY <1>4 DEF HeldInv
  <2>3. (\A p \in removed : p <= Len(kinds)) BY DEF HeldInv
  <2> QED BY <1>0, <1>6, <1>7, <2>1, <2>2, <2>3 DEF HeldInv
<1> QED BY <1>3, <1>8

\* The cell after head holds the next packet, if there is one.
LEMMA ReceiveKeepsRing ==
  ASSUME TypeOK, RingInv, Receive PROVE RingInv'
<1> USE DEF Receive, Take
<1>0. /\ UNCHANGED <<tail, size>> /\ queue[head] \in Packets /\ Null \notin Packets
      /\ head' = IF head + 1 > size THEN 0 ELSE head + 1
      /\ head' \in 0 .. size
      /\ \A k \in 0 .. size : queue'[k] = IF k = head THEN Null ELSE queue[k]
      /\ size \in Nat \ {0} /\ head \in 0 .. size /\ tail \in 0 .. size
  BY DEF TypeOK, Successor, Null, Packets
<1>2. ASSUME NEW k \in 0 .. size
      PROVE  queue'[k] \in Packets <=> Inside(k) /\ k # head
  BY <1>0 DEF RingInv
<1>3. ASSUME NEW k \in 0 .. size PROVE Inside(k)' <=> Inside(k) /\ k # head
  BY <1>0, <1>2 DEF Inside
<1>4. head' # tail => queue'[head'] \in Packets
  BY <1>0, <1>2 DEF Inside
<1>5. ASSUME NEW k \in 0 .. size, NEW l \in 0 .. size,
             Inside(k)', Inside(l)', From(k)' < From(l)'
      PROVE  queue'[k] < queue'[l]
  <2>1. Inside(k) /\ k # head /\ Inside(l) /\ l # head BY <1>3, <1>5
  <2>2. From(k) < From(l) BY <1>0, <1>5, <2>1 DEF From
  <2> QED BY <1>0, <2>1, <2>2 DEF RingInv
<1> QED BY <1>0, <1>2, <1>3, <1>4, <1>5 DEF RingInv

LEMMA ReceiveKeeps ==
  ASSUME QueueInv, Receive \/ ReceiveForeign PROVE QueueInv'
<1>1. TypeOK' /\ HeldInv' BY TakeHolds
<1>2. CASE Receive
  BY <1>1, <1>2, ReceiveKeepsRing DEF QueueInv, Receive
<1>3. CASE ReceiveForeign BY <1>1, <1>3 DEF QueueInv, ReceiveForeign
<1> QED BY <1>2, <1>3

\* The packet in hand goes; the ring stays.
LEMMA ExecuteKeeps ==
  ASSUME QueueInv, ExecutePlain \/ ExecuteFlagged \/ ExecuteStray
  PROVE  QueueInv'
<1> USE DEF QueueInv, ExecutePlain, ExecuteFlagged, ExecuteStray, Executes, cache
<1>1. UNCHANGED <<queue, head, tail, size, kinds, taken, overrun>> OBVIOUS
<1>2. /\ packet \in Packets /\ packet' = Null /\ pc' \in {"idle", "receive"}
      /\ i' \in Nat /\ Null \notin Packets /\ Null \in Behind
  BY DEF TypeOK, Null, Packets, Behind
<1>3. removed' = removed \/ removed' = removed \cup {packet} OBVIOUS
<1>4. TypeOK' BY <1>1, <1>2, <1>3 DEF TypeOK
<1>5. RingInv => RingInv' BY <1>1 DEF RingInv, Inside, From
<1>6. InQueue' = InQueue BY <1>1 DEF InQueue
<1>7. OneHolder'
  BY <1>1, <1>2, <1>3, <1>6 DEF HeldInv, OneHolder, InQueue, TypeOK
<1>8. HeldInv' BY <1>1, <1>2, <1>3, <1>6, <1>7 DEF HeldInv
<1> QED BY <1>1, <1>4, <1>5, <1>8

\* Where the thread of the tick is does not matter to the ring.
LEMMA PlaceKeeps ==
  ASSUME QueueInv, i' \in Nat,
         UNCHANGED <<queue, head, tail, size, kinds, packet, taken, removed, overrun>>,
         \/ pc' \in {"idle", "receive"} /\ pc \in {"idle", "receive"}
         \/ pc' = "crashed" /\ pc = "execute"
         \/ pc' = pc
  PROVE  QueueInv'
<1> USE DEF QueueInv
<1>1. TypeOK' BY DEF TypeOK
<1>2. RingInv => RingInv' BY DEF RingInv, Inside, From
<1>3. OneHolder' BY DEF HeldInv, OneHolder, InQueue
<1>4. HeldInv' BY <1>3 DEF HeldInv, InQueue
<1> QED BY <1>1, <1>2, <1>4

LEMMA QueueStep == QueueInv /\ [Next]_vars => QueueInv'
<1> SUFFICES ASSUME QueueInv, [Next]_vars PROVE QueueInv' OBVIOUS
<1>1. i \in Nat BY DEF QueueInv, TypeOK
<1>2. CASE Start BY <1>2, PlaceKeeps DEF Start, cache
<1>3. CASE ReceiveDone BY <1>3, PlaceKeeps DEF ReceiveDone, cache
<1>4. CASE Receive \/ ReceiveForeign BY <1>4, ReceiveKeeps
<1>5. CASE ExecutePlain \/ ExecuteFlagged \/ ExecuteStray
  BY <1>5, ExecuteKeeps
<1>6. CASE ExecuteForeign BY <1>1, <1>6, PlaceKeeps DEF ExecuteForeign, cache
<1>7. CASE \E kind \in Kinds : Send(kind) \/ SendGrowing(kind)
  BY <1>7, SendKeeps, SendGrowingKeeps
<1>8. CASE UNCHANGED vars BY <1>1, <1>8, PlaceKeeps DEF vars
<1> QED BY <1>2, <1>3, <1>4, <1>5, <1>6, <1>7, <1>8 DEF Next, Process

LEMMA AlwaysQueueInv == Spec => []QueueInv
BY QueueInit, QueueStep, PTL DEF Spec

\* The ring's indices stay inside the array as the code sees it, whatever the
\* size and however often the ring grows (net/connection/manager/base.cc:547).
THEOREM QueueTypeInvariant == Spec => []TypeOK
<1>1. QueueInv => TypeOK BY DEF QueueInv
<1> QED BY <1>1, AlwaysQueueInv, PTL

\* Whatever the size, and whatever lies behind the arrays, a packet is in one
\* cell, in hand, or removed (net/connection/manager/base.cc:547, 566).
THEOREM QueueOneHolder == Spec => []OneHolder
<1>1. QueueInv => OneHolder BY DEF QueueInv, HeldInv
<1> QED BY <1>1, AlwaysQueueInv, PTL

-----------------------------------------------------------------------------
(* The ring implements the channel *)

Fill == IF queue[head] \notin Packets THEN 0
        ELSE IF head < tail THEN tail - head ELSE tail + size + 1 - head

\* The cell of the j-th packet that waits.
Cell(j) == IF head + j - 1 <= size THEN head + j - 1 ELSE head + j - 1 - (size + 1)

LEMMA Wraps ==
  ASSUME NEW m \in Nat \ {0}, NEW a \in 0 .. 2 * m - 1
  PROVE  a % m = IF a < m THEN a ELSE a - m
OBVIOUS

WaitingRight ==
  /\ Fill \in 0 .. size + 1
  /\ Waiting \in Seq(Packets) /\ Len(Waiting) = Fill
  /\ \A j \in 1 .. Fill :
       /\ Cell(j) \in 0 .. size /\ queue[Cell(j)] \in Packets
       /\ Waiting[j] = queue[Cell(j)]

LEMMA WaitingIs == QueueInv /\ ~overrun => WaitingRight
<1> SUFFICES ASSUME QueueInv, ~overrun PROVE WaitingRight OBVIOUS
<1> USE DEF QueueInv
<1>0. /\ size \in Nat \ {0} /\ head \in 0 .. size /\ tail \in 0 .. size
      /\ queue \in [0 .. size -> Packets \cup Behind]
  BY DEF TypeOK
<1>1. Fill \in 0 .. size + 1 BY <1>0 DEF Fill
<1>2. ASSUME NEW j \in 1 .. Fill
      PROVE  /\ Cell(j) \in 0 .. size /\ (head + j - 1) % (size + 1) = Cell(j)
             /\ queue[Cell(j)] \in Packets
  <2>1. head + j - 1 \in 0 .. 2 * (size + 1) - 1 /\ size + 1 \in Nat \ {0}
    BY <1>0, <1>1
  <2>2. (head + j - 1) % (size + 1) = Cell(j)
    <3> DEFINE m == size + 1
               a == head + j - 1
    <3>1. m \in Nat \ {0} /\ a \in 0 .. 2 * m - 1 BY <2>1
    <3>2. Cell(j) = IF a < m THEN a ELSE a - m BY <1>0, <1>1 DEF Cell
    <3> HIDE DEF m, a
    <3>3. a % m = IF a < m THEN a ELSE a - m BY <3>1, Wraps
    <3>4. a % m = Cell(j) BY <3>2, <3>3
    <3> QED BY <3>4 DEF m, a
  <2>3. Cell(j) \in 0 .. size /\ Inside(Cell(j)) BY <1>0, <1>1 DEF Cell, Fill, Inside
  <2>4. queue[Cell(j)] \in Packets BY <2>3 DEF RingInv
  <2> QED BY <1>0, <2>2, <2>3, <2>4
<1>3. Waiting = [j \in 1 .. Fill |-> queue[(head + j - 1) % (size + 1)]]
  BY DEF Waiting, Fill
<1>4. Waiting \in [1 .. Fill -> Packets] BY <1>2, <1>3
<1>5. Waiting \in Seq(Packets) BY <1>1, <1>4, SeqDef
<1>6. Len(Waiting) = Fill
  <2>1. DOMAIN Waiting = 1 .. Len(Waiting) /\ Len(Waiting) \in Nat
    BY <1>5, LenProperties
  <2>2. 1 .. Len(Waiting) = 1 .. Fill BY <1>4, <2>1
  <2> DEFINE f == Fill
             l == Len(Waiting)
  <2>3. l \in Nat BY <2>1
  <2>4. f \in Nat BY <1>0, <1>1
  <2>5. 1 .. l = 1 .. f BY <2>2
  <2> HIDE DEF f, l
  <2>6. l = f
    <3>1. (l > 0 => l \in 1 .. l) /\ (f > 0 => f \in 1 .. f) BY <2>3, <2>4
    <3>2. l > 0 => l \in 1 .. f BY <3>1, <2>5, Zenon
    <3>3. f > 0 => f \in 1 .. l BY <3>1, <2>5, Zenon
    <3> QED BY <2>3, <2>4, <3>2, <3>3
  <2> QED BY <2>6 DEF f, l
<1> QED BY <1>1, <1>2, <1>3, <1>5, <1>6 DEF WaitingRight

LEMMA SendAppends ==
  ASSUME QueueInv, QueueInv', ~overrun, NEW kind \in Kinds, Send(kind)
  PROVE  Sent + 1 \in Packets /\ Waiting' = Append(Waiting, Sent + 1)
<1>0. /\ size \in Nat \ {0} /\ head \in 0 .. size /\ tail \in 0 .. size
      /\ queue \in [0 .. size -> Packets \cup Behind]
      /\ TypeOK /\ RingInv
  BY DEF QueueInv, TypeOK
<1>1. Sent + 1 \in Packets BY <1>0, NewPacketIs DEF Send
<1>2. /\ Waiting \in Seq(Packets) /\ Len(Waiting) = Fill /\ Fill \in 0 .. size + 1
      /\ \A j \in 1 .. Fill :
           /\ Cell(j) \in 0 .. size /\ queue[Cell(j)] \in Packets
           /\ Waiting[j] = queue[Cell(j)]
  BY WaitingIs DEF WaitingRight
<1>3. /\ Waiting' \in Seq(Packets) /\ Len(Waiting') = Fill'
      /\ \A j \in 1 .. Fill' : Waiting'[j] = queue'[Cell(j)']
  <2>1. ~overrun' BY DEF Send
  <2>2. WaitingRight' BY <2>1, WaitingIs, PTL
  <2> QED BY <2>2 DEF WaitingRight
<1>4. /\ size' = size /\ head' = head /\ queue[tail] \notin Packets
      /\ tail' = IF tail + 1 > size THEN 0 ELSE tail + 1
      /\ \A k \in 0 .. size : queue'[k] = IF k = tail THEN Sent + 1 ELSE queue[k]
  BY <1>0 DEF Send, Successor, Packets, Null
<1>5. Fill' = Fill + 1 /\ Cell(Fill + 1) = tail
  BY <1>0, <1>1, <1>4 DEF Fill, Cell, RingInv, Inside
<1>6. \A j : Cell(j)' = Cell(j) BY <1>4 DEF Cell
<1>7. ASSUME NEW j \in 1 .. Fill PROVE Waiting'[j] = Waiting[j]
  <2>1. Cell(j) # tail BY <1>2, <1>4
  <2> QED BY <1>2, <1>3, <1>4, <1>5, <1>6, <2>1
<1>8. Waiting'[Fill + 1] = Sent + 1
  BY <1>0, <1>2, <1>3, <1>4, <1>5, <1>6
<1>9. /\ Append(Waiting, Sent + 1) \in Seq(Packets)
      /\ Len(Append(Waiting, Sent + 1)) = Len(Waiting) + 1
      /\ \A j \in 1 .. Len(Waiting) : Append(Waiting, Sent + 1)[j] = Waiting[j]
      /\ Append(Waiting, Sent + 1)[Len(Waiting) + 1] = Sent + 1
  BY <1>1, <1>2, AppendProperties
<1>10. Len(Waiting') = Len(Append(Waiting, Sent + 1)) BY <1>2, <1>3, <1>5, <1>9
<1>11. ASSUME NEW j \in 1 .. Len(Waiting')
       PROVE  Waiting'[j] = Append(Waiting, Sent + 1)[j]
  <2>1. CASE j = Fill + 1 BY <2>1, <1>2, <1>8, <1>9
  <2>2. CASE j # Fill + 1
    <3>1. j \in 1 .. Fill BY <2>2, <1>2, <1>3, <1>5
    <3> QED BY <3>1, <1>2, <1>7, <1>9
  <2> QED BY <2>1, <2>2
<1> QED BY <1>1, <1>3, <1>9, <1>10, <1>11, SeqEqual

LEMMA ReceiveTakes ==
  ASSUME QueueInv, QueueInv', ~overrun, Receive
  PROVE  /\ Waiting # <<>> /\ taken' = Append(taken, Head(Waiting))
         /\ Waiting' = Tail(Waiting)
<1>0. /\ size \in Nat \ {0} /\ head \in 0 .. size /\ tail \in 0 .. size
      /\ queue \in [0 .. size -> Packets \cup Behind]
      /\ RingInv /\ RingInv'
  BY DEF QueueInv, TypeOK, Receive
<1>1. /\ Waiting \in Seq(Packets) /\ Len(Waiting) = Fill /\ Fill \in 0 .. size + 1
      /\ \A j \in 1 .. Fill :
           /\ Cell(j) \in 0 .. size /\ queue[Cell(j)] \in Packets
           /\ Waiting[j] = queue[Cell(j)]
  BY WaitingIs DEF WaitingRight
<1>2. /\ Waiting' \in Seq(Packets) /\ Len(Waiting') = Fill'
      /\ \A j \in 1 .. Fill' : Waiting'[j] = queue'[Cell(j)']
  <2>1. ~overrun' BY DEF Receive
  <2>2. WaitingRight' BY <2>1, WaitingIs, PTL
  <2> QED BY <2>2 DEF WaitingRight
<1>3. /\ size' = size /\ tail' = tail /\ queue[head] \in Packets /\ Null \notin Packets
      /\ head' = IF head + 1 > size THEN 0 ELSE head + 1
      /\ \A k \in 0 .. size : queue'[k] = IF k = head THEN Null ELSE queue[k]
      /\ taken' = Append(taken, queue[head])
  BY <1>0 DEF Receive, Take, Successor, Packets, Null
<1>4. Fill >= 1 /\ Cell(1) = head BY <1>0, <1>3 DEF Fill, Cell
<1>5. Waiting # <<>> BY <1>1, <1>4, EmptySeq
<1>6. Head(Waiting) = queue[head]
  <2>1. Waiting[1] = queue[head] BY <1>1, <1>4
  <2>2. Head(Waiting) = Waiting[1] BY <1>1, <1>5
  <2> QED BY <2>1, <2>2
<1>7. Fill' = Fill - 1
  <2>1. head' \in 0 .. size BY <1>0, <1>3
  <2>2. queue'[head'] \in Packets <=> Fill # 1
    BY <1>0, <1>3, <2>1 DEF Fill, RingInv, Inside
  <2> QED BY <1>0, <1>3, <2>1, <2>2 DEF Fill
<1>8. /\ Tail(Waiting) \in Seq(Packets) /\ Len(Tail(Waiting)) = Len(Waiting) - 1
      /\ \A j \in 1 .. Len(Tail(Waiting)) : Tail(Waiting)[j] = Waiting[j + 1]
  BY <1>1, <1>5, HeadTailProperties
<1>9. ASSUME NEW j \in 1 .. Len(Waiting') PROVE Waiting'[j] = Tail(Waiting)[j]
  <2>1. j \in 1 .. Fill' /\ j + 1 \in 1 .. Fill BY <1>1, <1>2, <1>7
  <2>2. Cell(j)' = Cell(j + 1) /\ Cell(j + 1) # head
    BY <1>0, <1>1, <1>3, <2>1 DEF Cell
  <2>3. Waiting'[j] = queue[Cell(j + 1)] BY <1>1, <1>2, <1>3, <2>1, <2>2
  <2> QED BY <1>1, <1>2, <1>7, <1>8, <2>1, <2>3
<1>10. Len(Waiting') = Len(Tail(Waiting)) BY <1>1, <1>2, <1>7, <1>8
<1>11. Waiting' = Tail(Waiting) BY <1>2, <1>8, <1>9, <1>10, SeqEqual
<1> QED BY <1>3, <1>5, <1>6, <1>11

\* The packet in the cell behind the array is the one that growing costs.
LEMMA GrowingLoses ==
  ASSUME QueueInv, QueueInv', NEW kind \in Kinds, SendGrowing(kind), ~overrun'
  PROVE  /\ Sent + 1 \in Packets
         /\ \E k \in DOMAIN Waiting :
              Waiting' = Append(Channel!RemoveAt(Waiting, k), Sent + 1)
<1>0. /\ size \in Nat \ {0} /\ head \in 0 .. size
      /\ queue \in [0 .. size -> Packets \cup Behind]
      /\ TypeOK /\ RingInv /\ ~overrun
      /\ head = tail /\ queue[tail] \in Packets
  BY GrowingKeepsRing DEF QueueInv, TypeOK
<1>1. head = tail /\ \A k \in 0 .. size : queue[k] \in Packets
  BY <1>0, RingFull
<1>2. Sent + 1 \in Packets BY <1>0, NewPacketIs DEF SendGrowing
<1>3. /\ size' \in Nat /\ size' >= size + 1 /\ tail' = size + 1 /\ head' = 0
      /\ \A k \in 0 .. size : queue'[k] =
           IF k < size - head THEN queue[head + k]
           ELSE IF k < size THEN queue[k - (size - head)] ELSE Sent + 1
  <2>1. /\ size' \in Nat /\ size' >= size + 1 /\ tail' = size + 1 /\ head' = 0
        /\ queue'[size] = Sent + 1
        /\ \A k \in 0 .. size - 1 : queue'[k] = queue[Source(k)]
    BY <1>0, GrownIs
  <2> QED BY <1>0, <2>1 DEF Source
<1>4. Fill = size + 1 BY <1>0, <1>1 DEF Fill
<1>5. Fill' = size + 1
  <2>1. queue'[0] \in Packets BY <1>0, <1>1, <1>3
  <2>2. head' = 0 /\ tail' = size + 1 BY <1>3
  <2>3. queue'[head'] \in Packets /\ head' < tail' BY <1>0, <2>1, <2>2
  <2>4. Fill' = tail' - head' BY <2>3 DEF Fill
  <2> QED BY <1>0, <2>2, <2>4
<1>6. /\ Waiting \in Seq(Packets) /\ Len(Waiting) = size + 1
      /\ \A j \in 1 .. size + 1 : Waiting[j] = queue[Cell(j)]
  BY <1>0, <1>4, WaitingIs DEF WaitingRight
<1>7. /\ Waiting' \in Seq(Packets) /\ Len(Waiting') = size + 1
      /\ \A j \in 1 .. size + 1 : Waiting'[j] = queue'[Cell(j)']
  <2>1. ~overrun' OBVIOUS
  <2>2. WaitingRight' BY <2>1, WaitingIs, PTL
  <2> QED BY <1>5, <2>2 DEF WaitingRight
<1>8. ASSUME NEW j \in 1 .. size + 1 PROVE Cell(j)' = j - 1
  <2>1. head' = 0 /\ size' \in Nat /\ size' >= size + 1 BY <1>3
  <2>2. Cell(j)' = IF head' + j - 1 <= size' THEN head' + j - 1
                   ELSE head' + j - 1 - (size' + 1)
    BY DEF Cell
  <2>3. size \in Nat /\ head' + j - 1 = j - 1 BY <1>0, <2>1
  <2>4. j - 1 <= size' BY <2>1, <2>3
  <2> QED BY <2>2, <2>3, <2>4
<1> DEFINE n == size - head + 1
<1>9. n \in 1 .. size + 1 /\ n \in DOMAIN Waiting
  <2>1. DOMAIN Waiting = 1 .. size + 1 BY <1>6, LenProperties
  <2> QED BY <1>0, <2>1
<1> DEFINE left == SubSeq(Waiting, 1, n - 1)
           right == SubSeq(Waiting, n + 1, Len(Waiting))
<1>10. /\ left \in Seq(Packets) /\ Len(left) = n - 1
       /\ \A j \in 1 .. n - 1 : left[j] = Waiting[j]
  <2>1. \A j \in 1 .. n - 1 : Waiting[j] \in Packets
    BY <1>0, <1>6, ElementOfSeq
  <2> DEFINE m == n - 1
  <2>2. 1 \in Int /\ m \in Nat /\ left = SubSeq(Waiting, 1, m) BY <1>0
  <2> HIDE DEF left, m
  <2>3. \A j \in 1 .. m : Waiting[j] \in Packets BY <2>1 DEF m
  <2> HIDE DEF n
  <2>4. left \in Seq(Packets) BY <2>2, <2>3, SubSeqProperties
  <2>5. Len(left) = IF 1 <= m THEN m - 1 + 1 ELSE 0
    BY <2>2, <2>3, SubSeqProperties
  <2>6. \A j \in 1 .. m - 1 + 1 : left[j] = Waiting[1 + j - 1]
    BY <2>2, <2>3, SubSeqProperties
  <2>7. Len(left) = m /\ \A j \in 1 .. m : left[j] = Waiting[j]
    BY <2>2, <2>5, <2>6
  <2> QED BY <2>4, <2>7 DEF m
<1>11. /\ right \in Seq(Packets) /\ Len(right) = head
       /\ \A j \in 1 .. head : right[j] = Waiting[n + j]
  <2>1. \A j \in n + 1 .. size + 1 : Waiting[j] \in Packets
    BY <1>0, <1>6, ElementOfSeq
  <2>2. right = SubSeq(Waiting, n + 1, size + 1) BY <1>6
  <2> DEFINE a == n + 1
             b == size + 1
  <2>3. a \in Int /\ b \in Int /\ b - a + 1 = head /\ b - a + 1 >= 0 BY <1>0
  <2>4. \A j \in 1 .. head : a + j - 1 = n + j BY <1>0
  <2> HIDE DEF right, a, b
  <2>5. right = SubSeq(Waiting, a, b) /\ \A j \in a .. b : Waiting[j] \in Packets
    BY <2>1, <2>2 DEF a, b
  <2> HIDE DEF n
  <2>6. right \in Seq(Packets) BY <2>3, <2>5, SubSeqProperties
  <2>7. Len(right) = head
    <3>1. Len(right) = IF a <= b THEN b - a + 1 ELSE 0
      BY <2>3, <2>5, SubSeqProperties
    <3> QED BY <2>3, <3>1
  <2>8. \A j \in 1 .. b - a + 1 : right[j] = Waiting[a + j - 1]
    BY <2>3, <2>5, SubSeqProperties
  <2> QED BY <2>3, <2>4, <2>6, <2>7, <2>8
<1> DEFINE rest == left \o right
<1>12. rest = Channel!RemoveAt(Waiting, n) BY DEF Channel!RemoveAt
<1> HIDE DEF left, right
<1>13. /\ rest \in Seq(Packets) /\ Len(rest) = size
       /\ \A j \in 1 .. size :
            rest[j] = IF j <= n - 1 THEN Waiting[j] ELSE Waiting[j + 1]
  <2>1. /\ rest \in Seq(Packets) /\ Len(rest) = Len(left) + Len(right)
        /\ \A j \in 1 .. Len(left) + Len(right) :
             rest[j] = IF j <= Len(left) THEN left[j] ELSE right[j - Len(left)]
    BY <1>10, <1>11, ConcatProperties
  <2>2. Len(left) + Len(right) = size BY <1>0, <1>10, <1>11
  <2> HIDE DEF rest
  <2>3. ASSUME NEW j \in 1 .. size
        PROVE  rest[j] = IF j <= n - 1 THEN Waiting[j] ELSE Waiting[j + 1]
    <3>1. CASE j <= n - 1
      BY <3>1, <2>1, <2>2, <1>0, <1>10
    <3>2. CASE ~(j <= n - 1)
      <4>1. j - (n - 1) \in 1 .. head /\ n + (j - (n - 1)) = j + 1
        BY <3>2, <1>0
      <4>2. right[j - (n - 1)] = Waiting[n + (j - (n - 1))] BY <4>1, <1>11
      <4>3. rest[j] = right[j - (n - 1)] BY <3>2, <2>1, <2>2, <1>10
      <4> QED BY <3>2, <4>1, <4>2, <4>3
    <3> QED BY <3>1, <3>2
  <2> QED BY <2>1, <2>2, <2>3
<1> HIDE DEF rest
<1>14. /\ Append(rest, Sent + 1) \in Seq(Packets)
       /\ Len(Append(rest, Sent + 1)) = size + 1
       /\ \A j \in 1 .. size : Append(rest, Sent + 1)[j] = rest[j]
       /\ Append(rest, Sent + 1)[size + 1] = Sent + 1
  BY <1>2, <1>13, AppendProperties
<1>15. ASSUME NEW j \in 1 .. size + 1
       PROVE  Waiting'[j] = Append(rest, Sent + 1)[j]
  <2>0. j - 1 \in 0 .. size /\ Waiting'[j] = queue'[j - 1]
    BY <1>0, <1>3, <1>7, <1>8
  <2>1. CASE j = size + 1
    BY <2>0, <2>1, <1>0, <1>3, <1>14
  <2>2. CASE j <= n - 1
    <3>1. j \in 1 .. size /\ j - 1 < size - head BY <2>2, <1>0
    <3>2. queue'[j - 1] = queue[head + (j - 1)] BY <2>0, <3>1, <1>3
    <3>3. Cell(j) = head + (j - 1) BY <3>1, <1>0 DEF Cell
    <3>4. rest[j] = Waiting[j] BY <2>2, <3>1, <1>13
    <3> QED BY <2>0, <3>1, <3>2, <3>3, <3>4, <1>6, <1>14
  <2>3. CASE j > n - 1 /\ j <= size
    <3>1. /\ j \in 1 .. size /\ j + 1 \in 1 .. size + 1
          /\ ~(j - 1 < size - head) /\ j - 1 < size /\ ~(j <= n - 1)
      BY <2>3, <1>0
    <3>2. queue'[j - 1] = queue[j - 1 - (size - head)] BY <2>0, <3>1, <1>3
    <3>3. Cell(j + 1) = j - 1 - (size - head) BY <3>1, <1>0 DEF Cell
    <3>4. rest[j] = Waiting[j + 1] BY <3>1, <1>13
    <3> QED BY <2>0, <3>1, <3>2, <3>3, <3>4, <1>6, <1>14
  <2>4. j = size + 1 \/ j <= n - 1 \/ (j > n - 1 /\ j <= size) BY <1>0
  <2> QED BY ONLY <2>1, <2>2, <2>3, <2>4
<1>16. Waiting' = Append(rest, Sent + 1) BY <1>7, <1>14, <1>15, SeqEqual
<1> QED BY <1>2, <1>9, <1>12, <1>16

\* After a foreign word has been used, a packet is still taken at most once.
LEMMA TakenOnce ==
  ASSUME QueueInv, [Next]_vars, overrun'
  PROVE  Channel!Broken
<1>0. TypeOK /\ HeldInv BY DEF QueueInv
<1>1. CASE Receive
  <2>1. queue[head] \in InQueue /\ queue[head] \in Packets
    BY <1>0, <1>1 DEF Receive, InQueue, TypeOK
  <2>2. taken' = Append(taken, queue[head]) BY <1>1 DEF Receive
  <2>3. \A j \in DOMAIN taken : taken[j] # queue[head] BY <1>0, <2>1 DEF HeldInv
  <2> QED BY <2>1, <2>2, <2>3, <1>0 DEF Channel!Broken, TypeOK, Receive
<1>2. CASE ~Receive
  <2>1. taken' = taken
    BY <1>2 DEF Next, Process, Start, ReceiveForeign, ReceiveDone, ExecutePlain,
       ExecuteFlagged, ExecuteStray, ExecuteForeign, Send, SendGrowing, vars
  <2>2. overrun' \in BOOLEAN
    BY <1>0 DEF TypeOK, Next, Process, Start, Receive, ReceiveForeign, ReceiveDone,
       ExecutePlain, ExecuteFlagged, ExecuteStray, ExecuteForeign, Send, SendGrowing, vars
  <2> QED BY <2>1, <2>2 DEF Channel!Broken
<1> QED BY <1>1, <1>2

\* The ring with its wrap-around and its growth is the channel the threads
\* may rely on, for every size of the cache: first in, first out, nothing
\* twice, and at most one packet lost when it grows; when an index has met a
\* foreign word behind the array, only "nothing twice" is left
\* (net/connection/manager/base.cc:547, 566, 673).
THEOREM QueueImplementsChannel == Spec => ImplementsChannel
<1>1. Init => Channel!Init
  <2> SUFFICES ASSUME Init PROVE Channel!Init OBVIOUS
  <2>1. WaitingRight BY QueueInit, WaitingIs DEF Init
  <2>2. Fill = 0
    BY CacheAssumption DEF Init, Fill, Null, Packets
  <2>3. Waiting = <<>> BY <2>1, <2>2, EmptySeq DEF WaitingRight
  <2> QED BY <2>3 DEF Init, Channel!Init
<1>2. QueueInv /\ QueueInv' /\ [Next]_vars => [Channel!Next]_Channel!vars
  <2> SUFFICES ASSUME QueueInv, QueueInv', [Next]_vars
               PROVE  [Channel!Next]_Channel!vars
    OBVIOUS
  <2>0. CASE overrun' BY <2>0, TakenOnce DEF Channel!Next
  <2> SUFFICES ASSUME ~overrun' PROVE [Channel!Next]_Channel!vars
    BY <2>0
  <2>1. ASSUME NEW kind \in Kinds, Send(kind) PROVE Channel!Next
    <3>0. ~overrun /\ UNCHANGED overrun /\ taken' = taken BY <2>1 DEF Send
    <3>1. Sent + 1 \in Packets /\ Waiting' = Append(Waiting, Sent + 1)
      BY <2>1, <3>0, SendAppends
    <3> QED BY <3>0, <3>1 DEF Channel!Next, Channel!Kept, Channel!Send
  <2>2. ASSUME NEW kind \in Kinds, SendGrowing(kind) PROVE Channel!Next
    <3>0. ~overrun BY <2>2, GrowingKeepsRing
    <3>1. /\ Sent + 1 \in Packets
          /\ \E k \in DOMAIN Waiting :
               Waiting' = Append(Channel!RemoveAt(Waiting, k), Sent + 1)
      BY <2>2, GrowingLoses
    <3>2. taken' = taken BY <2>2 DEF SendGrowing
    <3>3. overrun' = overrun
      BY <3>0, <2>2 DEF SendGrowing, QueueInv, TypeOK
    <3> QED BY <3>0, <3>1, <3>2, <3>3
        DEF Channel!Next, Channel!Kept, Channel!SendGrowing
  <2>3. CASE Receive
    <3>0. ~overrun /\ UNCHANGED overrun BY <2>3 DEF Receive
    <3>1. /\ Waiting # <<>> /\ taken' = Append(taken, Head(Waiting))
          /\ Waiting' = Tail(Waiting)
      BY <2>3, <3>0, ReceiveTakes
    <3> QED BY <3>0, <3>1 DEF Channel!Next, Channel!Kept, Channel!Take
  <2>4. ASSUME UNCHANGED <<cache, taken, overrun>> PROVE UNCHANGED Channel!vars
    BY <2>4 DEF cache, Waiting, Channel!vars
  <2>5. CASE \/ Start \/ ReceiveDone \/ ExecutePlain \/ ExecuteFlagged
             \/ ExecuteStray \/ ExecuteForeign \/ UNCHANGED vars
    <3>1. UNCHANGED <<cache, taken, overrun>>
      BY <2>5 DEF Start, ReceiveDone, ExecutePlain, ExecuteFlagged,
         ExecuteStray, ExecuteForeign, vars, cache
    <3> QED BY <3>1, <2>4
  <2>6. ~ReceiveForeign BY DEF ReceiveForeign
  <2> QED BY <2>1, <2>2, <2>3, <2>5, <2>6 DEF Next, Process
<1> QED BY <1>1, <1>2, AlwaysQueueInv, PTL DEF Spec, ImplementsChannel, Channel!Spec
=============================================================================
