------------------------ MODULE PacketDispatchProofs ------------------------
(* Proofs about PacketDispatch, for any threads, packets, sizes and limits.  *)
EXTENDS PacketDispatch, FiniteSetTheorems, SequenceTheorems, TLAPS

Making == {"create", "add", "adding"}
Removing == {"remove", "erasing"}

CoreTypes ==
  /\ call \in [Threads -> {"idle"} \cup Making \cup Removing]
  /\ object \in [Threads -> Maybe(Packets)] /\ lock \in Threads \cup {Nobody}
  /\ live \subseteq Packets /\ alloc \subseteq Packets /\ torn \in BOOLEAN
  /\ hand \in [Threads -> Maybe(Packets)] /\ queue \in Seq(Packets)
  /\ leaked \subseteq Packets

\* A thread in createpacket has that packet in hand; one in removepacket has
\* given its packet up.
Calling ==
  \A t \in Threads :
    /\ call[t] \in Making => object[t] = hand[t] /\ hand[t] # NoPacket
    /\ call[t] \in Removing => hand[t] = NoPacket /\ object[t] # NoPacket

\* The holders of packets are apart, ...
Apart ==
  /\ \A t, u \in Threads : hand[t] = hand[u] /\ hand[t] # NoPacket => t = u
  /\ \A t, u \in Threads :
       call[t] \in Removing /\ call[u] \in Removing /\ object[t] = object[u] => t = u
  /\ \A j, k \in 1 .. Len(queue) : queue[j] = queue[k] => j = k
  /\ \A t \in Threads, k \in 1 .. Len(queue) : hand[t] # queue[k]
  /\ \A t, u \in Threads : call[u] \in Removing => object[u] # hand[t]
  /\ \A t \in Threads, k \in 1 .. Len(queue) :
       call[t] \in Removing => object[t] # queue[k]
  /\ \A t \in Threads : hand[t] \notin leaked
  /\ \A k \in 1 .. Len(queue) : queue[k] \notin leaked
  /\ \A t \in Threads : call[t] \in Removing => object[t] \notin leaked

\* ... what they hold is live, but for a packet not made yet, ...
HeldLive ==
  /\ \A t \in Threads : call[t] = "create" => hand[t] \notin live
  /\ \A t \in Threads :
       hand[t] # NoPacket /\ call[t] # "create" => hand[t] \in live
  /\ \A k \in 1 .. Len(queue) : queue[k] \in live
  /\ \A t \in Threads : call[t] \in Removing => object[t] \in live
  /\ leaked \subseteq live

\* ... and nothing else is.
HasHolder(p) ==
  \/ \E t \in Threads : hand[t] = p /\ call[t] # "create"
  \/ \E k \in 1 .. Len(queue) : queue[k] = p
  \/ \E t \in Threads : call[t] \in Removing /\ object[t] = p
  \/ p \in leaked
LiveHeld == \A p \in live : HasHolder(p)

Core == CoreTypes /\ Calling /\ Apart /\ HeldLive /\ LiveHeld /\ TablesExact

\* Where the tick is tells what it has in hand; the packets of the other
\* threads are not those of the stream.
Place ==
  /\ pc \in {"input", "peek", "read", "execute", "removed", "take", "serve", "served"}
  /\ pc \in {"read", "execute", "serve"} <=> hand[Tick] # NoPacket
  /\ pc \notin {"read", "removed", "served"} => call[Tick] = "idle"
  /\ pc \in {"read", "execute"} => hand[Tick] \in FromPeer
  /\ i \in 0 .. ExecuteCount
  /\ pc \in {"read", "execute", "removed"} => i < ExecuteCount
  /\ status \in {"none", "continue", "break", "error"}

Posting ==
  /\ posted \subseteq Packets
  /\ \A t \in Threads \ {Tick} :
       hand[t] # NoPacket => hand[t] \in Posts[t] \cap posted

\* The units are of packets that were sent.
Sent == (1 .. Len(headers)) \X Nat
RingTypes == wire \in Seq(Sent) /\ ring \in Seq(Sent)

StreamTypes ==
  /\ RingTypes /\ Len(ring) <= Limit /\ open \in BOOLEAN
  /\ headers \in Seq(Header) /\ Len(headers) <= StreamPackets
  /\ consumed \in Nat

Control == Core /\ Place /\ Posting

-----------------------------------------------------------------------------
(* What a step does to packets and their holders *)

LEMMA Nonzero == NoPacket \notin Packets
BY FactoryAssumption DEF NoPacket

LEMMA CoreUnmoved ==
  ASSUME Core, UNCHANGED <<factory, hand, queue, leaked>> PROVE Core'
BY DEF Core, CoreTypes, Calling, Apart, HeldLive, LiveHeld, HasHolder,
       TablesExact, factory, Maybe

\* A thread with nothing in hand calls createpacket for a packet nobody has.
LEMMA CoreCreates ==
  ASSUME Core, NEW t \in Threads, NEW p \in Packets,
         CallCreate(t, p), Holds(t, p), hand[t] = NoPacket,
         \A u \in Threads : hand[u] # p, UNCHANGED <<queue, leaked>>
  PROVE  Core'
<1> USE Nonzero DEF Core, CoreTypes, Making, Removing, Maybe, CallCreate, Calls,
        Moves, Holds
<1>1. CoreTypes' OBVIOUS
<1>2. Calling' BY DEF Calling
<1>3. Apart' BY DEF Calling, Apart, HeldLive
<1>4. HeldLive' BY DEF HeldLive
<1>5. LiveHeld' BY DEF LiveHeld, HasHolder
<1>6. TablesExact' BY DEF TablesExact
<1> QED BY <1>1, <1>2, <1>3, <1>4, <1>5, <1>6

\* A thread gives the packet in its hand to removepacket.
LEMMA CoreRemoves ==
  ASSUME Core, NEW t \in Threads, hand[t] # NoPacket,
         CallRemove(t, hand[t]), Holds(t, NoPacket), UNCHANGED <<queue, leaked>>
  PROVE  Core'
<1> USE Nonzero DEF Core, CoreTypes, Making, Removing, Maybe, CallRemove, Calls,
        Moves, Holds
<1>1. CoreTypes' OBVIOUS
<1>2. Calling' BY DEF Calling
<1>3. Apart' BY DEF Calling, Apart
<1>4. HeldLive' BY DEF HeldLive, Calling
<1>5. LiveHeld' BY DEF LiveHeld, HasHolder
<1>6. TablesExact' BY DEF TablesExact
<1> QED BY <1>1, <1>2, <1>3, <1>4, <1>5, <1>6

\* A thread puts the packet in its hand into the queue.
LEMMA CoreQueues ==
  ASSUME Core, NEW t \in Threads, hand[t] # NoPacket, call[t] = "idle",
         queue' = Append(queue, hand[t]), Holds(t, NoPacket),
         UNCHANGED <<factory, leaked>>
  PROVE  Core'
<1> USE Nonzero DEF Core, CoreTypes, Making, Removing, Maybe, Holds, factory
<1>1. hand[t] \in Packets OBVIOUS
<1>2. /\ queue' \in Seq(Packets) /\ Len(queue') = Len(queue) + 1
      /\ \A k \in 1 .. Len(queue) : queue'[k] = queue[k]
      /\ queue'[Len(queue) + 1] = hand[t] /\ Len(queue) \in Nat
  BY <1>1, AppendProperties, LenProperties
<1>3. CoreTypes' BY <1>2
<1>4. Calling' BY DEF Calling
<1>5. Apart' BY <1>1, <1>2 DEF Calling, Apart
<1>6. HeldLive' BY <1>1, <1>2 DEF HeldLive, Calling
<1>7. LiveHeld' BY <1>1, <1>2 DEF LiveHeld, HasHolder
<1>8. TablesExact' BY DEF TablesExact
<1> QED BY <1>3, <1>4, <1>5, <1>6, <1>7, <1>8

\* A thread with nothing in hand takes the first packet of the queue.
LEMMA CoreTakes ==
  ASSUME Core, NEW t \in Threads, hand[t] = NoPacket, call[t] = "idle",
         queue # <<>>, queue' = Tail(queue), Holds(t, Head(queue)),
         UNCHANGED <<factory, leaked>>
  PROVE  Core'
<1> USE Nonzero DEF Core, CoreTypes, Making, Removing, Maybe, Holds, factory
<1>1. /\ Len(queue) \in Nat \ {0}
      /\ queue' \in Seq(Packets) /\ Len(queue') = Len(queue) - 1
      /\ \A k \in 1 .. Len(queue') : queue'[k] = queue[k + 1]
  BY HeadTailProperties, EmptySeq
<1>2. Head(queue) = queue[1] /\ queue[1] \in Packets BY <1>1, ElementOfSeq
<1>3. CoreTypes' BY <1>1, <1>2
<1>4. Calling' BY DEF Calling
<1>5. Apart' BY <1>1, <1>2 DEF Calling, Apart
<1>6. HeldLive' BY <1>1, <1>2 DEF HeldLive, Calling
<1>7. LiveHeld'
  <2> SUFFICES ASSUME NEW p \in live PROVE HasHolder(p)' BY DEF LiveHeld
  <2>1. HasHolder(p) BY DEF LiveHeld
  <2>2. CASE \E k \in 1 .. Len(queue) : queue[k] = p
    <3> PICK k \in 1 .. Len(queue) : queue[k] = p BY <2>2
    <3>1. CASE k = 1 BY <3>1, <1>2 DEF HasHolder
    <3>2. CASE k # 1
      <4>1. k - 1 \in 1 .. Len(queue') /\ queue'[k - 1] = p BY <3>2, <1>1
      <4> QED BY <4>1 DEF HasHolder
    <3> QED BY <3>1, <3>2
  <2>3. CASE ~\E k \in 1 .. Len(queue) : queue[k] = p
    BY <2>1, <2>3 DEF HasHolder
  <2> QED BY <2>2, <2>3
<1>8. TablesExact' BY DEF TablesExact
<1> QED BY <1>3, <1>4, <1>5, <1>6, <1>7, <1>8

\* The packet in a thread's hand is forgotten.
LEMMA CoreLeaks ==
  ASSUME Core, NEW t \in Threads, hand[t] # NoPacket, call[t] = "idle",
         leaked' = leaked \cup {hand[t]}, Holds(t, NoPacket),
         UNCHANGED <<factory, queue>>
  PROVE  Core'
<1> USE Nonzero DEF Core, CoreTypes, Making, Removing, Maybe, Holds, factory
<1>1. hand[t] \in Packets /\ hand[t] \in live BY DEF HeldLive
<1>2. CoreTypes' BY <1>1
<1>3. Calling' BY DEF Calling
<1>4. Apart' BY <1>1 DEF Calling, Apart
<1>5. HeldLive' BY <1>1 DEF HeldLive
<1>6. LiveHeld' BY DEF LiveHeld, HasHolder
<1>7. TablesExact' BY DEF TablesExact
<1> QED BY <1>2, <1>3, <1>4, <1>5, <1>6, <1>7

LEMMA LiveFinite == Core => IsFiniteSet(live \ DynamicPackets)
<1>1. Core => live \ DynamicPackets \in SUBSET Packets
  BY DEF Core, CoreTypes
<1> QED BY <1>1, FactoryAssumption, FS_Subset

LEMMA CountedAdd ==
  ASSUME Core, NEW p \in Packets \ live
  PROVE  Cardinality((live \cup {p}) \ DynamicPackets) = count + Counted(p)
<1>1. count = Cardinality(live \ DynamicPackets) BY DEF Core, TablesExact
<1>2. CASE p \in DynamicPackets
  <2>1. (live \cup {p}) \ DynamicPackets = live \ DynamicPackets BY <1>2
  <2>2. count \in Nat BY <1>1, LiveFinite, FS_CardinalityType
  <2>3. Counted(p) = 0 BY <1>2 DEF Counted
  <2>4. count + Counted(p) = count BY <2>2, <2>3
  <2> QED BY <1>1, <2>1, <2>4
<1>3. CASE p \notin DynamicPackets
  <2>1. (live \cup {p}) \ DynamicPackets = (live \ DynamicPackets) \cup {p}
    BY <1>3
  <2> QED BY <1>1, <1>3, <2>1, LiveFinite, FS_AddElement DEF Counted
<1> QED BY <1>2, <1>3

LEMMA CountedDrop ==
  ASSUME Core, NEW p \in live
  PROVE  Cardinality((live \ {p}) \ DynamicPackets) = count - Counted(p)
<1>1. count = Cardinality(live \ DynamicPackets) BY DEF Core, TablesExact
<1>2. CASE p \in DynamicPackets
  <2>1. (live \ {p}) \ DynamicPackets = live \ DynamicPackets BY <1>2
  <2>2. count \in Nat BY <1>1, LiveFinite, FS_CardinalityType
  <2> QED BY <1>1, <1>2, <2>1, <2>2 DEF Counted
<1>3. CASE p \notin DynamicPackets
  <2>1. (live \ {p}) \ DynamicPackets = (live \ DynamicPackets) \ {p} BY <1>3
  <2> QED BY <1>1, <1>3, <2>1, LiveFinite, FS_RemoveElement DEF Counted
<1> QED BY <1>2, <1>3

LEMMA CoreFactory ==
  ASSUME Core, NEW t \in Threads, FactoryStep(t), UNCHANGED <<hand, queue, leaked>>
  PROVE  Core'
<1> USE Nonzero DEF Core, CoreTypes, Making, Removing, Maybe, Moves, Returns
<1>1. CASE CreateObject(t)
  <2> USE <1>1 DEF CreateObject
  <2>1. object[t] \in Packets \ live /\ object[t] = hand[t]
    BY DEF Calling, HeldLive
  <2>2. CoreTypes' BY <2>1
  <2>3. Calling' BY DEF Calling
  <2>4. Apart' BY DEF Apart
  <2>5. HeldLive' BY <2>1 DEF HeldLive, Apart
  <2>6. LiveHeld' BY <2>1 DEF LiveHeld, HasHolder
  <2>7. TablesExact' BY <2>1, CountedAdd DEF TablesExact
  <2> QED BY <2>2, <2>3, <2>4, <2>5, <2>6, <2>7
<1>2. CASE AddStart(t)
  BY <1>2 DEF AddStart, Calling, Apart, HeldLive, LiveHeld, HasHolder, TablesExact
<1>3. CASE AddDone(t)
  <2> USE <1>3 DEF AddDone, Changes
  <2>1. object[t] \in live BY DEF Calling, HeldLive
  <2>2. CoreTypes' BY <2>1
  <2>3. Calling' BY DEF Calling
  <2>4. Apart' BY DEF Apart
  <2>5. HeldLive' BY DEF HeldLive
  <2>6. LiveHeld' BY DEF LiveHeld, HasHolder
  <2>7. TablesExact' BY <2>1 DEF TablesExact
  <2> QED BY <2>2, <2>3, <2>4, <2>5, <2>6, <2>7
<1>4. CASE EraseStart(t)
  BY <1>4 DEF EraseStart, Calling, Apart, HeldLive, LiveHeld, HasHolder, TablesExact
<1>5. CASE EraseDone(t)
  <2> USE <1>5 DEF EraseDone, Changes
  <2>1. object[t] \in live BY DEF HeldLive
  <2>2. CoreTypes' OBVIOUS
  <2>3. Calling' BY DEF Calling
  <2>4. Apart' BY DEF Apart
  <2>5. HeldLive' BY <2>1 DEF HeldLive, Apart
  <2>6. LiveHeld' BY <2>1 DEF LiveHeld, HasHolder
  <2>7. TablesExact' BY <2>1, CountedDrop DEF TablesExact
  <2> QED BY <2>2, <2>3, <2>4, <2>5, <2>6, <2>7
<1> QED BY <1>1, <1>2, <1>3, <1>4, <1>5 DEF FactoryStep

LEMMA CoreOneHolder == Core => OneHolder
<1> SUFFICES ASSUME Core PROVE OneHolder OBVIOUS
<1> USE DEF Core, CoreTypes, Having
<1>1. DOMAIN queue = 1 .. Len(queue) BY LenProperties
<1>2. Queued = {queue[k] : k \in 1 .. Len(queue)} BY <1>1 DEF Queued
<1>3. Held \cap Queued = {} BY <1>2 DEF Held, Apart
<1>4. Returned \cap (Held \cup Queued) = {}
  BY <1>2 DEF Returned, Removing, Held, Apart
<1>5. live \subseteq (Held \ {object[t] : t \in Having({"create"})})
                     \cup Queued \cup Returned \cup leaked
  <2> SUFFICES ASSUME NEW p \in live
               PROVE  p \in (Held \ {object[t] : t \in Having({"create"})})
                            \cup Queued \cup Returned \cup leaked
    OBVIOUS
  <2>1. HasHolder(p) BY DEF LiveHeld
  <2>2. CASE \E t \in Threads : hand[t] = p /\ call[t] # "create"
    <3>1. p \in Held BY <2>2, Nonzero DEF Held
    <3>2. \A t \in Threads : call[t] = "create" => object[t] # p
      BY DEF Calling, HeldLive, Making
    <3> QED BY <3>1, <3>2
  <2>3. CASE \E k \in 1 .. Len(queue) : queue[k] = p BY <2>3, <1>2
  <2>4. CASE \E t \in Threads : call[t] \in Removing /\ object[t] = p
    BY <2>4 DEF Returned, Removing
  <2> QED BY <2>1, <2>2, <2>3, <2>4 DEF HasHolder
<1>6. Held \ {object[t] : t \in Having({"create"})} \subseteq live
  BY DEF Held, HeldLive, Calling, Making
<1>7. Queued \cup Returned \cup leaked \subseteq live
  BY <1>2 DEF Returned, Removing, HeldLive
<1>8. live = (Held \ {object[t] : t \in Having({"create"})})
             \cup Queued \cup Returned \cup leaked
  BY <1>5, <1>6, <1>7
<1>9. leaked \cap (Held \cup Queued \cup Returned) = {}
  BY <1>2 DEF Returned, Removing, Held, Apart
<1> QED BY <1>1, <1>3, <1>4, <1>8, <1>9 DEF OneHolder, Apart, Removing

-----------------------------------------------------------------------------
(* The steps of the tick and of the other threads *)

LEMMA HeadInRange ==
  ASSUME StreamTypes, ring # <<>>
  PROVE  /\ AtHead \in 1 .. Len(headers) /\ AtHead \in 1 .. StreamPackets
         /\ headers[AtHead] \in Header /\ Size \in Nat
         /\ Named \subseteq FromPeer /\ Peeked \subseteq Header
<1> USE DEF StreamTypes
<1>1. Len(headers) \in Nat BY LenProperties
<1>2. Head(ring) \in Sent BY HeadTailProperties DEF RingTypes
<1>3. AtHead \in 1 .. Len(headers) BY <1>2 DEF AtHead, Sent
<1>4. AtHead \in 1 .. StreamPackets BY <1>1, <1>3, DispatchAssumption
<1>5. headers[AtHead] \in Header BY <1>3, ElementOfSeq
<1>6. Size \in Nat BY <1>5, DispatchAssumption DEF Size, Header
<1>7. Named \subseteq FromPeer BY <1>4 DEF Named, FromPeer
<1>8. Peeked \subseteq Header BY <1>5 DEF Peeked
<1> QED BY <1>3, <1>4, <1>5, <1>6, <1>7, <1>8

LEMMA ControlTick ==
  ASSUME Control, StreamTypes, TickStep PROVE Control'
<1> USE DEF Control, Place, Posting, Goes
<1>0. Tick \in Threads /\ ExecuteCount \in Nat \ {0}
      /\ call \in [Threads -> {"idle"} \cup Making \cup Removing]
      /\ hand \in [Threads -> Maybe(Packets)]
  BY DispatchAssumption DEF Core, CoreTypes
<1>1. CASE Input BY <1>0, <1>1, CoreUnmoved DEF Input, factory
<1>2. CASE InputOverflow BY <1>0, <1>2, CoreUnmoved DEF InputOverflow, factory
<1>3. CASE InputClosed BY <1>0, <1>3, CoreUnmoved DEF InputClosed, factory
<1>4. CASE LoopDone BY <1>0, <1>4, CoreUnmoved DEF LoopDone, factory
<1>5. CASE Refuse BY <1>0, <1>5, CoreUnmoved DEF Refuse, factory
<1>6. CASE Make
  <2>1. PICK p \in Named : CallCreate(Tick, p) /\ Holds(Tick, p)
    BY <1>6 DEF Make
  <2>2. /\ pc = "peek" /\ pc' = "read" /\ i < ExecuteCount /\ ring # <<>>
        /\ UNCHANGED <<stream, i, status, queue, posted, leaked>>
    BY <1>6 DEF Make
  <2>3. p \in FromPeer BY <2>1, <2>2, HeadInRange
  <2>4. p \in Packets BY <2>3, DispatchAssumption DEF FromPeer
  <2>5. hand[Tick] = NoPacket BY <2>2
  <2>6. \A u \in Threads : hand[u] # p
    <3>1. SUFFICES ASSUME NEW u \in Threads, hand[u] = p PROVE FALSE
      OBVIOUS
    <3>2. p # NoPacket BY <2>4, Nonzero
    <3>3. u # Tick BY <3>1, <3>2, <2>5
    <3>4. hand[u] \in Posts[u] BY <3>1, <3>2, <3>3
    <3>5. Posts[u] \subseteq Packets \ FromPeer BY <3>3, DispatchAssumption
    <3> QED BY <2>3, <3>1, <3>4, <3>5
  <2>7. Core' BY <1>0, <2>1, <2>2, <2>4, <2>5, <2>6, CoreCreates
  <2>8. (Place /\ Posting)'
    BY <1>0, <2>1, <2>2, <2>3, <2>4, Nonzero DEF Holds, CallCreate, Calls, Moves
  <2> QED BY <2>7, <2>8
<1>7. CASE Read BY <1>0, <1>7, CoreUnmoved DEF Read, factory
<1>8. CASE ReadFails
  <2> USE <1>8 DEF ReadFails
  <2>1. Core' BY <1>0, CoreRemoves
  <2>2. (Place /\ Posting)' BY <1>0 DEF Holds, CallRemove, Calls, Moves
  <2> QED BY <2>1, <2>2
<1>17. CASE ReadThrows
  <2> USE <1>17 DEF ReadThrows
  <2>1. Core' BY <1>0, CoreLeaks
  <2>2. (Place /\ Posting)' BY <1>0 DEF Holds, factory
  <2> QED BY <2>1, <2>2
<1>9. CASE \E result \in {"continue", "break", "error"} : Execute(result)
  <2> PICK result \in {"continue", "break", "error"} : Execute(result) BY <1>9
  <2> USE DEF Execute, Executes
  <2>1. Core' BY <1>0, CoreRemoves
  <2>2. (Place /\ Posting)' BY <1>0 DEF Holds, CallRemove, Calls, Moves
  <2> QED BY <2>1, <2>2
<1>10. CASE \E result \in {"continue", "error"} : ExecutePassOn(result)
  <2> PICK result \in {"continue", "error"} : ExecutePassOn(result) BY <1>10
  <2> USE DEF ExecutePassOn, Executes
  <2>1. Core' BY <1>0, CoreQueues
  <2>2. (Place /\ Posting)' BY <1>0 DEF Holds, factory
  <2> QED BY <2>1, <2>2
<1>11. CASE Removed BY <1>0, <1>11, CoreUnmoved DEF Removed, factory
<1>12. CASE Take
  <2> USE <1>12 DEF Take
  <2>1. Core' BY <1>0, CoreTakes
  <2>2. Head(queue) \in Packets BY HeadTailProperties DEF Core, CoreTypes
  <2>3. (Place /\ Posting)' BY <1>0, <2>2, Nonzero DEF Holds, factory
  <2> QED BY <2>1, <2>3
<1>13. CASE TakeNothing BY <1>0, <1>13, CoreUnmoved DEF TakeNothing, factory
<1>14. CASE Serve
  <2> USE <1>14 DEF Serve
  <2>1. Core' BY <1>0, CoreRemoves
  <2>2. (Place /\ Posting)' BY <1>0 DEF Holds, CallRemove, Calls, Moves
  <2> QED BY <2>1, <2>2
<1>18. CASE ServeStray
  <2> USE <1>18 DEF ServeStray
  <2>1. Core' BY <1>0, CoreLeaks
  <2>2. (Place /\ Posting)' BY <1>0 DEF Holds, factory
  <2> QED BY <2>1, <2>2
<1>15. CASE Served BY <1>0, <1>15, CoreUnmoved DEF Served, factory
<1>16. CASE FactoryRuns(Tick)
  <2> USE <1>16 DEF FactoryRuns
  <2>1. Core' BY <1>0, CoreFactory
  <2>2. call[Tick] # "idle"
    BY DEF FactoryStep, CreateObject, AddStart, AddDone, EraseStart, EraseDone
  <2>3. (Place /\ Posting)' BY <2>2 DEF tick
  <2> QED BY <2>1, <2>3
<1> QED BY <1>1, <1>2, <1>3, <1>4, <1>5, <1>6, <1>7, <1>8, <1>9, <1>10, <1>11,
           <1>12, <1>13, <1>14, <1>15, <1>16, <1>17, <1>18 DEF TickStep

\* A packet that a thread prepares to post is in no hand.
LEMMA PostedByNobody ==
  ASSUME Control, NEW t \in Threads \ {Tick}, NEW p \in Posts[t], Prepare(t, p)
  PROVE  \A u \in Threads : hand[u] # p
<1> USE DEF Control, Place, Posting, Prepare
<1>1. p \in Packets \ FromPeer /\ Tick \in Threads
  BY DispatchAssumption
<1>2. p \notin posted OBVIOUS
<1>3. SUFFICES ASSUME NEW u \in Threads, hand[u] = p PROVE FALSE OBVIOUS
<1>4. p # NoPacket BY <1>1, Nonzero
<1>5. u = Tick BY <1>2, <1>3, <1>4
<1>6. call[Tick] = "create" \/ p \in live
  BY <1>3, <1>4, <1>5 DEF Core, HeldLive
<1>7. p \notin live BY DEF CallCreate
<1>8. pc = "read" BY <1>3, <1>4, <1>5, <1>6, <1>7
<1> QED BY <1>1, <1>3, <1>5, <1>8

LEMMA ControlOthers ==
  ASSUME Control, NEW t \in Threads \ {Tick}, Others(t) \/ FactoryRuns(t)
  PROVE  Control'
<1> USE DEF Control, Place, Posting
<1>0. Tick \in Threads
      /\ call \in [Threads -> {"idle"} \cup Making \cup Removing]
      /\ hand \in [Threads -> Maybe(Packets)]
  BY DispatchAssumption DEF Core, CoreTypes
<1>1. CASE \E p \in Posts[t] : Prepare(t, p)
  <2> PICK p \in Posts[t] : Prepare(t, p) BY <1>1
  <2> USE DEF Prepare
  <2>1. p \in Packets \ FromPeer BY DispatchAssumption
  <2>3. \A u \in Threads : hand[u] # p BY PostedByNobody
  <2>4. Core' BY <2>1, <2>3, CoreCreates
  <2>5. (Place /\ Posting)'
    BY <1>0, <2>1 DEF Holds, CallCreate, Calls, Moves, tick
  <2> QED BY <2>4, <2>5
<1>2. CASE Post(t)
  <2> USE <1>2 DEF Post
  <2>1. Core' BY CoreQueues
  <2>2. (Place /\ Posting)' BY <1>0 DEF Holds, factory, tick
  <2> QED BY <2>1, <2>2
<1>3. CASE Discard(t)
  <2> USE <1>3 DEF Discard
  <2>1. Core' BY CoreRemoves
  <2>2. (Place /\ Posting)' BY <1>0 DEF Holds, CallRemove, Calls, Moves, tick
  <2> QED BY <2>1, <2>2
<1>4. CASE FactoryRuns(t)
  <2> USE <1>4 DEF FactoryRuns
  <2>1. Core' BY CoreFactory
  <2>2. call'[Tick] = call[Tick]
    BY <1>0 DEF FactoryStep, CreateObject, AddStart, AddDone, EraseStart,
       EraseDone, Moves, Returns
  <2>3. (Place /\ Posting)' BY <2>2 DEF tick
  <2> QED BY <2>1, <2>3
<1> QED BY <1>1, <1>2, <1>3, <1>4 DEF Others
-----------------------------------------------------------------------------
(* A stream R of units of the packets with headers h, c of them gone before *)

Unit == (1 .. StreamPackets) \X Nat

After(h, u) ==
  IF u[2] < h[u[1]].size THEN <<u[1], u[2] + 1>> ELSE <<u[1] + 1, 0>>

\* What InSync says of the stream.
Ordered(R, h, c) ==
  /\ Len(R) = 0 <=> c = Len(h)
  /\ Len(R) # 0 =>
       /\ R[1] = <<c + 1, 0>>
       /\ \A k \in 1 .. Len(R) - 1 : R[k + 1] = After(h, R[k])
       /\ After(h, R[Len(R)]) = <<Len(h) + 1, 0>>

\* Each unit stands in the middle of all units of its packet.
Whole(R, h) ==
  \A k \in 1 .. Len(R) :
    LET p == R[k][1]
        first == k - R[k][2]
    IN  /\ p \in 1 .. Len(h) /\ R[k][2] \in 0 .. h[p].size
        /\ \A m \in 0 .. h[p].size :
             first + m \in 1 .. Len(R) /\ R[first + m] = <<p, m>>

LEMMA HeaderSize ==
  ASSUME NEW h \in Seq(Header), NEW p \in 1 .. Len(h) PROVE h[p].size \in Nat
<1>1. h[p] \in Header BY ElementOfSeq
<1> QED BY <1>1, DispatchAssumption DEF Header

\* A packet of n units behind its header stands at the end of T, which is R before
\* it, and its header at the end of j, which is h before it.
OneMore(R, T, c, h, j, n) ==
  /\ R \in Seq(Unit) /\ T \in Seq(Unit) /\ c \in Nat /\ n \in Nat
  /\ h \in Seq(Header) /\ j \in Seq(Header) /\ c <= Len(h)
  /\ Len(j) = Len(h) + 1 /\ j[Len(h) + 1].size = n
  /\ \A q \in 1 .. Len(h) : j[q] = h[q]
  /\ Len(T) = Len(R) + 1 + n /\ \A k \in 1 .. Len(R) : T[k] = R[k]
  /\ \A m \in 0 .. n : T[Len(R) + 1 + m] = <<Len(h) + 1, m>>

\* T is R without the packet at its front, the one behind the first c of h.
OneLess(R, T, c, h, n) ==
  /\ R \in Seq(Unit) /\ T \in Seq(Unit) /\ c \in Nat /\ n \in Nat
  /\ h \in Seq(Header) /\ c <= Len(h) /\ h[c + 1].size = n
  /\ Len(R) # 0 /\ 1 + n <= Len(R) /\ Len(T) = Len(R) - (1 + n)
  /\ \A k \in 1 .. Len(T) : T[k] = R[k + 1 + n]

\* A packet more at the end: T continues R, j continues h.
LEMMA PacketMore ==
  ASSUME NEW R, NEW T, NEW c, NEW h, NEW j, NEW n,
         OneMore(R, T, c, h, j, n), Ordered(R, h, c), Whole(R, h)
  PROVE  Ordered(T, j, c) /\ Whole(T, j)
<1> USE DEF OneMore
<1>1. Len(R) \in Nat /\ Len(h) \in Nat BY LenProperties
<1>2. ASSUME NEW k \in 1 .. Len(R)
      PROVE  /\ R[k][1] \in 1 .. Len(h) /\ T[k] = R[k]
             /\ j[R[k][1]] = h[R[k][1]] /\ h[R[k][1]].size \in Nat
  <2>1. R[k][1] \in 1 .. Len(h) BY DEF Whole
  <2> QED BY <2>1, HeaderSize
<1>3. ASSUME NEW k \in 1 .. Len(T), k \notin 1 .. Len(R)
      PROVE  k - Len(R) - 1 \in 0 .. n /\ T[k] = <<Len(h) + 1, k - Len(R) - 1>>
  <2> DEFINE m == k - Len(R) - 1
  <2>1. m \in 0 .. n BY <1>1, <1>3
  <2>2. k = Len(R) + 1 + m BY <1>1
  <2> QED BY <2>1, <2>2
<1>4. Whole(T, j)
  <2> SUFFICES
        ASSUME NEW k \in 1 .. Len(T)
        PROVE  /\ T[k][1] \in 1 .. Len(j) /\ T[k][2] \in 0 .. j[T[k][1]].size
               /\ \A m \in 0 .. j[T[k][1]].size :
                    /\ k - T[k][2] + m \in 1 .. Len(T)
                    /\ T[k - T[k][2] + m] = <<T[k][1], m>>
    BY DEF Whole
  <2>1. CASE k \in 1 .. Len(R)
    <3> DEFINE p == R[k][1]
               b == R[k][2]
    <3>1. /\ b \in 0 .. h[p].size
          /\ \A m \in 0 .. h[p].size :
               k - b + m \in 1 .. Len(R) /\ R[k - b + m] = <<p, m>>
      BY <2>1 DEF Whole
    <3>2. /\ T[k][1] = p /\ T[k][2] = b /\ p \in 1 .. Len(h) /\ j[p] = h[p]
          /\ \A q \in 1 .. Len(R) : T[q] = R[q] /\ q \in 1 .. Len(T)
      BY <2>1, <1>1, <1>2
    <3>3. h[p].size \in Nat BY <3>2, HeaderSize
    <3> HIDE DEF p, b
    <3>4. ASSUME NEW m \in 0 .. h[p].size
          PROVE  k - b + m \in 1 .. Len(T) /\ T[k - b + m] = <<p, m>>
      BY <3>1, <3>2
    <3>5. p \in 1 .. Len(j) BY <3>2, <1>1
    <3> QED BY <3>1, <3>2, <3>4, <3>5
  <2>2. CASE k \notin 1 .. Len(R)
    <3>1. T[k] = <<Len(h) + 1, k - Len(R) - 1>> /\ k - Len(R) - 1 \in 0 .. n
      BY <2>2, <1>3
    <3>2. T[k][1] = Len(h) + 1 /\ T[k][2] = k - Len(R) - 1 BY <3>1
    <3>3. k - T[k][2] = Len(R) + 1 BY <3>2, <1>1
    <3>4. j[T[k][1]].size = n BY <3>2
    <3>5. ASSUME NEW m \in 0 .. n
          PROVE  Len(R) + 1 + m \in 1 .. Len(T) /\ T[Len(R) + 1 + m] = <<Len(h) + 1, m>>
      BY <1>1, <3>5
    <3>6. Len(h) + 1 \in 1 .. Len(j) BY <1>1
    <3> QED BY ONLY <3>1, <3>2, <3>3, <3>4, <3>5, <3>6
  <2> QED BY <2>1, <2>2
<1>5. T[1] = <<c + 1, 0>>
  <2>1. CASE Len(R) = 0
    <3>1. T[Len(R) + 1 + 0] = <<Len(h) + 1, 0>> BY <1>1
    <3>2. c = Len(h) BY <2>1 DEF Ordered
    <3>3. T[Len(R) + 1 + 0] = T[1] BY <2>1
    <3> QED BY <3>1, <3>2, <3>3
  <2>2. CASE Len(R) # 0
    <3>1. T[1] = R[1] BY <2>2, <1>1, <1>2
    <3>2. R[1] = <<c + 1, 0>> BY <2>2 DEF Ordered
    <3> QED BY <3>1, <3>2
  <2> QED BY <2>1, <2>2
<1>6. ASSUME NEW k \in 1 .. Len(T) - 1 PROVE T[k + 1] = After(j, T[k])
  <2>0. Len(R) # 0 =>
          /\ \A q \in 1 .. Len(R) - 1 : R[q + 1] = After(h, R[q])
          /\ After(h, R[Len(R)]) = <<Len(h) + 1, 0>>
    BY DEF Ordered
  <2>1. CASE k < Len(R)
    <3>1. /\ k \in 1 .. Len(R) - 1 /\ k \in 1 .. Len(R) /\ k + 1 \in 1 .. Len(R)
          /\ Len(R) # 0
      BY <2>1, <1>1
    <3>2. R[k + 1] = After(h, R[k]) BY ONLY <2>0, <3>1
    <3>3. T[k] = R[k] /\ j[R[k][1]] = h[R[k][1]] /\ T[k + 1] = R[k + 1]
      BY <3>1, <1>2
    <3>4. After(h, R[k]) = After(j, T[k]) BY ONLY <3>3 DEF After
    <3> QED BY ONLY <3>2, <3>3, <3>4
  <2>2. CASE k = Len(R)
    <3>1. k \in 1 .. Len(R) /\ Len(R) # 0 BY <2>2, <1>1
    <3>2. After(h, R[k]) = <<Len(h) + 1, 0>> BY ONLY <2>0, <3>1, <2>2
    <3>3. T[k] = R[k] /\ j[R[k][1]] = h[R[k][1]] BY <3>1, <1>2
    <3>4. After(h, R[k]) = After(j, T[k]) BY ONLY <3>3 DEF After
    <3>5. T[Len(R) + 1 + 0] = <<Len(h) + 1, 0>> BY <1>1
    <3>6. Len(R) + 1 + 0 = k + 1 BY <2>2, <1>1
    <3> QED BY ONLY <3>2, <3>4, <3>5, <3>6
  <2>3. CASE k > Len(R)
    <3>1. /\ k \in 1 .. Len(T) /\ k \notin 1 .. Len(R)
          /\ k + 1 \in 1 .. Len(T) /\ k + 1 \notin 1 .. Len(R)
      BY <2>3, <1>1
    <3>2. /\ T[k] = <<Len(h) + 1, k - Len(R) - 1>>
          /\ k + 1 - Len(R) - 1 \in 0 .. n
          /\ T[k + 1] = <<Len(h) + 1, k + 1 - Len(R) - 1>>
      BY <3>1, <1>3
    <3>3. k - Len(R) - 1 < n /\ k + 1 - Len(R) - 1 = k - Len(R) - 1 + 1
      BY ONLY <3>2, <1>1, k \in Nat, n \in Nat
    <3>4. T[k][1] = Len(h) + 1 /\ T[k][2] = k - Len(R) - 1 BY <3>2
    <3>5. After(j, T[k]) = <<Len(h) + 1, k - Len(R) - 1 + 1>>
      BY <3>3, <3>4 DEF After
    <3> QED BY <3>2, <3>3, <3>5
  <2> QED BY <2>1, <2>2, <2>3, <1>1
<1>7. After(j, T[Len(T)]) = <<Len(j) + 1, 0>>
  <2>1. T[Len(R) + 1 + n] = <<Len(h) + 1, n>> OBVIOUS
  <2>2. T[Len(T)] = <<Len(h) + 1, n>> BY <2>1
  <2> QED BY <2>2, <1>1 DEF After
<1>8. Len(T) # 0 /\ c # Len(j) BY <1>1
<1> QED BY <1>4, <1>5, <1>6, <1>7, <1>8 DEF Ordered

\* The packet at the front goes: T is R without its 1 + n units.
LEMMA PacketLess ==
  ASSUME NEW R, NEW T, NEW c, NEW h, NEW n,
         OneLess(R, T, c, h, n), Ordered(R, h, c), Whole(R, h)
  PROVE  c + 1 <= Len(h) /\ Ordered(T, h, c + 1) /\ Whole(T, h)
<1> USE DEF OneLess
<1>1. Len(R) \in Nat /\ Len(h) \in Nat /\ Len(T) \in Nat BY LenProperties
<1>2. R[1] = <<c + 1, 0>> BY DEF Ordered
<1>3. c + 1 \in 1 .. Len(h) BY <1>1, <1>2 DEF Whole
<1>4. \A m \in 0 .. n : R[1 + m] = <<c + 1, m>>
  <2>1. 1 \in 1 .. Len(R) BY <1>1
  <2>2. \A m \in 0 .. h[R[1][1]].size : R[1 - R[1][2] + m] = <<R[1][1], m>>
    BY <2>1 DEF Whole
  <2> QED BY <1>2, <2>2
<1>5. After(h, R[1 + n]) = <<c + 2, 0>>
  <2>1. R[1 + n] = <<c + 1, n>> /\ c \in Nat /\ n \in Nat BY <1>4
  <2>2. h[c + 1].size = n OBVIOUS
  <2> QED BY ONLY <2>1, <2>2 DEF After
<1>6. CASE Len(T) = 0
  <2>1. After(h, R[Len(R)]) = <<Len(h) + 1, 0>> BY DEF Ordered
  <2>2. Len(R) = 1 + n BY <1>1, <1>6
  <2>3. c + 1 = Len(h) BY <1>1, <1>5, <2>1, <2>2
  <2> QED BY <1>6, <2>3, <1>1 DEF Ordered, Whole
<1>7. CASE Len(T) # 0
  <2>1. T[1] = <<c + 1 + 1, 0>>
    <3>1. 1 + n \in 1 .. Len(R) - 1 BY <1>1, <1>7
    <3>2. R[1 + n + 1] = After(h, R[1 + n]) BY <3>1 DEF Ordered
    <3>3. T[1] = R[1 + 1 + n] BY <1>1, <1>7
    <3> QED BY <3>2, <3>3, <1>5
  <2>2. ASSUME NEW k \in 1 .. Len(T) - 1 PROVE T[k + 1] = After(h, T[k])
    <3>1. k + 1 + n \in 1 .. Len(R) - 1 BY <1>1
    <3>2. R[k + 1 + n + 1] = After(h, R[k + 1 + n]) BY <3>1 DEF Ordered
    <3>3. T[k] = R[k + 1 + n] /\ T[k + 1] = R[k + 1 + 1 + n] BY <1>1
    <3>4. k + 1 + 1 + n = k + 1 + n + 1 BY <1>1
    <3> QED BY <3>2, <3>3, <3>4
  <2>3. After(h, T[Len(T)]) = <<Len(h) + 1, 0>>
    <3>1. T[Len(T)] = R[Len(T) + 1 + n] BY <1>1, <1>7
    <3>2. Len(T) + 1 + n = Len(R) BY <1>1
    <3> QED BY <3>1, <3>2 DEF Ordered
  <2>4. c + 1 # Len(h)
    <3>1. 1 + 1 + n \in 1 .. Len(R) /\ T[1] = R[1 + 1 + n] BY <1>1, <1>7
    <3>2. R[1 + 1 + n][1] \in 1 .. Len(h) BY <3>1 DEF Whole
    <3>3. c + 1 + 1 \in 1 .. Len(h) BY <2>1, <3>1, <3>2
    <3> QED BY <3>3, <1>1
  <2>5. Whole(T, h)
    <3> SUFFICES
          ASSUME NEW k \in 1 .. Len(T)
          PROVE  /\ T[k][1] \in 1 .. Len(h) /\ T[k][2] \in 0 .. h[T[k][1]].size
                 /\ \A m \in 0 .. h[T[k][1]].size :
                      /\ k - T[k][2] + m \in 1 .. Len(T)
                      /\ T[k - T[k][2] + m] = <<T[k][1], m>>
      BY DEF Whole
    <3> DEFINE p == T[k][1]
               b == T[k][2]
               q == k + 1 + n
    <3>0. q \in Int /\ q = k + 1 + n OBVIOUS
    <3>1. q \in 1 .. Len(R) /\ T[k] = R[q] BY <1>1
    <3> HIDE DEF q
    <3>a. p = R[q][1] /\ b = R[q][2] BY <3>1
    <3>b. /\ R[q][1] \in 1 .. Len(h) /\ R[q][2] \in 0 .. h[R[q][1]].size
          /\ \A m \in 0 .. h[R[q][1]].size :
               /\ q - R[q][2] + m \in 1 .. Len(R)
               /\ R[q - R[q][2] + m] = <<R[q][1], m>>
      BY <3>1 DEF Whole
    <3> HIDE DEF p, b
    <3>2. /\ p \in 1 .. Len(h) /\ b \in 0 .. h[p].size
          /\ \A m \in 0 .. h[p].size :
               q - b + m \in 1 .. Len(R) /\ R[q - b + m] = <<p, m>>
      BY <3>a, <3>b
    <3>3. h[p].size \in Nat BY <3>2, HeaderSize
    <3>4. k - b >= 1
      <4> SUFFICES ASSUME k - b < 1 PROVE FALSE BY <3>2, <3>3
      <4> DEFINE m == k + n - b
      <4>1. q - b + 0 \in 1 .. Len(R) /\ R[q - b + 0] = <<p, 0>>
        BY <3>2, <3>3
      <4>2. m \in 0 .. n BY <4>1, <3>0, <3>2, <3>3
      <4>3. R[1 + m] = <<c + 1, m>> BY <4>2, <1>4
      <4>4. 1 + m = q - b + 0 BY <3>0, <3>2, <3>3
      <4>5. p = c + 1 /\ m = 0 BY <4>1, <4>3, <4>4
      <4>6. b = k + n /\ b <= n BY <4>5, <3>2, <3>3
      <4> QED BY <4>6
    <3>5. ASSUME NEW m \in 0 .. h[p].size
          PROVE  k - b + m \in 1 .. Len(T) /\ T[k - b + m] = <<p, m>>
      <4>1. q - b + m \in 1 .. Len(R) /\ R[q - b + m] = <<p, m>>
        BY <3>2
      <4>2. k - b + m \in 1 .. Len(T) BY <4>1, <3>0, <3>2, <3>3, <3>4, <1>1
      <4>3. T[k - b + m] = R[k - b + m + 1 + n] BY <4>2
      <4>4. k - b + m + 1 + n = q - b + m BY <3>0, <3>2, <3>3
      <4> QED BY <4>1, <4>2, <4>3, <4>4
    <3> QED BY <3>2, <3>5 DEF p, b
  <2> QED BY <1>3, <1>7, <2>1, <2>2, <2>3, <2>4, <2>5 DEF Ordered
<1> QED BY <1>6, <1>7

-----------------------------------------------------------------------------
(* The stream of a connection *)

Rest == ring \o wire

\* Where the tick stands, as long as the readers keep to the sizes.
InPosition ==
  /\ consumed <= Len(headers)
  /\ open => Ordered(Rest, headers, consumed) /\ Whole(Rest, headers)

Synced ==
  /\ StreamTypes
  /\ Sound => InPosition
  /\ ~open => ring = <<>> /\ wire = <<>>

\* How far the tick is with the packet at the front.
InStep ==
  /\ open /\ pc # "execute" => Len(executed) = consumed
  /\ pc = "execute" =>
       Len(executed) = consumed - 1 /\ hand[Tick] = consumed
  /\ Len(executed) <= consumed
  /\ \A k \in 1 .. Len(executed) : executed[k] = k

Progress ==
  /\ executed \in Seq(Packets)
  /\ pc \in {"read", "execute"} => open
  /\ pc = "read" =>
       /\ ring # <<>>
       /\ InPlace => /\ hand[Tick] = AtHead /\ 1 + Size <= Len(ring)
                     /\ headers[AtHead].kind # "unknown"
  /\ Sound => InStep

\* Sequences cut and put together.
LEMMA DropIs ==
  ASSUME NEW S, NEW s \in Seq(S), NEW n \in 0 .. Len(s)
  PROVE  /\ Drop(s, n) \in Seq(S) /\ Len(Drop(s, n)) = Len(s) - n
         /\ \A k \in 1 .. Len(s) - n : Drop(s, n)[k] = s[k + n]
<1>1. Len(s) \in Nat BY LenProperties
<1>2. \A k \in n + 1 .. Len(s) : s[k] \in S BY <1>1, ElementOfSeq
<1>3. n + 1 \in Int /\ Len(s) \in Int BY <1>1
<1>4. /\ SubSeq(s, n + 1, Len(s)) \in Seq(S)
      /\ Len(SubSeq(s, n + 1, Len(s))) =
           IF n + 1 <= Len(s) THEN Len(s) - (n + 1) + 1 ELSE 0
      /\ \A k \in 1 .. Len(s) - (n + 1) + 1 :
           SubSeq(s, n + 1, Len(s))[k] = s[n + 1 + k - 1]
  BY <1>2, <1>3, SubSeqProperties
<1> QED BY <1>1, <1>4 DEF Drop

LEMMA SeqWider ==
  ASSUME NEW S, NEW T, S \subseteq T, NEW s \in Seq(S) PROVE s \in Seq(T)
<1>1. Len(s) \in Nat /\ DOMAIN s = 1 .. Len(s) /\ s \in [1 .. Len(s) -> S]
  BY LenProperties
<1>2. s \in [1 .. Len(s) -> T] BY <1>1
<1> QED BY <1>1, <1>2, SeqDef

LEMMA MovesOver ==
  ASSUME NEW S, NEW r \in Seq(S), NEW w \in Seq(S), NEW n \in 0 .. Len(w)
  PROVE  /\ r \o SubSeq(w, 1, n) \in Seq(S) /\ Drop(w, n) \in Seq(S)
         /\ (r \o SubSeq(w, 1, n)) \o Drop(w, n) = r \o w
<1>1. Len(w) \in Nat BY LenProperties
<1>2. \A k \in 1 .. n : w[k] \in S BY <1>1, ElementOfSeq
<1>3. SubSeq(w, 1, n) \in Seq(S) BY <1>2, SubSeqProperties
<1>4. Drop(w, n) \in Seq(S) BY DropIs
<1>5. 1 \in 1 .. Len(w) + 1 /\ n \in 1 - 1 .. Len(w) /\ Len(w) \in n .. Len(w)
  BY <1>1
<1>6. SubSeq(w, 1, n) \o SubSeq(w, n + 1, Len(w)) = SubSeq(w, 1, Len(w))
  BY <1>5, ConcatAdjacentSubSeq
<1>7. SubSeq(w, 1, Len(w)) = w BY SubSeqFull
<1>8. (r \o SubSeq(w, 1, n)) \o Drop(w, n) = r \o (SubSeq(w, 1, n) \o Drop(w, n))
  <2> DEFINE a == SubSeq(w, 1, n)
             b == Drop(w, n)
  <2>1. a \in Seq(S) /\ b \in Seq(S) BY <1>3, <1>4
  <2> HIDE DEF a, b
  <2>2. (r \o a) \o b = r \o (a \o b) BY <2>1, ConcatAssociative
  <2> QED BY <2>2 DEF a, b
<1>9. r \o SubSeq(w, 1, n) \in Seq(S) BY <1>3, ConcatProperties
<1> QED BY <1>4, <1>6, <1>7, <1>8, <1>9 DEF Drop

\* What is appended to the wire is appended to the whole.
LEMMA Appended ==
  ASSUME NEW S, NEW r \in Seq(S), NEW w \in Seq(S), NEW u \in Seq(S)
  PROVE  r \o (w \o u) = (r \o w) \o u
BY ConcatAssociative

LEMMA DropsFront ==
  ASSUME NEW S, NEW r \in Seq(S), NEW w \in Seq(S), NEW n \in 0 .. Len(r)
  PROVE  /\ Drop(r, n) \o w \in Seq(S)
         /\ Len(Drop(r, n) \o w) = Len(r \o w) - n
         /\ \A k \in 1 .. Len(r \o w) - n :
              (Drop(r, n) \o w)[k] = (r \o w)[k + n]
<1> DEFINE R == r \o w
           T == Drop(r, n) \o w
<1>1. Len(r) \in Nat /\ Len(w) \in Nat BY LenProperties
<1> DEFINE d == Drop(r, n)
<1>2. /\ d \in Seq(S) /\ Len(d) = Len(r) - n
      /\ \A k \in 1 .. Len(r) - n : d[k] = r[k + n]
  BY DropIs
<1>3. T = d \o w OBVIOUS
<1> HIDE DEF d, T
<1>4. /\ T \in Seq(S) /\ Len(T) = Len(d) + Len(w)
      /\ \A k \in 1 .. Len(d) + Len(w) :
           T[k] = IF k <= Len(d) THEN d[k] ELSE w[k - Len(d)]
  <2>1. /\ d \o w \in Seq(S) /\ Len(d \o w) = Len(d) + Len(w)
        /\ \A k \in 1 .. Len(d) + Len(w) :
             (d \o w)[k] = IF k <= Len(d) THEN d[k] ELSE w[k - Len(d)]
    BY <1>2, ConcatProperties
  <2> QED BY <2>1, <1>3
<1>5. /\ Len(R) = Len(r) + Len(w)
      /\ \A k \in 1 .. Len(r) + Len(w) :
           R[k] = IF k <= Len(r) THEN r[k] ELSE w[k - Len(r)]
  BY ConcatProperties
<1>6. ASSUME NEW k \in 1 .. Len(T) PROVE T[k] = R[k + n]
  <2>1. k \in 1 .. Len(d) + Len(w) /\ k + n \in 1 .. Len(r) + Len(w)
    BY <1>1, <1>2, <1>4
  <2>2. CASE k <= Len(d)
    <3>1. k \in 1 .. Len(r) - n /\ k + n <= Len(r) BY <2>1, <2>2, <1>1, <1>2
    <3> QED BY <2>1, <2>2, <3>1, <1>2, <1>4, <1>5
  <2>3. CASE k > Len(d)
    <3>1. ~(k <= Len(d)) /\ ~(k + n <= Len(r)) /\ k + n - Len(r) = k - Len(d)
      BY <2>1, <2>3, <1>1, <1>2
    <3> QED BY <2>1, <3>1, <1>4, <1>5
  <2> QED BY <2>2, <2>3, <1>1, <1>2, <1>4
<1>7. Len(T) = Len(R) - n BY <1>1, <1>2, <1>4, <1>5
<1>8. \A k \in 1 .. Len(R) - n : T[k] = R[k + n] BY <1>6, <1>7
<1> QED BY <1>4, <1>7, <1>8 DEF T

LEMMA UnitsBehind ==
  ASSUME NEW R \in Seq(Unit), NEW l \in Nat, NEW n \in Nat,
         l + 1 \in 1 .. StreamPackets
  PROVE  /\ Units(l + 1, 1 + n) \in Seq(Unit)
         /\ Units(l + 1, 1 + n) \in Seq((1 .. l + 1) \X Nat)
         /\ R \o Units(l + 1, 1 + n) \in Seq(Unit)
         /\ Len(R \o Units(l + 1, 1 + n)) = Len(R) + 1 + n
         /\ \A k \in 1 .. Len(R) : (R \o Units(l + 1, 1 + n))[k] = R[k]
         /\ \A m \in 0 .. n :
              (R \o Units(l + 1, 1 + n))[Len(R) + 1 + m] = <<l + 1, m>>
<1> DEFINE U == Units(l + 1, 1 + n)
           T == R \o U
<1>1. U = [k \in 1 .. 1 + n |-> <<l + 1, k - 1>>] BY DEF Units
<1>2. T = R \o U BY DEF T
<1>3. \A k \in 1 .. 1 + n : <<l + 1, k - 1>> \in Unit BY DEF Unit
<1> HIDE DEF U, T
<1>4. U \in [1 .. 1 + n -> Unit] /\ 1 + n \in Nat BY <1>1, <1>3
<1>5. U \in Seq(Unit) BY <1>4, SeqDef
<1>6. Len(U) = 1 + n
  <2>1. DOMAIN U = 1 .. Len(U) /\ Len(U) \in Nat BY <1>5, LenProperties
  <2> QED BY <2>1, <1>1, <1>4
<1>7. Len(R) \in Nat BY LenProperties
<1>8. /\ T \in Seq(Unit) /\ Len(T) = Len(R) + Len(U)
      /\ \A k \in 1 .. Len(R) + Len(U) :
           T[k] = IF k <= Len(R) THEN R[k] ELSE U[k - Len(R)]
  BY <1>2, <1>5, ConcatProperties
<1>9. \A k \in 1 .. Len(R) : T[k] = R[k] BY <1>6, <1>7, <1>8
<1>10. ASSUME NEW m \in 0 .. n PROVE T[Len(R) + 1 + m] = <<l + 1, m>>
  <2>1. /\ Len(R) + 1 + m \in 1 .. Len(R) + Len(U)
        /\ ~(Len(R) + 1 + m <= Len(R)) /\ Len(R) + 1 + m - Len(R) = 1 + m
    BY <1>6, <1>7
  <2>2. T[Len(R) + 1 + m] = U[1 + m] BY <2>1, <1>8
  <2>3. 1 + m \in 1 .. 1 + n /\ 1 + m - 1 = m OBVIOUS
  <2>4. U[1 + m] = <<l + 1, 1 + m - 1>> BY <2>3, <1>1
  <2> QED BY <2>2, <2>3, <2>4
<1>11. Len(T) = Len(R) + 1 + n BY <1>6, <1>7, <1>8
<1>12. U \in Seq((1 .. l + 1) \X Nat)
  <2>1. \A k \in 1 .. 1 + n : <<l + 1, k - 1>> \in (1 .. l + 1) \X Nat OBVIOUS
  <2>2. U \in [1 .. 1 + n -> (1 .. l + 1) \X Nat] BY <1>1, <2>1
  <2> QED BY <1>4, <2>2, SeqDef
<1> QED BY <1>5, <1>8, <1>9, <1>10, <1>11, <1>12, Zenon DEF T, U

\* The units of the stream, whatever was sent.
LEMMA StreamUnits ==
  ASSUME StreamTypes
  PROVE  ring \in Seq(Unit) /\ wire \in Seq(Unit) /\ Rest \in Seq(Unit)
<1> USE DEF StreamTypes, RingTypes
<1>1. Len(headers) \in Nat /\ StreamPackets \in Nat
  BY LenProperties, DispatchAssumption
<1>2. Sent \subseteq Unit BY <1>1 DEF Sent, Unit
<1>3. ring \in Seq(Unit) BY <1>2, SeqWider
<1>4. wire \in Seq(Unit) BY <1>2, SeqWider
<1> QED BY <1>3, <1>4, ConcatProperties DEF Rest

LEMMA SoundSame == UNCHANGED <<headers, consumed>> => (Sound' <=> Sound)
BY DEF Sound

\* What the peer sends does not make sound what was not, or the reverse.
LEMMA SoundSend ==
  ASSUME Synced, NEW h \in Header, Send(h.size, h.kind) PROVE Sound' <=> Sound
<1>1. /\ headers \in Seq(Header) /\ Len(headers) \in Nat /\ consumed' = consumed
      /\ consumed \in Nat /\ headers' = Append(headers, [size |-> h.size, kind |-> h.kind])
  BY LenProperties DEF Send, Synced, StreamTypes
<1>2. [size |-> h.size, kind |-> h.kind] \in Header BY DEF Header
<1>3. /\ Len(headers') = Len(headers) + 1
      /\ \A q \in 1 .. Len(headers) : headers'[q] = headers[q]
  BY <1>1, <1>2, AppendProperties
<1>4. Sound => consumed <= Len(headers) BY DEF Synced, InPosition
<1>5. ASSUME Sound PROVE Sound'
  <2> SUFFICES ASSUME NEW q \in 1 .. Len(headers'), q <= consumed
               PROVE  headers'[q].kind # "unsound"
    BY <1>1 DEF Sound
  <2>1. q \in 1 .. Len(headers) BY <1>1, <1>3, <1>4, <1>5
  <2> QED BY <1>3, <1>5, <2>1 DEF Sound
<1>6. ASSUME Sound' PROVE Sound
  <2> SUFFICES ASSUME NEW q \in 1 .. Len(headers), q <= consumed
               PROVE  headers[q].kind # "unsound"
    BY DEF Sound
  <2>1. q \in 1 .. Len(headers') /\ headers'[q] = headers[q] BY <1>1, <1>3
  <2> QED BY <1>1, <1>6, <2>1 DEF Sound
<1> QED BY <1>5, <1>6

\* What arrives was on its way, so the rest stays what it is.
LEMMA SyncedInput ==
  ASSUME Synced, Input PROVE Synced'
<1> USE DEF Synced, StreamTypes
<1>1. PICK n \in 0 .. Len(wire) :
        /\ open /\ Len(ring) + n <= Limit
        /\ ring' = ring \o SubSeq(wire, 1, n) /\ wire' = Drop(wire, n)
  BY DEF Input
<1>2. UNCHANGED <<headers, open, consumed>> BY DEF Input
<1>3. ring \in Seq(Sent) /\ wire \in Seq(Sent) BY DEF RingTypes
<1>4. ring' \in Seq(Sent) /\ wire' \in Seq(Sent) /\ ring' \o wire' = ring \o wire
  <2> HIDE DEF Synced, StreamTypes
  <2>0. \A r, w \in Seq(Sent) : \A d \in 0 .. Len(w) :
          /\ r \o SubSeq(w, 1, d) \in Seq(Sent) /\ Drop(w, d) \in Seq(Sent)
          /\ (r \o SubSeq(w, 1, d)) \o Drop(w, d) = r \o w
    BY MovesOver
  <2>1. ring \o SubSeq(wire, 1, n) \in Seq(Sent) BY <1>3, <2>0
  <2>2. Drop(wire, n) \in Seq(Sent) BY <1>3, <2>0
  <2>3. (ring \o SubSeq(wire, 1, n)) \o Drop(wire, n) = ring \o wire
    BY <1>3, <2>0
  <2>4. ring' \o wire' = (ring \o SubSeq(wire, 1, n)) \o Drop(wire, n)
    BY <1>1
  <2> QED BY <2>1, <2>2, <2>3, <2>4, <1>1
<1>5. Len(ring') = Len(ring) + n
  <2>1. Len(wire) \in Nat /\ Len(ring) \in Nat BY <1>3, LenProperties
  <2>2. \A k \in 1 .. n : wire[k] \in Sent BY <1>3, <2>1, ElementOfSeq
  <2>3. /\ SubSeq(wire, 1, n) \in Seq(Sent)
        /\ Len(SubSeq(wire, 1, n)) = IF 1 <= n THEN n - 1 + 1 ELSE 0
    BY <2>2, SubSeqProperties
  <2>4. Len(ring') = Len(ring) + Len(SubSeq(wire, 1, n))
    BY <1>1, <1>3, <2>3, ConcatProperties
  <2> QED BY <2>1, <2>3, <2>4
<1>6. Sent' = Sent BY <1>2 DEF Sent
<1>7. RingTypes' BY <1>4, <1>6 DEF RingTypes
<1>8. Rest' = Rest BY <1>4 DEF Rest
<1>9. Sound => InPosition BY DEF Synced
<1>10. Sound' <=> Sound BY <1>2, SoundSame
<1>11. InPosition <=> InPosition' BY <1>2, <1>8 DEF InPosition
<1>12. StreamTypes' BY <1>1, <1>2, <1>5, <1>7
<1> QED BY <1>1, <1>2, <1>9, <1>10, <1>11, <1>12

LEMMA SyncedClosed ==
  ASSUME Synced, Closes, UNCHANGED <<headers, consumed>> PROVE Synced'
<1>1. ring' = <<>> /\ wire' = <<>> /\ open' = FALSE BY DEF Closes
<1>2. RingTypes' BY <1>1, EmptySeq DEF RingTypes
<1>3. Len(ring') <= Limit BY <1>1, EmptySeq, DispatchAssumption
<1>4. StreamTypes' BY <1>1, <1>2, <1>3 DEF Synced, StreamTypes
<1>5. Sound' => InPosition' BY <1>1, SoundSame DEF Synced, InPosition
<1> QED BY <1>1, <1>4, <1>5 DEF Synced

LEMMA SyncedSend ==
  ASSUME Synced, NEW h \in Header, Send(h.size, h.kind) PROVE Synced'
<1> DEFINE L == Len(headers)
           n == h.size
           mine == [size |-> h.size, kind |-> h.kind]
<1>0. StreamTypes BY DEF Synced
<1>1. /\ L \in Nat /\ L + 1 \in 1 .. StreamPackets /\ n \in Nat /\ mine \in Header
      /\ open /\ headers' = Append(headers, mine)
      /\ wire' = wire \o Units(L + 1, 1 + n)
      /\ UNCHANGED <<ring, open, consumed>>
  <2>1. L \in Nat /\ StreamPackets \in Nat
    BY <1>0, DispatchAssumption, LenProperties DEF StreamTypes
  <2>2. n \in Nat /\ mine \in Header BY DispatchAssumption DEF Header
  <2>3. /\ L < StreamPackets /\ open /\ headers' = Append(headers, mine)
        /\ wire' = wire \o Units(L + 1, 1 + n)
        /\ UNCHANGED <<ring, open, consumed>>
    BY DEF Send
  <2> QED BY <2>1, <2>2, <2>3
<1>2. /\ headers' \in Seq(Header) /\ Len(headers') = L + 1
      /\ \A q \in 1 .. L : headers'[q] = headers[q]
      /\ headers'[L + 1].size = n
  BY <1>0, <1>1, AppendProperties DEF StreamTypes
<1>3. ring \in Seq(Unit) /\ wire \in Seq(Unit) /\ Rest \in Seq(Unit)
  BY <1>0, StreamUnits
<1> HIDE DEF L, n, mine
<1>4. /\ Units(L + 1, 1 + n) \in Seq(Unit)
      /\ Units(L + 1, 1 + n) \in Seq((1 .. L + 1) \X Nat)
  BY <1>1, <1>3, UnitsBehind
<1>5. Rest' = Rest \o Units(L + 1, 1 + n)
  <2> DEFINE U == Units(L + 1, 1 + n)
  <2>1. Rest' = ring \o (wire \o U) BY <1>1 DEF Rest
  <2>2. U \in Seq(Unit) BY <1>4
  <2> HIDE DEF U
  <2>3. ring \o (wire \o U) = (ring \o wire) \o U
    BY ONLY <1>3, <2>2, Appended
  <2>4. Rest' = Rest \o U BY <2>1, <2>3, Zenon DEF Rest
  <2> QED BY <2>4 DEF U
<1>6. RingTypes'
  <2>1. Sent' = (1 .. L + 1) \X Nat BY <1>2 DEF Sent
  <2>2. Sent \subseteq Sent' BY <1>1, <2>1 DEF Sent, L
  <2>3. ring \in Seq(Sent) /\ wire \in Seq(Sent) BY <1>0 DEF StreamTypes, RingTypes
  <2>4. ring \in Seq(Sent') BY <2>2, <2>3, SeqWider
  <2>5. wire \in Seq(Sent') BY <2>2, <2>3, SeqWider
  <2>6. wire' \in Seq(Sent') BY <1>1, <1>4, <2>1, <2>5, ConcatProperties
  <2> QED BY <1>1, <2>4, <2>6 DEF RingTypes
<1>7. StreamTypes' BY <1>0, <1>1, <1>2, <1>6 DEF StreamTypes
<1>8. ASSUME Sound' PROVE InPosition'
  <2>1. Sound BY <1>8, SoundSend
  <2>2. /\ Ordered(Rest, headers, consumed) /\ Whole(Rest, headers)
        /\ consumed \in Nat /\ headers \in Seq(Header) /\ consumed <= Len(headers)
    BY <2>1, <1>0, <1>1 DEF Synced, InPosition, StreamTypes
  <2>3. /\ headers' \in Seq(Header) /\ Len(headers') = Len(headers) + 1
        /\ \A q \in 1 .. Len(headers) : headers'[q] = headers[q]
        /\ headers'[Len(headers) + 1].size = n
    BY <1>2 DEF L
  <2>4. /\ Rest' \in Seq(Unit) /\ Len(Rest') = Len(Rest) + 1 + n
        /\ \A k \in 1 .. Len(Rest) : Rest'[k] = Rest[k]
        /\ \A m \in 0 .. n : Rest'[Len(Rest) + 1 + m] = <<L + 1, m>>
    <3> USE <1>1, <1>3, <1>5, UnitsBehind
    <3>1. Rest' \in Seq(Unit) OBVIOUS
    <3>2. Len(Rest') = Len(Rest) + 1 + n OBVIOUS
    <3>3. \A k \in 1 .. Len(Rest) : Rest'[k] = Rest[k] OBVIOUS
    <3>4. \A m \in 0 .. n : Rest'[Len(Rest) + 1 + m] = <<L + 1, m>> OBVIOUS
    <3> QED BY <3>1, <3>2, <3>3, <3>4
  <2>5. \A m \in 0 .. n : Rest'[Len(Rest) + 1 + m] = <<Len(headers) + 1, m>>
    BY <2>4 DEF L
  <2>6. n \in Nat BY <1>1
  <2>9. /\ Rest' \in Seq(Unit) /\ Len(Rest') = Len(Rest) + 1 + n
        /\ \A k \in 1 .. Len(Rest) : Rest'[k] = Rest[k]
    BY <2>4
  <2>7. Ordered(Rest', headers', consumed) /\ Whole(Rest', headers')
    <3>1. OneMore(Rest, Rest', consumed, headers, headers', n)
      BY ONLY <2>2, <2>3, <2>5, <2>6, <2>9, <1>3 DEF OneMore
    <3> QED BY ONLY <3>1, <2>2, PacketMore
  <2>8. consumed <= Len(headers') BY <1>1, <2>2, <2>3 DEF L
  <2> QED BY <2>7, <2>8, <1>1 DEF InPosition
<1> QED BY <1>1, <1>7, <1>8 DEF Synced

\* The unit at the front is the header of the next packet.
LEMMA SyncedFront ==
  ASSUME Synced, Sound, open, ring # <<>>
  PROVE  /\ AtHead = consumed + 1 /\ InPlace /\ AtHead \in 1 .. Len(headers)
         /\ Size \in Nat /\ Size = headers[consumed + 1].size
         /\ Len(ring) \in Nat \ {0}
<1>0. StreamTypes /\ Ordered(Rest, headers, consumed) BY DEF Synced, InPosition
<1>1. /\ ring \in Seq(Unit) /\ wire \in Seq(Unit)
      /\ Len(ring) \in Nat \ {0} /\ Len(wire) \in Nat
  BY <1>0, StreamUnits, EmptySeq, LenProperties
<1>2. /\ Len(Rest) = Len(ring) + Len(wire)
      /\ Rest[1] = ring[1]
  <2>1. /\ Len(ring \o wire) = Len(ring) + Len(wire)
        /\ \A k \in 1 .. Len(ring) + Len(wire) :
             (ring \o wire)[k] =
               IF k <= Len(ring) THEN ring[k] ELSE wire[k - Len(ring)]
    BY <1>1, ConcatProperties
  <2>2. 1 \in 1 .. Len(ring) + Len(wire) /\ 1 <= Len(ring) BY <1>1
  <2> QED BY <2>1, <2>2 DEF Rest
<1>3. Rest[1] = <<consumed + 1, 0>> BY <1>0, <1>1, <1>2 DEF Ordered
<1>4. Head(ring) = <<consumed + 1, 0>>
  <2>1. Head(ring) = ring[1] BY <1>1
  <2> QED BY <2>1, <1>2, <1>3
<1>5. AtHead = consumed + 1 /\ InPlace BY <1>4 DEF AtHead, InPlace
<1>6. AtHead \in 1 .. Len(headers) /\ Size \in Nat BY <1>0, HeadInRange
<1> QED BY <1>1, <1>5, <1>6 DEF Size

\* A packet that is whole leaves the ring.
LEMMA SyncedRead ==
  ASSUME Synced, open, ring # <<>>,
         InPlace => /\ 1 + Size <= Len(ring)
                    /\ headers[AtHead].kind # "unknown",
         NEW n \in Bodies, ring' = Drop(ring, 1 + n), consumed' = consumed + 1,
         UNCHANGED <<headers, wire, open>>
  PROVE  Synced'
<1>0. StreamTypes BY DEF Synced
<1>1. /\ ring \in Seq(Unit) /\ wire \in Seq(Unit) /\ Rest \in Seq(Unit)
      /\ ring \in Seq(Sent) /\ wire \in Seq(Sent)
      /\ Len(ring) \in Nat \ {0} /\ Len(wire) \in Nat /\ Len(ring) <= Limit
      /\ consumed \in Nat /\ Limit \in Nat
  BY <1>0, StreamUnits, EmptySeq, LenProperties, DispatchAssumption
     DEF StreamTypes, RingTypes
<1>2. n \in Nat /\ 1 + n <= Len(ring) /\ 1 + n \in 0 .. Len(ring)
  BY <1>0, <1>1, HeadInRange DEF Bodies
<1>3. ring' \in Seq(Sent) /\ Len(ring') = Len(ring) - (1 + n)
  BY <1>1, <1>2, DropIs
<1>4. RingTypes' BY <1>1, <1>3 DEF RingTypes, Sent
<1>5. Len(ring') <= Limit BY <1>1, <1>2, <1>3
<1>6. StreamTypes' BY <1>0, <1>1, <1>4, <1>5 DEF StreamTypes
<1>7. ASSUME Sound' PROVE InPosition'
  <2>1. \A q \in 1 .. Len(headers) : q <= consumed + 1 => headers[q].kind # "unsound"
    BY <1>7 DEF Sound
  <2>2. Sound BY <2>1, <1>1 DEF Sound
  <2>3. /\ AtHead = consumed + 1 /\ InPlace /\ AtHead \in 1 .. Len(headers)
        /\ Size = headers[consumed + 1].size
    BY <2>2, SyncedFront
  <2>4. headers[AtHead].kind = "sound"
    <3>1. headers[AtHead] \in Header BY <1>0, HeadInRange
    <3>2. headers[AtHead].kind # "unsound" BY <2>1, <2>3, <1>1
    <3>3. headers[AtHead].kind # "unknown" BY <2>3
    <3> QED BY <3>1, <3>2, <3>3 DEF Header
  <2>5. headers[consumed + 1].size = n BY <2>3, <2>4 DEF Bodies
  <2>6. /\ Ordered(Rest, headers, consumed) /\ Whole(Rest, headers)
        /\ headers \in Seq(Header) /\ consumed <= Len(headers)
    BY <1>0, <2>2 DEF Synced, InPosition, StreamTypes
  <2>7. Len(Rest) = Len(ring) + Len(wire) BY <1>1, ConcatProperties DEF Rest
  <2>8. Len(Rest) # 0 /\ 1 + n <= Len(Rest) BY <1>1, <1>2, <2>7
  <2>9. /\ Rest' \in Seq(Unit) /\ Len(Rest') = Len(Rest) - (1 + n)
        /\ \A k \in 1 .. Len(Rest') : Rest'[k] = Rest[k + (1 + n)]
    <3> DEFINE m == 1 + n
    <3>1. Rest' = Drop(ring, m) \o wire /\ Rest = ring \o wire BY DEF Rest
    <3>2. m \in 0 .. Len(ring) BY <1>2
    <3> HIDE DEF m
    <3>3. \A r, w \in Seq(Unit) : \A d \in 0 .. Len(r) :
            Drop(r, d) \o w \in Seq(Unit)
      BY DropsFront
    <3>4. \A r, w \in Seq(Unit) : \A d \in 0 .. Len(r) :
            Len(Drop(r, d) \o w) = Len(r \o w) - d
      BY DropsFront
    <3>5. ASSUME NEW r \in Seq(Unit), NEW w \in Seq(Unit), NEW d \in 0 .. Len(r)
          PROVE  \A k \in 1 .. Len(r \o w) - d :
                   (Drop(r, d) \o w)[k] = (r \o w)[k + d]
      BY ONLY DropsFront
    <3>6. Rest' \in Seq(Unit) BY <1>1, <3>1, <3>2, <3>3
    <3>7. Len(Rest') = Len(Rest) - m BY <1>1, <3>1, <3>2, <3>4
    <3>8. \A k \in 1 .. Len(Rest) - m : Rest'[k] = Rest[k + m]
      BY <1>1, <3>1, <3>2, <3>5
    <3> QED BY <3>6, <3>7, <3>8 DEF m
  <2>10. \A k \in 1 .. Len(Rest') : Rest'[k] = Rest[k + 1 + n]
    <3> SUFFICES ASSUME NEW k \in 1 .. Len(Rest')
                 PROVE  Rest'[k] = Rest[k + 1 + n]
      OBVIOUS
    <3>1. k + (1 + n) = k + 1 + n BY <1>2
    <3> QED BY <3>1, <2>9
  <2>11. ASSUME NEW T \in Seq(Unit), Len(T) = Len(Rest) - (1 + n),
                \A k \in 1 .. Len(T) : T[k] = Rest[k + 1 + n]
         PROVE  /\ consumed + 1 <= Len(headers)
                /\ Ordered(T, headers, consumed + 1) /\ Whole(T, headers)
    <3>1. /\ Rest \in Seq(Unit) /\ consumed \in Nat /\ n \in Nat BY <1>1, <1>2
    <3>2. OneLess(Rest, T, consumed, headers, n)
      BY ONLY <3>1, <2>5, <2>6, <2>8, <2>11 DEF OneLess
    <3> QED BY ONLY <3>2, <2>6, PacketLess
  <2>12. /\ consumed + 1 <= Len(headers)
         /\ Ordered(Rest', headers, consumed + 1) /\ Whole(Rest', headers)
    BY <2>9, <2>10, <2>11
  <2> QED BY <2>12 DEF InPosition
<1> QED BY <1>6, <1>7 DEF Synced

LEMMA SyncedUnmoved ==
  ASSUME Synced, UNCHANGED <<headers, wire, ring, open, consumed>> PROVE Synced'
<1>1. StreamTypes' BY DEF Synced, StreamTypes, RingTypes, Sent
<1>2. Sound' => InPosition' BY SoundSame DEF Synced, InPosition, Rest
<1> QED BY <1>1, <1>2 DEF Synced

-----------------------------------------------------------------------------
(* The invariant *)

DispatchInv == Control /\ Synced /\ Progress

LEMMA SyncedTick ==
  ASSUME DispatchInv, TickStep PROVE Synced'
<1>0. Synced BY DEF DispatchInv
<1>1. CASE Input BY <1>0, <1>1, SyncedInput
<1>2. CASE InputOverflow BY <1>0, <1>2, SyncedClosed DEF InputOverflow
<1>3. CASE InputClosed BY <1>0, <1>3, SyncedUnmoved DEF InputClosed, stream
<1>4. CASE LoopDone BY <1>0, <1>4, SyncedUnmoved DEF LoopDone, stream
<1>5. CASE Refuse BY <1>0, <1>5, SyncedClosed DEF Refuse
<1>6. CASE Make BY <1>0, <1>6, SyncedUnmoved DEF Make, stream
<1>7. CASE Read
  <2>1. /\ open /\ ring # <<>>
        /\ InPlace => /\ 1 + Size <= Len(ring)
                      /\ headers[AtHead].kind # "unknown"
    BY <1>7 DEF Read, DispatchInv, Progress
  <2>2. PICK n \in Bodies : ring' = Drop(ring, 1 + n) BY <1>7 DEF Read
  <2>3. consumed' = consumed + 1 /\ UNCHANGED <<headers, wire, open>> BY <1>7 DEF Read
  <2> QED BY <1>0, <2>1, <2>2, <2>3, SyncedRead
<1>8. CASE ReadFails \/ ReadThrows
  BY <1>0, <1>8, SyncedClosed DEF ReadFails, ReadThrows
<1>9. CASE Executes
  <2>1. CASE Closes BY <1>0, <1>9, <2>1, SyncedClosed DEF Executes
  <2>2. CASE UNCHANGED <<open, ring, wire>>
    BY <1>0, <1>9, <2>2, SyncedUnmoved DEF Executes
  <2> QED BY <1>9, <2>1, <2>2 DEF Executes
<1>10. CASE Removed
  <2>1. CASE UNCHANGED stream BY <1>0, <2>1, SyncedUnmoved DEF stream
  <2>2. CASE Closes /\ UNCHANGED <<headers, consumed, executed>>
    BY <1>0, <2>2, SyncedClosed
  <2> QED BY <1>10, <2>1, <2>2 DEF Removed
<1>11. CASE Take BY <1>0, <1>11, SyncedUnmoved DEF Take, stream
<1>12. CASE TakeNothing BY <1>0, <1>12, SyncedUnmoved DEF TakeNothing, stream
<1>13. CASE Serve \/ ServeStray
  BY <1>0, <1>13, SyncedUnmoved DEF Serve, ServeStray, stream
<1>14. CASE Served BY <1>0, <1>14, SyncedUnmoved DEF Served, stream
<1>15. CASE FactoryRuns(Tick)
  BY <1>0, <1>15, SyncedUnmoved DEF FactoryRuns, stream
<1> QED BY <1>1, <1>2, <1>3, <1>4, <1>5, <1>6, <1>7, <1>8, <1>9, <1>10, <1>11,
           <1>12, <1>13, <1>14, <1>15 DEF TickStep, Execute, ExecutePassOn

\* What leaves the tick and its packets alone leaves its progress alone.
LEMMA ProgressUnmoved ==
  ASSUME Progress, pc' = pc, hand'[Tick] = hand[Tick],
         UNCHANGED <<headers, ring, open, consumed, executed>>
  PROVE  Progress'
BY DEF Progress, InStep, Sound, InPlace, AtHead, Size

\* So does a packet more on the way: the headers before it stay.
LEMMA ProgressSend ==
  ASSUME DispatchInv, NEW h \in Header, Send(h.size, h.kind)
  PROVE  Progress'
<1> USE DEF DispatchInv
<1>1. UNCHANGED <<ring, open, consumed, executed, pc, hand>>
  BY DEF Send, tick
<1>2. ASSUME pc = "read" PROVE headers'[AtHead] = headers[AtHead]
  <2>1. AtHead \in 1 .. Len(headers) BY <1>2, HeadInRange DEF Progress, Synced
  <2>2. headers \in Seq(Header) /\ [size |-> h.size, kind |-> h.kind] \in Header
    BY DEF Synced, StreamTypes, Header
  <2> QED BY <2>1, <2>2, AppendProperties DEF Send
<1>3. AtHead' = AtHead /\ (InPlace' <=> InPlace) BY <1>1 DEF AtHead, InPlace
<1>4. Sound' <=> Sound BY SoundSend
<1>5. InStep => InStep' BY <1>1 DEF InStep
<1>6. Progress BY DEF DispatchInv
<1> HIDE DEF DispatchInv
<1> QED BY <1>1, <1>2, <1>3, <1>4, <1>5, <1>6 DEF Progress, Size

\* A packet is executed after those that came before it.
LEMMA ProgressExecutes ==
  ASSUME DispatchInv, Executes, pc' # "execute", pc' # "read"
  PROVE  Progress'
<1>1. /\ pc = "execute" /\ Progress /\ executed' = Append(executed, hand[Tick])
      /\ UNCHANGED <<headers, consumed>> /\ consumed \in Nat
  BY DEF Executes, DispatchInv, Synced, StreamTypes
<1>2. executed \in Seq(Packets) /\ Len(executed) \in Nat
  BY <1>1, LenProperties DEF Progress
<1>3. hand[Tick] \in Packets
  BY <1>1, Nonzero, DispatchAssumption
     DEF DispatchInv, Control, Core, CoreTypes, Place, Maybe
<1>4. /\ executed' \in Seq(Packets) /\ Len(executed') = Len(executed) + 1
      /\ \A k \in 1 .. Len(executed) : executed'[k] = executed[k]
      /\ executed'[Len(executed) + 1] = hand[Tick]
  BY <1>1, <1>2, <1>3, AppendProperties
<1>5. ASSUME Sound' PROVE InStep'
  <2>1. InStep BY <1>1, <1>5, SoundSame DEF Progress
  <2>2. hand[Tick] = Len(executed) + 1 /\ consumed = Len(executed) + 1
    BY <1>1, <1>2, <2>1 DEF InStep
  <2>3. \A k \in 1 .. Len(executed) : executed[k] = k BY <2>1 DEF InStep
  <2>4. \A k \in 1 .. Len(executed') : executed'[k] = k
    BY <1>2, <1>4, <2>2, <2>3
  <2>5. Len(executed') = consumed' /\ Len(executed') <= consumed'
    BY <1>1, <1>2, <1>4, <2>2
  <2> QED BY <2>4, <2>5 DEF InStep
<1> QED BY <1>4, <1>5 DEF Progress

\* What leaves the packets taken and executed alone, and does not go where
\* the tick works with one.
LEMMA ProgressElsewhere ==
  ASSUME Progress, pc # "execute", pc' \notin {"read", "execute"}, open' \in {open, FALSE},
         UNCHANGED <<headers, consumed, executed>>
  PROVE  Progress'
<1>1. Sound' => InStep'
  <2>1. Sound' => Sound BY SoundSame
  <2>2. Sound => InStep BY DEF Progress
  <2>3. open' => open OBVIOUS
  <2> QED BY <2>1, <2>2, <2>3 DEF InStep
<1> QED BY <1>1 DEF Progress

LEMMA ProgressMake ==
  ASSUME DispatchInv, Make PROVE Progress'
<1>1. /\ pc = "peek" /\ pc' = "read" /\ ring # <<>>
      /\ UNCHANGED <<headers, wire, ring, open, consumed, executed>>
  BY DEF Make, Goes, stream
<1>2. PICK h \in Peeked, q \in Named :
        h.kind # "unknown" /\ ~Short(h) /\ Holds(Tick, q)
  BY DEF Make
<1>3. /\ Progress /\ Synced /\ StreamTypes /\ Tick \in Threads
      /\ hand \in [Threads -> Maybe(Packets)]
  BY DispatchAssumption DEF DispatchInv, Synced, Control, Core, CoreTypes
<1>4. open BY <1>1, <1>3 DEF Synced, StreamTypes
<1>5. hand'[Tick] = q BY <1>2, <1>3 DEF Holds
<1>6. UNCHANGED <<AtHead, Size>> /\ (InPlace' <=> InPlace)
  BY <1>1 DEF AtHead, Size, InPlace
<1>7. ASSUME InPlace
      PROVE  /\ q = AtHead /\ 1 + Size <= Len(ring)
             /\ headers[AtHead].kind # "unknown"
  <2>1. q = AtHead /\ h = headers[AtHead] BY <1>2, <1>7 DEF Named, Peeked
  <2>2. Size \in Nat /\ Len(ring) \in Nat
    BY <1>1, <1>3, HeadInRange, LenProperties DEF StreamTypes, RingTypes
  <2> QED BY <1>2, <2>1, <2>2 DEF Short, Size
<1>8. ASSUME Sound' PROVE InStep'
  BY <1>1, <1>3, <1>8, SoundSame DEF Progress, InStep
<1> QED BY <1>1, <1>3, <1>4, <1>5, <1>6, <1>7, <1>8 DEF Progress

LEMMA ProgressRead ==
  ASSUME DispatchInv, Read PROVE Progress'
<1>1. /\ pc = "read" /\ pc' = "execute" /\ consumed' = consumed + 1
      /\ UNCHANGED <<headers, open, executed, hand>>
  BY DEF Read, Goes
<1>2. Progress /\ Synced /\ open /\ ring # <<>> /\ consumed \in Nat
  BY <1>1 DEF DispatchInv, Progress, Synced, StreamTypes
<1>3. ASSUME Sound' PROVE InStep'
  <2>1. Sound BY <1>1, <1>2, <1>3 DEF Sound
  <2>2. InPlace /\ AtHead = consumed + 1 BY <1>2, <2>1, SyncedFront
  <2>3. hand[Tick] = consumed + 1 BY <1>1, <1>2, <2>2 DEF Progress
  <2>4. InStep BY <1>2, <2>1 DEF Progress
  <2> QED BY <1>1, <1>2, <2>3, <2>4 DEF InStep
<1> QED BY <1>1, <1>2, <1>3 DEF Progress

LEMMA ProgressTick ==
  ASSUME DispatchInv, TickStep PROVE Progress'
<1>0. /\ Progress /\ Tick \in Threads /\ open \in BOOLEAN
      /\ hand \in [Threads -> Maybe(Packets)]
  BY DispatchAssumption DEF DispatchInv, Control, Core, CoreTypes, Synced, StreamTypes
<1>1. CASE Input \/ InputOverflow \/ InputClosed
  BY <1>0, <1>1, ProgressElsewhere
     DEF Input, InputOverflow, InputClosed, Closes, stream, Goes
<1>2. CASE LoopDone \/ Refuse
  BY <1>0, <1>2, ProgressElsewhere DEF LoopDone, Refuse, Closes, stream, Goes
<1>3. CASE Make BY <1>3, ProgressMake
<1>4. CASE Read BY <1>4, ProgressRead
<1>5. CASE ReadFails \/ ReadThrows
  BY <1>0, <1>5, ProgressElsewhere DEF ReadFails, ReadThrows, Closes, Goes
<1>6. CASE \E result \in {"continue", "break", "error"} : Execute(result)
  BY <1>6, ProgressExecutes DEF Execute, Goes
<1>7. CASE \E result \in {"continue", "error"} : ExecutePassOn(result)
  BY <1>7, ProgressExecutes DEF ExecutePassOn, Goes
<1>8. CASE Removed
  BY <1>0, <1>8, ProgressElsewhere DEF Removed, stream, Closes, Goes
<1>9. CASE Take \/ TakeNothing
  BY <1>0, <1>9, ProgressElsewhere DEF Take, TakeNothing, stream, Goes
<1>10. CASE Serve \/ ServeStray \/ Served
  BY <1>0, <1>10, ProgressElsewhere DEF Serve, ServeStray, Served, stream, Goes
<1>11. CASE FactoryRuns(Tick)
  BY <1>0, <1>11, ProgressUnmoved DEF FactoryRuns, stream, tick
<1> QED BY <1>1, <1>2, <1>3, <1>4, <1>5, <1>6, <1>7, <1>8, <1>9, <1>10, <1>11
        DEF TickStep

LEMMA DispatchInit == Init => DispatchInv
<1> SUFFICES ASSUME Init PROVE DispatchInv OBVIOUS
<1> USE DEF Init, FactoryInit
<1>1. Core
  <2>1. CoreTypes BY EmptySeq DEF CoreTypes, Maybe, Making, Removing
  <2>2. Len(queue) = 0 BY EmptySeq
  <2>3. Calling /\ Apart /\ HeldLive /\ LiveHeld
    BY <2>2, Nonzero DEF Calling, Apart, HeldLive, LiveHeld, Making, Removing
  <2>4. TablesExact
    <3>1. live \ DynamicPackets = {} OBVIOUS
    <3> QED BY <3>1, FS_EmptySet DEF TablesExact
  <2> QED BY <2>1, <2>3, <2>4 DEF Core
<1>2. Place /\ Posting
  BY DispatchAssumption DEF Place, Posting
<1>3. Synced
  <2>1. Len(ring) = 0 /\ Len(wire) = 0 /\ Len(headers) = 0 BY EmptySeq
  <2>2. Rest = <<>> BY DEF Rest
  <2>3. Len(Rest) = 0 BY <2>2, EmptySeq
  <2>4. InPosition BY <2>1, <2>3 DEF InPosition, Ordered, Whole
  <2>5. StreamTypes
    BY <2>1, EmptySeq, DispatchAssumption DEF StreamTypes, RingTypes
  <2> QED BY <2>4, <2>5 DEF Synced
<1>4. Progress BY EmptySeq DEF Progress, InStep
<1> QED BY <1>1, <1>2, <1>3, <1>4 DEF DispatchInv, Control

LEMMA DispatchStep == DispatchInv /\ [Next]_vars => DispatchInv'
<1> SUFFICES ASSUME DispatchInv, [Next]_vars PROVE DispatchInv' OBVIOUS
<1>0. Control /\ Synced /\ Progress /\ StreamTypes
  BY DEF DispatchInv, Synced
<1>1. CASE TickStep
  BY <1>0, <1>1, ControlTick, SyncedTick, ProgressTick DEF DispatchInv
<1>2. CASE \E h \in Header : Send(h.size, h.kind)
  <2> PICK h \in Header : Send(h.size, h.kind) BY <1>2
  <2>1. Synced' /\ Progress' BY <1>0, SyncedSend, ProgressSend
  <2>2. UNCHANGED <<factory, pc, i, status, hand, queue, posted, leaked>>
    BY DEF Send, tick
  <2>3. Core' BY <1>0, <2>2, CoreUnmoved DEF Control
  <2>4. (Place /\ Posting)'
    BY <1>0, <2>2 DEF Control, Place, Posting, factory
  <2> QED BY <2>1, <2>3, <2>4 DEF DispatchInv, Control
<1>3. CASE \E t \in Threads \ {Tick} : Others(t) \/ FactoryRuns(t)
  <2> PICK t \in Threads \ {Tick} : Others(t) \/ FactoryRuns(t) BY <1>3
  <2>1. Control' BY <1>0, ControlOthers
  <2>2. UNCHANGED <<stream, tick>>
    BY DEF Others, Prepare, Post, Discard, FactoryRuns
  <2>3. hand'[Tick] = hand[Tick]
    BY <1>0, DispatchAssumption
       DEF Others, Prepare, Post, Discard, FactoryRuns, Holds, Control, Core,
           CoreTypes
  <2>4. Synced' BY <1>0, <2>2, SyncedUnmoved DEF stream
  <2>5. Progress' BY <1>0, <2>2, <2>3, ProgressUnmoved DEF stream, tick
  <2> QED BY <2>1, <2>4, <2>5 DEF DispatchInv
<1>4. CASE UNCHANGED vars
  <2>1. Core' BY <1>0, <1>4, CoreUnmoved DEF vars, Control
  <2>2. (Place /\ Posting)'
    BY <1>0, <1>4 DEF vars, tick, factory, Control, Place, Posting
  <2>3. Synced' BY <1>0, <1>4, SyncedUnmoved DEF vars, stream
  <2>4. Progress' BY <1>0, <1>4, ProgressUnmoved DEF vars, stream, tick
  <2> QED BY <2>1, <2>2, <2>3, <2>4 DEF DispatchInv, Control
<1> QED BY <1>1, <1>2, <1>3, <1>4 DEF Next

-----------------------------------------------------------------------------
(* What the invariant means *)

LEMMA InvTypes == DispatchInv => TypeOK
<1> SUFFICES ASSUME DispatchInv PROVE TypeOK OBVIOUS
<1> USE DEF DispatchInv, Control, Core
<1>1. count \in Nat
  BY LiveFinite, FS_CardinalityType DEF TablesExact
<1>2. consumed \in Nat /\ leaked \subseteq Packets
  BY DEF Synced, StreamTypes, CoreTypes
<1>3. /\ call \in [Threads -> {"idle", "create", "add", "adding", "remove", "erasing"}]
      /\ object \in [Threads -> Maybe(Packets)] /\ lock \in Threads \cup {Nobody}
      /\ live \subseteq Packets /\ alloc \subseteq Packets /\ torn \in BOOLEAN
      /\ hand \in [Threads -> Maybe(Packets)] /\ queue \in Seq(Packets)
  BY DEF CoreTypes, Making, Removing
<1>4. /\ headers \in Seq(Header)
      /\ wire \in Seq((1 .. StreamPackets) \X Nat)
      /\ ring \in Seq((1 .. StreamPackets) \X Nat)
      /\ Len(ring) <= Limit /\ open \in BOOLEAN
  BY StreamUnits DEF Synced, StreamTypes, Unit
<1>5. executed \in Seq(Packets) BY DEF Progress
<1>6. /\ pc \in {"input", "peek", "read", "execute", "removed", "take", "serve", "served"}
      /\ i \in 0 .. ExecuteCount
      /\ status \in {"none", "continue", "break", "error"}
  BY DEF Place
<1>7. posted \subseteq Packets BY DEF Posting
<1> QED BY <1>1, <1>2, <1>3, <1>4, <1>5, <1>6, <1>7 DEF TypeOK

LEMMA InvInSync == DispatchInv => InSync
<1> SUFFICES ASSUME DispatchInv, Sound
             PROVE  /\ open => Ordered(ring \o wire, headers, consumed)
                    /\ \A k \in DOMAIN executed : executed[k] = k
                    /\ Len(executed) <= consumed
  <2>1. \A u : Following(u) = After(headers, u) BY DEF Following, After
  <2>2. ASSUME DispatchInv PROVE ring \o wire = <<>> <=> Len(ring \o wire) = 0
    <3>1. ring \o wire \in Seq(Unit)
      BY <2>2, StreamUnits DEF DispatchInv, Synced, Rest
    <3> QED BY <3>1, EmptySeq
  <2> QED BY <2>1, <2>2 DEF InSync, Ordered
<1>1. InPosition /\ InStep /\ executed \in Seq(Packets)
  BY DEF DispatchInv, Synced, Progress
<1> QED BY <1>1, LenProperties DEF InPosition, InStep, Rest

LEMMA AlwaysInv == Spec => []DispatchInv
<1>1. Init => DispatchInv BY DispatchInit
<1>2. DispatchInv /\ [Next]_vars => DispatchInv' BY DispatchStep
<1> QED BY <1>1, <1>2, PTL DEF Spec

\* Types, and the bounds that go with them: the input stream never holds more
\* than it may (net/socket/inputstream.cc:152), the loop never runs longer
\* than execute_count_pretick_ (net/connection/base.cc:270).
THEOREM DispatchTypeInvariant == Spec => []TypeOK
BY AlwaysInv, InvTypes, PTL

\* Whatever the threads, the sizes and the answers of the handlers: a packet
\* that createpacket has made is in one hand, in one place of the queue, in
\* one call of removepacket, or among those that an exception has left to the
\* destructor; and nothing else is live (net/connection/base.cc:258, 363,
\* net/connection/manager/base.cc:566, 644, net/packet/factorymanager.cc:124,
\* 182).
THEOREM DispatchOneHolder == Spec => []OneHolder
<1>1. DispatchInv => OneHolder BY CoreOneHolder DEF DispatchInv, Control
<1> QED BY <1>1, AlwaysInv, PTL

\* As long as every packet's read() has taken what its header states,
\* processcommand takes the stream packet by packet, wherever fill() cuts it,
\* and executes each packet once, in the order in which the peer has sent
\* them (net/connection/base.cc:258, net/socket/inputstream.cc:57).
THEOREM DispatchInSync == Spec => []InSync
BY AlwaysInv, InvInSync, PTL

\* What createpacket has counted removepacket takes off again
\* (net/packet/factorymanager.cc:145, 214).
THEOREM DispatchTablesExact == Spec => []TablesExact
<1>1. DispatchInv => TablesExact BY DEF DispatchInv, Control, Core
<1> QED BY <1>1, AlwaysInv, PTL

-----------------------------------------------------------------------------
(* The refinement *)

\* What is posted, and what the tick serves, is no packet of the peer that is
\* still to be answered.
Unanswered(p) == p \in FromPeer /\ \A k \in DOMAIN executed : executed[k] # p
Settled ==
  /\ \A k \in 1 .. Len(queue) : ~Unanswered(queue[k])
  /\ pc = "serve" => ~Unanswered(hand[Tick])

\* More packets that are answered leave fewer that are not.
ExecutesMore ==
  executed' = executed \/ \E q \in Packets : executed' = Append(executed, q)

LEMMA AnsweredMore ==
  ASSUME executed \in Seq(Packets), ExecutesMore, NEW p, ~Unanswered(p)
  PROVE  ~(p \in FromPeer /\ \A k \in DOMAIN executed' : executed'[k] # p)
<1>1. CASE executed' = executed BY <1>1 DEF Unanswered
<1>2. CASE \E q \in Packets : executed' = Append(executed, q)
  <2> PICK q \in Packets : executed' = Append(executed, q) BY <1>2
  <2>1. /\ DOMAIN executed' = 1 .. Len(executed) + 1
        /\ DOMAIN executed = 1 .. Len(executed) /\ Len(executed) \in Nat
        /\ \A k \in 1 .. Len(executed) : executed'[k] = executed[k]
    BY AppendProperties, LenProperties
  <2> QED BY <2>1 DEF Unanswered
<1> QED BY <1>1, <1>2 DEF ExecutesMore

\* A packet goes into the queue that is none of those.
LEMMA SettledQueues ==
  ASSUME DispatchInv, Settled, ExecutesMore, NEW p \in Packets,
         queue' = Append(queue, p),
         ~(p \in FromPeer /\ \A k \in DOMAIN executed' : executed'[k] # p),
         pc' = "serve" => pc = "serve" /\ hand'[Tick] = hand[Tick]
  PROVE  Settled'
<1>1. /\ Len(queue') = Len(queue) + 1 /\ Len(queue) \in Nat
      /\ \A k \in 1 .. Len(queue) : queue'[k] = queue[k]
      /\ queue'[Len(queue) + 1] = p
  BY AppendProperties, LenProperties DEF DispatchInv, Control, Core, CoreTypes
<1>2. executed \in Seq(Packets) BY DEF DispatchInv, Progress
<1>3. \A k \in 1 .. Len(queue) :
        ~(queue[k] \in FromPeer /\ \A j \in DOMAIN executed' : executed'[j] # queue[k])
  BY <1>2, AnsweredMore DEF Settled
<1>4. pc' = "serve" =>
        ~(hand'[Tick] \in FromPeer /\ \A j \in DOMAIN executed' : executed'[j] # hand'[Tick])
  BY <1>2, AnsweredMore DEF Settled
<1>5. \A k \in 1 .. Len(queue') :
        ~(queue'[k] \in FromPeer /\ \A j \in DOMAIN executed' : executed'[j] # queue'[k])
  <2> SUFFICES
        ASSUME NEW k \in 1 .. Len(queue')
        PROVE  ~(queue'[k] \in FromPeer /\ \A j \in DOMAIN executed' : executed'[j] # queue'[k])
    OBVIOUS
  <2>1. CASE k \in 1 .. Len(queue) BY <1>1, <1>3, <2>1
  <2>2. CASE k = Len(queue) + 1 BY <1>1, <2>2
  <2> QED BY <1>1, <2>1, <2>2
<1> QED BY <1>4, <1>5 DEF Settled, Unanswered

LEMMA SettledUnmoved ==
  ASSUME DispatchInv, Settled, ExecutesMore, queue' = queue,
         pc' = "serve" => pc = "serve" /\ hand'[Tick] = hand[Tick]
  PROVE  Settled'
<1>1. executed \in Seq(Packets) BY DEF DispatchInv, Progress
<1>2. \A k \in 1 .. Len(queue) :
        ~(queue[k] \in FromPeer /\ \A j \in DOMAIN executed' : executed'[j] # queue[k])
  BY <1>1, AnsweredMore DEF Settled
<1>3. pc' = "serve" =>
        ~(hand'[Tick] \in FromPeer /\ \A j \in DOMAIN executed' : executed'[j] # hand'[Tick])
  BY <1>1, AnsweredMore DEF Settled
<1> QED BY <1>2, <1>3 DEF Settled, Unanswered

\* What the tick has in hand when it executes a packet.
LEMMA Executing ==
  ASSUME DispatchInv, Executes
  PROVE  /\ open /\ hand[Tick] \in FromPeer /\ hand[Tick] \in Packets
         /\ executed' = Append(executed, hand[Tick]) /\ ExecutesMore
         /\ ~\A k \in DOMAIN executed' : executed'[k] # hand[Tick]
         /\ Sound => /\ hand[Tick] = Len(executed) + 1
                     /\ hand[Tick] <= Len(headers)
<1>1. pc = "execute" BY DEF Executes
<1>2. hand[Tick] \in FromPeer /\ open /\ executed \in Seq(Packets)
  BY <1>1 DEF DispatchInv, Control, Place, Progress
<1>3. hand[Tick] \in Packets BY <1>2, DispatchAssumption DEF FromPeer
<1>4. executed' = Append(executed, hand[Tick]) BY DEF Executes
<1>5. ExecutesMore BY <1>3, <1>4 DEF ExecutesMore
<1>6. /\ DOMAIN executed' = 1 .. Len(executed) + 1 /\ Len(executed) \in Nat
      /\ executed'[Len(executed) + 1] = hand[Tick]
  BY <1>2, <1>3, <1>4, AppendProperties, LenProperties
<1>7. ~\A k \in DOMAIN executed' : executed'[k] # hand[Tick] BY <1>6
<1>8. Sound => /\ hand[Tick] = Len(executed) + 1
               /\ hand[Tick] <= Len(headers)
  <2>1. consumed \in Nat BY DEF DispatchInv, Synced, StreamTypes
  <2>2. Sound => InStep /\ InPosition BY DEF DispatchInv, Synced, Progress
  <2> QED BY <1>1, <1>6, <2>1, <2>2 DEF InStep, InPosition
<1> QED BY <1>2, <1>3, <1>4, <1>5, <1>7, <1>8

LEMMA SettledTick ==
  ASSUME DispatchInv, Settled, TickStep PROVE Settled'
<1>0. /\ Tick \in Threads /\ hand \in [Threads -> Maybe(Packets)]
      /\ queue \in Seq(Packets)
  BY DispatchAssumption DEF DispatchInv, Control, Core, CoreTypes
<1>1. CASE \E result \in {"continue", "break", "error"} : Execute(result)
  <2> PICK result \in {"continue", "break", "error"} : Execute(result) BY <1>1
  <2>1. queue' = queue /\ pc' = "removed" /\ Executes BY DEF Execute, Goes
  <2> QED BY <2>1, Executing, SettledUnmoved
<1>2. CASE \E result \in {"continue", "error"} : ExecutePassOn(result)
  <2> PICK result \in {"continue", "error"} : ExecutePassOn(result) BY <1>2
  <2>1. queue' = Append(queue, hand[Tick]) /\ pc' = "removed" /\ Executes
    BY DEF ExecutePassOn, Goes
  <2> QED BY <2>1, Executing, SettledQueues
<1>3. CASE Take
  <2>1. /\ queue # <<>> /\ queue' = Tail(queue) /\ hand'[Tick] = Head(queue)
        /\ executed' = executed
    BY <1>0, <1>3 DEF Take, Holds, stream
  <2>2. /\ Head(queue) = queue[1] /\ Len(queue) \in Nat \ {0}
        /\ Len(Tail(queue)) = Len(queue) - 1
        /\ \A k \in 1 .. Len(queue) - 1 : Tail(queue)[k] = queue[k + 1]
    BY <1>0, <2>1, HeadTailProperties, EmptySeq, LenProperties
  <2>3. /\ ~Unanswered(Head(queue))
        /\ \A k \in 1 .. Len(queue) - 1 : ~Unanswered(Tail(queue)[k])
    BY <2>2 DEF Settled
  <2> QED BY <2>1, <2>2, <2>3 DEF Settled, Unanswered
<1>4. CASE FactoryRuns(Tick)
  BY <1>0, <1>4, SettledUnmoved DEF FactoryRuns, stream, tick, ExecutesMore
<1>5. CASE \/ Input \/ InputOverflow \/ InputClosed \/ LoopDone \/ Refuse
           \/ Make \/ Read \/ ReadFails \/ ReadThrows
  <2>1. /\ queue' = queue /\ executed' = executed
        /\ pc' \in {"peek", "take", "read", "execute", "removed"}
    BY <1>5 DEF Input, InputOverflow, InputClosed, LoopDone, Refuse, Make, Read,
                ReadFails, ReadThrows, stream, Goes
  <2> QED BY <2>1, SettledUnmoved DEF ExecutesMore
<1>6. CASE Removed \/ TakeNothing \/ Serve \/ ServeStray \/ Served
  <2>1. /\ queue' = queue /\ executed' = executed
        /\ pc' \in {"peek", "take", "input", "served"}
    BY <1>6 DEF Removed, TakeNothing, Serve, ServeStray, Served, stream, Goes
  <2> QED BY <2>1, SettledUnmoved DEF ExecutesMore
<1> QED BY <1>1, <1>2, <1>3, <1>4, <1>5, <1>6 DEF TickStep

\* A packet that another thread has in hand is none of the peer's.
LEMMA OthersHave ==
  ASSUME Control, NEW t \in Threads \ {Tick}, hand[t] # NoPacket
  PROVE  hand[t] \in Packets /\ hand[t] \notin FromPeer
BY DispatchAssumption DEF Control, Posting

LEMMA SettledStep == DispatchInv /\ Settled /\ [Next]_vars => Settled'
<1> SUFFICES ASSUME DispatchInv, Settled, [Next]_vars PROVE Settled' OBVIOUS
<1>0. /\ Tick \in Threads /\ hand \in [Threads -> Maybe(Packets)]
  BY DispatchAssumption DEF DispatchInv, Control, Core, CoreTypes
<1>1. CASE TickStep BY <1>1, SettledTick
<1>2. CASE \E h \in Header : Send(h.size, h.kind)
  <2> PICK h \in Header : Send(h.size, h.kind) BY <1>2
  <2>1. UNCHANGED <<queue, executed, pc, hand>> BY DEF Send, tick
  <2> QED BY <1>0, <2>1, SettledUnmoved DEF ExecutesMore
<1>3. ASSUME NEW t \in Threads \ {Tick}, Others(t) \/ FactoryRuns(t)
      PROVE  Settled'
  <2>1. executed' = executed /\ pc' = pc /\ hand'[Tick] = hand[Tick]
    BY <1>0, <1>3 DEF Others, Prepare, Post, Discard, FactoryRuns, Holds, stream, tick
  <2>2. CASE Post(t)
    <3>1. hand[t] \in Packets /\ hand[t] \notin FromPeer
      BY <2>2, OthersHave DEF Post, DispatchInv
    <3>2. queue' = Append(queue, hand[t]) BY <2>2 DEF Post
    <3> QED BY <2>1, <3>1, <3>2, SettledQueues DEF ExecutesMore
  <2>3. CASE ~Post(t)
    <3>1. queue' = queue BY <1>3, <2>3 DEF Others, Prepare, Discard, FactoryRuns
    <3> QED BY <2>1, <3>1, SettledUnmoved DEF ExecutesMore
  <2> QED BY <2>2, <2>3
<1>4. CASE UNCHANGED vars
  BY <1>4, SettledUnmoved DEF vars, stream, tick, ExecutesMore
<1> QED BY <1>1, <1>2, <1>3, <1>4 DEF Next

\* What is given back, by the steps of the calls.
LEMMA ReturnedTakes ==
  ASSUME Core, NEW t \in Threads, hand[t] # NoPacket, CallRemove(t, hand[t])
  PROVE  Returned' = Returned \cup {hand[t]}
<1> USE DEF Core, CoreTypes, CallRemove, Calls, Moves, Returned, Having
<1>1. /\ call[t] = "idle" /\ call'[t] = "remove" /\ object'[t] = hand[t]
      /\ \A u \in Threads \ {t} : call'[u] = call[u] /\ object'[u] = object[u]
  OBVIOUS
<1>2. ASSUME NEW u \in Threads, call'[u] \in {"remove", "erasing"}
      PROVE  object'[u] \in Returned \cup {hand[t]}
  BY <1>1, <1>2
<1>3. ASSUME NEW u \in Threads, call[u] \in {"remove", "erasing"}
      PROVE  object[u] \in Returned'
  BY <1>1, <1>3
<1> QED BY <1>1, <1>2, <1>3

LEMMA ReturnedStays ==
  ASSUME Core, NEW t \in Threads, NEW p,
         CallCreate(t, p) \/ CreateObject(t) \/ AddStart(t) \/ AddDone(t)
           \/ EraseStart(t) \/ UNCHANGED <<call, object>>
  PROVE  Returned' = Returned
<1>1. CASE UNCHANGED <<call, object>> BY <1>1 DEF Returned, Having
<1>2. CASE ~UNCHANGED <<call, object>>
  <2> USE DEF Core, CoreTypes, Returned, Having
  <2>1. /\ (call[t] \in Removing) <=> (call'[t] \in Removing)
        /\ call[t] \in Removing => object'[t] = object[t]
        /\ \A u \in Threads \ {t} : call'[u] = call[u] /\ object'[u] = object[u]
    BY <1>2 DEF CallCreate, Calls, CreateObject, AddStart, AddDone, EraseStart, Moves,
                Returns, Removing
  <2>2. Having({"remove", "erasing"})' = Having({"remove", "erasing"})
    BY <2>1 DEF Removing
  <2>3. \A u \in Having({"remove", "erasing"}) : object'[u] = object[u]
    BY <2>1 DEF Removing
  <2> QED BY <2>2, <2>3
<1> QED BY <1>1, <1>2

LEMMA ReturnedDrops ==
  ASSUME Core, NEW t \in Threads, EraseDone(t)
  PROVE  /\ object[t] \in Packets /\ object[t] \in Returned
         /\ Returned' = Returned \ {object[t]}
<1> USE DEF Core, CoreTypes, Returned, Having
<1>1. /\ call[t] = "erasing" /\ call'[t] = "idle"
      /\ \A u \in Threads \ {t} : call'[u] = call[u] /\ object'[u] = object[u]
  BY DEF EraseDone, Moves, Returns
<1>2. object[t] \in Packets BY <1>1 DEF Calling, Maybe, Removing
<1>3. \A u \in Threads \ {t} :
        call[u] \in {"remove", "erasing"} => object[u] # object[t]
  BY <1>1 DEF Apart, Removing
<1>4. ASSUME NEW u \in Threads, call'[u] \in {"remove", "erasing"}
      PROVE  object'[u] \in Returned \ {object[t]}
  BY <1>1, <1>3, <1>4
<1>5. ASSUME NEW u \in Threads, call[u] \in {"remove", "erasing"},
             object[u] # object[t]
      PROVE  object[u] \in Returned'
  BY <1>1, <1>5
<1> QED BY <1>1, <1>2, <1>4, <1>5

\* What nobody has in hand and is not live, nobody has.
LEMMA NobodyHas ==
  ASSUME Core, NEW p, p \notin live, \A u \in Threads : hand[u] # p
  PROVE  Service!Free(p)
<1>1. \A k \in DOMAIN queue : queue[k] # p
  BY DEF Core, CoreTypes, HeldLive
<1>2. p \notin Returned
  BY DEF Core, HeldLive, Returned, Having, Removing
<1>3. p \notin leaked BY DEF Core, HeldLive
<1> QED BY <1>1, <1>2, <1>3 DEF Service!Free

LEMMA LetsGo ==
  ASSUME NEW t \in Threads, hand[t] # NoPacket, Holds(t, NoPacket),
         open' \in {open, FALSE}, Unanswered(hand[t]) => ~open',
         UNCHANGED <<headers, consumed, executed, queue>>
  PROVE  Service!LetsGo(t)
BY SoundSame
   DEF Service!LetsGo, Service!MayClose, Service!HadBy, Service!Unanswered, Unanswered,
       Holds

LEMMA GivesBack ==
  ASSUME DispatchInv, NEW t \in Threads, hand[t] # NoPacket,
         CallRemove(t, hand[t]), Holds(t, NoPacket), open' \in {open, FALSE},
         Unanswered(hand[t]) => ~open',
         UNCHANGED <<headers, consumed, executed, queue, leaked>>
  PROVE  Service!GiveBack(t)
<1>1. Returned' = Returned \cup {hand[t]}
  BY ReturnedTakes DEF DispatchInv, Control
<1>2. Service!LetsGo(t) BY LetsGo
<1> QED BY <1>1, <1>2 DEF Service!GiveBack

LEMMA Loses ==
  ASSUME Tick \in Threads, hand[Tick] # NoPacket, Holds(Tick, NoPacket),
         leaked' = leaked \cup {hand[Tick]}, open' \in {open, FALSE},
         Unanswered(hand[Tick]) => ~open',
         UNCHANGED <<call, object, headers, consumed, executed, queue>>
  PROVE  Service!Lose
<1>1. Returned' = Returned BY DEF Returned, Having
<1>2. Service!LetsGo(Tick) BY LetsGo
<1> QED BY <1>1, <1>2 DEF Service!Lose

\* A step that neither moves a packet nor ends the connection is none.
LEMMA ServiceSame ==
  ASSUME UNCHANGED <<call, object, headers, consumed, executed, open, hand, queue, leaked>>
  PROVE  UNCHANGED Service!vars
<1>1. Returned' = Returned BY DEF Returned, Having
<1>2. (~Sound)' = ~Sound BY SoundSame
<1> QED BY <1>1, <1>2 DEF Service!vars

LEMMA ServiceMakes ==
  ASSUME DispatchInv, Make PROVE Service!Receive
<1>0. /\ Tick \in Threads /\ hand \in [Threads -> Maybe(Packets)]
      /\ Core /\ Control /\ Synced /\ StreamTypes /\ Progress
  BY DispatchAssumption DEF DispatchInv, Control, Core, CoreTypes, Synced
<1>1. /\ pc = "peek" /\ ring # <<>>
      /\ UNCHANGED <<headers, consumed, executed, open, queue, leaked>>
  BY DEF Make, stream
<1>2. PICK p \in Named : CallCreate(Tick, p) /\ Holds(Tick, p) BY DEF Make
<1>3. open BY <1>0, <1>1 DEF Synced, StreamTypes
<1>4. p \in FromPeer BY <1>0, <1>1, <1>2, HeadInRange
<1>5. Sound => p = Len(executed) + 1 /\ p <= Len(headers)
  <2> SUFFICES ASSUME Sound PROVE p = Len(executed) + 1 /\ p <= Len(headers)
    OBVIOUS
  <2>1. /\ AtHead = consumed + 1 /\ InPlace /\ AtHead \in 1 .. Len(headers)
    BY <1>0, <1>1, <1>3, SyncedFront
  <2>2. p = AtHead BY <1>2, <2>1 DEF Named
  <2>3. Len(executed) = consumed BY <1>0, <1>1, <1>3 DEF Progress, InStep
  <2> QED BY <2>1, <2>2, <2>3
<1>6. hand[Tick] = NoPacket BY <1>0, <1>1 DEF Control, Place
<1>7. \A u \in Threads : hand[u] # p
  <2> SUFFICES ASSUME NEW u \in Threads, hand[u] = p PROVE FALSE OBVIOUS
  <2>1. p # NoPacket BY <1>4, Nonzero, DispatchAssumption DEF FromPeer
  <2>2. u # Tick BY <1>6, <2>1
  <2> QED BY <1>0, <1>4, <2>1, <2>2, OthersHave
<1>8. p \notin live /\ Returned' = Returned
  BY <1>0, <1>2, ReturnedStays DEF CallCreate
<1>9. Service!Free(p) BY <1>0, <1>7, <1>8, NobodyHas
<1>10. Service!InOrder(p) BY <1>5 DEF Service!InOrder
<1>11. Service!HadBy(Tick, p) BY <1>2 DEF Holds, Service!HadBy
<1>12. (~Sound)' = ~Sound BY <1>1, SoundSame
<1> QED BY <1>1, <1>3, <1>4, <1>6, <1>8, <1>9, <1>10, <1>11, <1>12 DEF Service!Receive

\* A packet is read: the place may be lost with it.
LEMMA ServiceReads ==
  ASSUME DispatchInv, Read PROVE Service!Stray \/ UNCHANGED Service!vars
<1>1. /\ pc = "read" /\ consumed' = consumed + 1
      /\ UNCHANGED <<factory, headers, executed, open, hand, queue, leaked>>
  BY DEF Read
<1>2. hand[Tick] \in FromPeer BY <1>1 DEF DispatchInv, Control, Place
<1>3. Returned' = Returned BY <1>1 DEF factory, Returned, Having
<1>4. consumed \in Nat BY DEF DispatchInv, Synced, StreamTypes
<1>5. CASE Sound'
  <2>1. Sound BY <1>1, <1>4, <1>5 DEF Sound
  <2> QED BY <1>1, <1>3, <1>5, <2>1 DEF Service!vars
<1>6. CASE ~Sound' BY <1>1, <1>2, <1>3, <1>6 DEF Service!Stray
<1> QED BY <1>5, <1>6

LEMMA ServiceFactory ==
  ASSUME DispatchInv, NEW t \in Threads, FactoryRuns(t)
  PROVE  Service!Next \/ UNCHANGED Service!vars
<1>0. Core BY DEF DispatchInv, Control
<1>1. UNCHANGED <<headers, consumed, executed, open, hand, queue, leaked>>
  BY DEF FactoryRuns, stream
<1>4. (~Sound)' = ~Sound BY <1>1, SoundSame
<1>2. CASE EraseDone(t)
  <2>1. /\ object[t] \in Packets /\ object[t] \in Returned
        /\ Returned' = Returned \ {object[t]}
    BY <1>0, <1>2, ReturnedDrops
  <2>2. Service!Deleted(object[t]) BY <1>1, <1>4, <2>1 DEF Service!Deleted
  <2> QED BY <2>1, <2>2 DEF Service!Next
<1>3. CASE CreateObject(t) \/ AddStart(t) \/ AddDone(t) \/ EraseStart(t)
  <2>1. Returned' = Returned BY <1>0, <1>3, ReturnedStays
  <2> QED BY <1>1, <1>4, <2>1 DEF Service!vars
<1> QED BY <1>2, <1>3 DEF FactoryRuns, FactoryStep

LEMMA ServiceTick ==
  ASSUME DispatchInv, Settled, TickStep
  PROVE  Service!Next \/ UNCHANGED Service!vars
<1>0. /\ Tick \in Threads /\ hand \in [Threads -> Maybe(Packets)]
      /\ Core /\ Place /\ Progress /\ open \in BOOLEAN
  BY DispatchAssumption DEF DispatchInv, Control, Core, CoreTypes, Synced, StreamTypes
<1>1. CASE \/ Input \/ InputClosed \/ LoopDone \/ TakeNothing \/ Served
  <2>1. UNCHANGED <<call, object, headers, consumed, executed, open, hand, queue, leaked>>
    BY <1>1 DEF Input, InputClosed, LoopDone, TakeNothing, Served, stream, factory
  <2> QED BY <2>1, ServiceSame
<1>2. ASSUME Closes,
             UNCHANGED <<call, object, headers, consumed, executed, hand, queue, leaked>>
      PROVE  Service!Next
  <2>1. Returned' = Returned BY <1>2 DEF Returned, Having
  <2>2. (~Sound)' = ~Sound BY <1>2, SoundSame
  <2>3. Service!Close BY <1>2, <2>1, <2>2 DEF Service!Close, Closes
  <2> QED BY <2>3 DEF Service!Next
<1>3. CASE InputOverflow \/ Refuse
  BY <1>2, <1>3 DEF InputOverflow, Refuse, factory
<1>4. CASE Make BY <1>4, ServiceMakes DEF Service!Next
<1>13. CASE Read BY <1>13, ServiceReads DEF Service!Next
<1>5. CASE ReadFails
  <2>1. hand[Tick] # NoPacket BY <1>0, <1>5 DEF ReadFails, Place
  <2>2. Service!GiveBack(Tick) BY <1>0, <1>5, <2>1, GivesBack DEF ReadFails, Closes
  <2> QED BY <1>0, <2>2 DEF Service!Next
<1>14. CASE ReadThrows
  <2>1. hand[Tick] # NoPacket BY <1>0, <1>14 DEF ReadThrows, Place
  <2>2. Service!Lose BY <1>0, <1>14, <2>1, Loses DEF ReadThrows, Closes, factory
  <2> QED BY <2>2 DEF Service!Next
<1>6. ASSUME Executes, Holds(Tick, NoPacket), UNCHANGED leaked,
             \/ Returned' = Returned \cup {hand[Tick]} /\ UNCHANGED queue
             \/ queue' = Append(queue, hand[Tick]) /\ UNCHANGED Returned
      PROVE  Service!Next
  <2>1. /\ open /\ hand[Tick] \in FromPeer
        /\ executed' = Append(executed, hand[Tick])
        /\ Sound => hand[Tick] = Len(executed) + 1 /\ hand[Tick] <= Len(headers)
    BY <1>6, Executing
  <2>2. /\ open' \in {open, FALSE} /\ UNCHANGED <<headers, consumed>>
    BY <1>0, <1>6 DEF Executes, Closes
  <2>3. (~Sound)' = ~Sound BY <2>2, SoundSame
  <2>4. Service!InOrder(hand[Tick]) BY <2>1 DEF Service!InOrder
  <2>5. Service!Answer
    BY <1>6, <2>1, <2>2, <2>3, <2>4
       DEF Service!Answer, Service!MayClose, Service!HadBy, Holds
  <2> QED BY <2>5 DEF Service!Next
<1>7. CASE \E result \in {"continue", "break", "error"} : Execute(result)
  <2> PICK result \in {"continue", "break", "error"} : Execute(result) BY <1>7
  <2>1. hand[Tick] # NoPacket BY <1>0 DEF Execute, Executes, Place
  <2>2. Returned' = Returned \cup {hand[Tick]}
    BY <1>0, <2>1, ReturnedTakes DEF Execute
  <2> QED BY <1>6, <2>2 DEF Execute
<1>8. CASE \E result \in {"continue", "error"} : ExecutePassOn(result)
  <2> PICK result \in {"continue", "error"} : ExecutePassOn(result) BY <1>8
  <2>1. Returned' = Returned BY DEF ExecutePassOn, factory, Returned, Having
  <2> QED BY <1>6, <2>1 DEF ExecutePassOn
<1>9. CASE Removed
  <2>1. UNCHANGED <<call, object, hand, queue, leaked>> BY <1>9 DEF Removed, factory
  <2>2. CASE UNCHANGED stream BY <2>1, <2>2, ServiceSame DEF stream
  <2>3. CASE Closes /\ UNCHANGED <<headers, consumed, executed>>
    BY <1>2, <2>1, <2>3
  <2> QED BY <1>9, <2>2, <2>3 DEF Removed
<1>10. CASE Take
  <2>1. hand[Tick] = NoPacket BY <1>0, <1>10 DEF Take, Place
  <2>2. UNCHANGED <<call, object, headers, consumed, executed, open, leaked>>
    BY <1>10 DEF Take, factory, stream
  <2>3. Returned' = Returned BY <2>2 DEF Returned, Having
  <2>5. (~Sound)' = ~Sound BY <2>2, SoundSame
  <2>4. Service!Fetch
    BY <1>10, <2>1, <2>2, <2>3, <2>5 DEF Take, Holds, Service!Fetch, Service!HadBy
  <2> QED BY <2>4 DEF Service!Next
<1>11. CASE Serve
  <2>1. hand[Tick] # NoPacket /\ ~Unanswered(hand[Tick])
    BY <1>0, <1>11 DEF Serve, Place, Settled
  <2>2. UNCHANGED <<headers, consumed, executed, open, queue, leaked>>
    BY <1>11 DEF Serve, stream
  <2>3. Service!GiveBack(Tick) BY <1>0, <1>11, <2>1, <2>2, GivesBack DEF Serve
  <2> QED BY <1>0, <2>3 DEF Service!Next
<1>15. CASE ServeStray
  <2>1. hand[Tick] # NoPacket /\ ~Unanswered(hand[Tick])
    BY <1>0, <1>15 DEF ServeStray, Place, Settled
  <2>2. UNCHANGED <<call, object, headers, consumed, executed, open, queue>>
    BY <1>15 DEF ServeStray, stream, factory
  <2>3. Service!Lose BY <1>0, <1>15, <2>1, <2>2, Loses DEF ServeStray
  <2> QED BY <2>3 DEF Service!Next
<1>12. CASE FactoryRuns(Tick)
  BY <1>0, <1>12, ServiceFactory
<1> QED BY <1>1, <1>3, <1>4, <1>5, <1>7, <1>8, <1>9, <1>10, <1>11, <1>12, <1>13,
           <1>14, <1>15 DEF TickStep

LEMMA ServiceOthers ==
  ASSUME DispatchInv, NEW t \in Threads \ {Tick}, Others(t)
  PROVE  Service!Next
<1>0. /\ Core /\ Control /\ hand \in [Threads -> Maybe(Packets)] /\ open \in BOOLEAN
  BY DEF DispatchInv, Control, Core, CoreTypes, Synced, StreamTypes
<1>1. UNCHANGED <<headers, consumed, executed, open, leaked>>
  BY DEF Others, Prepare, Post, Discard, stream
<1>2. (~Sound)' = ~Sound BY <1>1, SoundSame
<1>3. CASE \E p \in Posts[t] : Prepare(t, p)
  <2> PICK p \in Posts[t] : Prepare(t, p) BY <1>3
  <2>1. p \in Packets /\ p \notin FromPeer BY DispatchAssumption
  <2>2. \A u \in Threads : hand[u] # p BY <1>0, PostedByNobody
  <2>3. p \notin live /\ Returned' = Returned
    BY <1>0, ReturnedStays DEF Prepare, CallCreate
  <2>4. Service!Free(p) BY <1>0, <2>2, <2>3, NobodyHas
  <2>5. Service!Have(t, p)
    BY <1>1, <1>2, <2>1, <2>3, <2>4 DEF Prepare, Holds, Service!Have, Service!HadBy
  <2> QED BY <2>1, <2>5 DEF Service!Next
<1>4. CASE Post(t)
  <2>1. hand[t] # NoPacket /\ hand[t] \notin FromPeer
    BY <1>0, <1>4, OthersHave DEF Post
  <2>2. UNCHANGED <<call, object>> BY <1>4 DEF Post, factory
  <2>3. Returned' = Returned BY <2>2 DEF Returned, Having
  <2>4. Service!Post(t)
    BY <1>1, <1>2, <1>4, <2>1, <2>3 DEF Post, Holds, Service!Post, Service!HadBy
  <2> QED BY <2>4 DEF Service!Next
<1>5. CASE Discard(t)
  <2>1. hand[t] # NoPacket /\ hand[t] \notin FromPeer
    BY <1>0, <1>5, OthersHave DEF Discard
  <2>2. ~Unanswered(hand[t]) BY <2>1 DEF Unanswered
  <2>3. Service!GiveBack(t) BY <1>0, <1>1, <1>5, <2>1, <2>2, GivesBack DEF Discard
  <2> QED BY <2>3 DEF Service!Next
<1> QED BY <1>3, <1>4, <1>5 DEF Others

LEMMA ServiceStep ==
  DispatchInv /\ Settled /\ [Next]_vars => [Service!Next]_(Service!vars)
<1> SUFFICES ASSUME DispatchInv, Settled, [Next]_vars
             PROVE  Service!Next \/ UNCHANGED Service!vars
  OBVIOUS
<1>1. CASE TickStep BY <1>1, ServiceTick
<1>2. CASE \E h \in Header : Send(h.size, h.kind)
  <2> PICK h \in Header : Send(h.size, h.kind) BY <1>2
  <2>1. UNCHANGED <<call, object, executed, open, hand, queue, leaked>>
    BY DEF Send, factory
  <2>2. Returned' = Returned BY <2>1 DEF Returned, Having
  <2>3. open /\ Len(headers') = Len(headers) + 1
    <3>1. headers \in Seq(Header) /\ [size |-> h.size, kind |-> h.kind] \in Header
      BY DEF DispatchInv, Synced, StreamTypes, Header
    <3> QED BY <3>1, AppendProperties DEF Send
  <2>4. Sound' <=> Sound BY SoundSend DEF DispatchInv
  <2>5. (~Sound)' = ~Sound BY <2>4
  <2>6. Service!Send BY <2>1, <2>2, <2>3, <2>5 DEF Service!Send
  <2> QED BY <2>6 DEF Service!Next
<1>3. CASE \E t \in Threads \ {Tick} : Others(t) \/ FactoryRuns(t)
  BY <1>3, ServiceOthers, ServiceFactory
<1>4. CASE UNCHANGED vars BY <1>4, ServiceSame DEF vars, factory, stream
<1> QED BY <1>1, <1>2, <1>3, <1>4 DEF Next

\* The tick, the factory and the other threads are the service: in the order
\* in which the peer has sent them each packet is made once no one else has
\* it and answered, until a reader has taken something else than the header
\* stated; none is given back or forgotten without its answer, in order or
\* not, unless the connection goes with it; what is posted is served in the
\* order of the queue; and a packet is made again only after it was deleted
\* (net/connection/base.cc:258, net/connection/manager/base.cc:566,
\* net/packet/factorymanager.cc:124, 182).
THEOREM DispatchImplementsService == Spec => ImplementsService
<1>1. Init => Service!Init /\ Settled
  <2> SUFFICES ASSUME Init PROVE Service!Init /\ Settled OBVIOUS
  <2>1. Len(headers) = 0 /\ Len(queue) = 0 BY EmptySeq DEF Init
  <2>2. Returned = {} BY DEF Init, FactoryInit, Returned, Having
  <2>4. Sound BY <2>1 DEF Sound
  <2>3. Service!Init BY <2>1, <2>2, <2>4 DEF Init, Service!Init
  <2> QED BY <2>1, <2>3 DEF Init, Settled
<1>2. DispatchInv /\ Settled /\ [Next]_vars => Settled' BY SettledStep
<1>3. DispatchInv /\ Settled /\ [Next]_vars => [Service!Next]_(Service!vars)
  BY ServiceStep
<1> QED BY <1>1, <1>2, <1>3, AlwaysInv, PTL DEF Spec, ImplementsService, Service!Spec
=============================================================================
