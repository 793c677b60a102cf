-------------------------- MODULE NetManagerProofs --------------------------
(* Proofs about NetManager, for every pool size and every set of peers. *)
EXTENDS NetManager, FiniteSetTheorems, TLAPS

\* position_ stays an index of the pool.
LEMMA PositionWraps ==
  ASSUME NEW s \in Ids
  PROVE  NextPosition(s) \in Ids
  BY NAssumption DEF Ids, NextPosition

\* The events of one batch are a sequence of sockets and connection ids.
LEMMA EventsType ==
  ASSUME TypeOK, NEW f \in Bijection(1 .. Cardinality(PendingEvents), PendingEvents)
  PROVE  f \in Seq([sock : Peers \cup {Listen}, id : Ids \cup {Invalid}])
<1> DEFINE Watched == {q \in edge : reg[q] # Invalid}
           event == [p \in Watched |-> [sock |-> p, id |-> reg[p]]]
           Conn == {[sock |-> p, id |-> reg[p]] : p \in Watched}
           Item == [sock : Peers \cup {Listen}, id : Ids \cup {Invalid}]
           max == Cardinality(PendingEvents)
<1>1. IsFiniteSet(PendingEvents)
  <2>1. IsFiniteSet(Watched)
    BY PeersAssumption, FS_Subset DEF TypeOK
  <2>2. event \in Surjection(Watched, Conn)
    BY DEF Surjection
  <2>3. IsFiniteSet(Conn)
    BY <2>1, <2>2, FS_Surjection
  <2>4. \/ PendingEvents = Conn
        \/ PendingEvents = Conn \cup {[sock |-> Listen, id |-> Invalid]}
    BY DEF PendingEvents
  <2> QED BY <2>3, <2>4, FS_AddElement
<1>2. max \in Nat
  BY <1>1, FS_CardinalityType
<1>3. f \in [1 .. max -> PendingEvents]
  BY DEF Bijection, Injection
<1>4. PendingEvents \subseteq Item
  BY DEF PendingEvents, TypeOK
<1>5. f \in [1 .. max -> Item]
  BY <1>3, <1>4
<1> HIDE DEF max, Item
<1>6. f \in Seq(Item)
  BY <1>2, <1>5
<1> QED BY <1>6 DEF Item

-----------------------------------------------------------------------------
(* Type correctness *)

\* The two halves of TypeOK: what the objects hold, and where tick() is.
DataOK ==
  /\ empty \in [Ids -> BOOLEAN] /\ disconnect \in [Ids -> BOOLEAN]
  /\ sock \in [Ids -> Peers \cup {None}]
  /\ managerid \in [Ids -> Ids \cup {Invalid}]
  /\ position \in Ids /\ free \in Int
  /\ idset \in [Ids -> Ids \cup {Invalid}] /\ count \in 0 .. N
  /\ corrupt \in BOOLEAN /\ full \subseteq Ids
  /\ reg \in [Peers -> Ids \cup {Invalid}] /\ edge \subseteq Peers
  /\ peer \in [Peers -> PeerStates] /\ unread \subseteq Peers /\ missed \subseteq Peers

ControlOK ==
  /\ phase \in Phases /\ i \in Nat /\ n \in 0 .. N
  /\ evs \in Seq([sock : Peers \cup {Listen}, id : Ids \cup {Invalid}])

LEMMA TypeParts == TypeOK <=> DataOK /\ ControlOK
  BY DEF TypeOK, DataOK, ControlOK

LEMMA TypePartsPrimed == TypeOK' <=> DataOK' /\ ControlOK'
  BY DEF TypeOK, DataOK, ControlOK

LEMMA SwapRemoveType ==
  ASSUME DataOK, NEW c \in Ids, ~RemoveThrows(c), SwapRemove(c)
  PROVE  DataOK'
<1> DEFINE m == managerid[c]
           last == idset[count - 1]
<1>1. count \in 1 .. N /\ count - 1 \in Ids
  BY NAssumption DEF DataOK, RemoveThrows, Ids
<1>2. m \in Ids \cup {Invalid} /\ last \in Ids \cup {Invalid}
  BY <1>1 DEF DataOK
<1>3. idset' \in [Ids -> Ids \cup {Invalid}] /\ count' \in 0 .. N
  BY <1>1, <1>2, NAssumption DEF DataOK, SwapRemove
<1>4. managerid' \in [Ids -> Ids \cup {Invalid}]
  BY <1>1, <1>2 DEF DataOK, SwapRemove
<1>5. sock' \in [Ids -> Peers \cup {None}] /\ disconnect' \in [Ids -> BOOLEAN]
      /\ empty' \in [Ids -> BOOLEAN]
  BY DEF DataOK, SwapRemove
<1>6. corrupt' \in BOOLEAN /\ free' \in Int /\ position' \in Ids
  BY DEF DataOK, SwapRemove
<1>7. reg' \in [Peers -> Ids \cup {Invalid}] /\ edge' \subseteq Peers
      /\ peer' \in [Peers -> PeerStates] /\ unread' \subseteq Peers
      /\ missed' \subseteq Peers /\ full' \subseteq Ids
  BY DEF DataOK, SwapRemove, AfterClose, Unwatch, PeerStates
<1> QED BY <1>3, <1>4, <1>5, <1>6, <1>7 DEF DataOK

LEMMA FailedRemoveType ==
  ASSUME DataOK, NEW c \in Ids, FailedRemove(c)
  PROVE  DataOK'
  BY DEF DataOK, FailedRemove, Unwatch, PeerStates, conns, pool, mgr

LEMMA StartLoopType ==
  ASSUME DataOK, NEW ph \in Phases, StartLoop(ph), evs' = <<>> \/ evs' = evs,
         ControlOK
  PROVE  ControlOK'
<1> DEFINE Item == [sock : Peers \cup {Listen}, id : Ids \cup {Invalid}]
<1>1. evs \in Seq(Item)
  BY DEF ControlOK
<1> HIDE DEF Item
<1>2. evs' \in Seq(Item)
  <2>1. <<>> \in Seq(Item)
    OBVIOUS
  <2> QED BY <1>1, <2>1
<1>3. i' \in Nat /\ n' \in 0 .. N /\ phase' \in Phases
  BY DEF DataOK, StartLoop
<1> QED BY <1>2, <1>3 DEF ControlOK, Item

LEMMA EndTickType ==
  ASSUME ControlOK, EndTick, UNCHANGED evs
  PROVE  ControlOK'
  BY NAssumption DEF ControlOK, EndTick, Phases

\* A slot handed out to a peer.
LEMMA OpenSlotType ==
  ASSUME DataOK, NEW s \in Ids, NEW p \in Peers,
         NEW k \in Ids \cup {Invalid}, OpenSlot(s, p, k),
         empty' = empty \/ empty' = [empty EXCEPT ![s] = FALSE],
         \/ UNCHANGED mgr
         \/ /\ count < N /\ idset' = [idset EXCEPT ![count] = s]
            /\ count' = count + 1 /\ corrupt' = corrupt,
         reg' = RegAfter(s, {p}) \/ reg' = RegAfter(s, {})
  PROVE  DataOK'
<1>1. position' \in Ids /\ free' \in Int
  BY PositionWraps DEF OpenSlot, DataOK
<1>2. sock' \in [Ids -> Peers \cup {None}]
      /\ managerid' \in [Ids -> Ids \cup {Invalid}]
      /\ disconnect' \in [Ids -> BOOLEAN] /\ empty' \in [Ids -> BOOLEAN]
  BY DEF OpenSlot, DataOK
<1>3. peer' \in [Peers -> PeerStates] /\ edge' \subseteq Peers
      /\ unread' \subseteq Peers /\ missed' \subseteq Peers /\ full' \subseteq Ids
      /\ reg' \in [Peers -> Ids \cup {Invalid}]
  BY DEF OpenSlot, RegAfter, DataOK, PeerStates
<1>4. idset' \in [Ids -> Ids \cup {Invalid}] /\ count' \in 0 .. N
      /\ corrupt' \in BOOLEAN
  BY NAssumption DEF DataOK, mgr
<1> QED BY <1>1, <1>2, <1>3, <1>4 DEF DataOK

\* A slot that is cleaned up, on its own or with the socket of a peer.
LEMMA CleanedType ==
  ASSUME DataOK, NEW s \in Ids, NEW S,
         position' \in Ids, UNCHANGED <<free, mgr>>,
         sock' = [sock EXCEPT ![s] = None],
         managerid' = [managerid EXCEPT ![s] = Invalid],
         disconnect' = [disconnect EXCEPT ![s] = TRUE],
         empty' = [empty EXCEPT ![s] = TRUE], full' = full \ {s},
         CloseSockets(S)
  PROVE  DataOK'
<1>1. reg' \in [Peers -> Ids \cup {Invalid}] /\ edge' \subseteq Peers
      /\ peer' \in [Peers -> PeerStates] /\ unread' \subseteq Peers
      /\ missed' \subseteq Peers
  BY DEF DataOK, CloseSockets, AfterClose, Unwatch, PeerStates
<1> QED BY <1>1 DEF DataOK, mgr

\* The data and the control keep their types in every step.
LEMMA NextType ==
  ASSUME TypeOK, [Next]_vars
  PROVE  TypeOK'
<1> USE TypeParts, TypePartsPrimed
<1>d. ASSUME UNCHANGED <<conns, pool, mgr, epoll, remote>> PROVE DataOK'
  BY <1>d DEF DataOK, conns, pool, mgr, epoll, remote
<1>e. ASSUME UNCHANGED evs, phase' \in Phases, i' \in Nat, n' = n PROVE ControlOK'
  BY <1>e DEF ControlOK
<1>i. i + 1 \in Nat /\ phase \in Phases
  BY DEF ControlOK
<1>p. {"select", "input", "accept", "output", "command", "destroy"} \subseteq Phases
  BY DEF Phases
<1>1. CASE Select
  <2>1. PICK f \in Bijection(1 .. Cardinality(PendingEvents), PendingEvents) :
          evs' = f
    BY <1>1 DEF Select
  <2>2. ControlOK'
    BY <1>1, <2>1, <1>p, EventsType DEF Select, ControlOK
  <2>3. DataOK'
    BY <1>1 DEF Select, DataOK, conns, pool, mgr, remote
  <2> QED BY <2>2, <2>3
<1>2. CASE InputDone
  BY <1>2, <1>d, <1>p, StartLoopType DEF InputDone
<1>3. CASE InputListen
  BY <1>3, <1>d, <1>e, <1>p DEF InputListen
<1>4. CASE InputNothing
  BY <1>4, <1>d, <1>e, <1>i DEF InputNothing
<1>5. ASSUME NEW c \in Ids, NEW p \in Peers, InputKeeps(c, p) PROVE TypeOK'
  <2>1. DataOK'
    BY <1>5 DEF InputKeeps, DataOK, pool, mgr, epoll
  <2> QED BY <1>5, <2>1, <1>e, <1>i DEF InputKeeps
<1>6. ASSUME NEW c \in Ids, NEW p \in Peers, InputRemoves(c, p) PROVE TypeOK'
  <2>1. CASE ~RemoveThrows(c) /\ SwapRemove(c) /\ i' = i + 1 /\ UNCHANGED <<phase, n, evs>>
    BY <2>1, <1>e, <1>i, SwapRemoveType
  <2>2. CASE FailedRemove(c) /\ StartLoop("command") /\ evs' = <<>>
    BY <2>2, <1>p, FailedRemoveType, StartLoopType
  <2> QED BY <1>6, <2>1, <2>2 DEF InputRemoves
<1>7. CASE AcceptBound
  BY <1>7, <1>d, <1>e, <1>i, <1>p DEF AcceptBound, LeaveAccept
<1>9. ASSUME NEW s \in Ids, AcceptNobody(s) PROVE TypeOK'
  BY <1>9, <1>e, <1>i, <1>p, PositionWraps, CleanedType
     DEF AcceptNobody, LeaveAccept, CleanSlot
<1>10. ASSUME NEW s \in Ids, NEW p \in Peers, AcceptRefused(s, p) PROVE TypeOK'
  BY <1>10, <1>e, <1>i, <1>p, PositionWraps, CleanedType
     DEF AcceptRefused, LeaveAccept
<1>11. ASSUME NEW s \in Ids, NEW p \in Peers, AcceptSuccess(s, p) PROVE TypeOK'
  <2>1. count \in Ids
    BY <1>11, NAssumption DEF AcceptSuccess, CanAdd, DataOK, Ids
  <2>2. DataOK'
    BY <1>11, <2>1, OpenSlotType DEF AcceptSuccess, CanAdd
  <2> QED BY <1>11, <2>2, <1>e, <1>i DEF AcceptSuccess
<1>12. ASSUME NEW s \in Ids, NEW p \in Peers, AcceptHalf(s, p) PROVE TypeOK'
  BY <1>12, <1>e, <1>i, OpenSlotType DEF AcceptHalf
<1>13. CASE EntryKept
  <2>1. DataOK'
    BY <1>13 DEF EntryKept, DataOK, pool, mgr, epoll, remote
  <2> QED BY <1>13, <2>1, <1>e, <1>i DEF EntryKept
<1>14. ASSUME NEW c \in Ids, EntryRemoved(c) PROVE TypeOK'
  <2>1. CASE ~RemoveThrows(c) /\ SwapRemove(c) /\ i' = i + 1 /\ UNCHANGED <<phase, n, evs>>
    BY <2>1, <1>e, <1>i, SwapRemoveType
  <2>2. CASE FailedRemove(c) /\ StartLoop("command") /\ UNCHANGED evs
    BY <2>2, <1>p, FailedRemoveType, StartLoopType
  <2>3. CASE FailedRemove(c) /\ EndTick /\ UNCHANGED evs
    BY <2>3, FailedRemoveType, EndTickType
  <2> QED BY <1>14, <2>1, <2>2, <2>3 DEF EntryRemoved
<1>15. CASE OutputDone
  BY <1>15, <1>d, <1>p, StartLoopType DEF OutputDone
<1>16. CASE CommandDone
  BY <1>16, <1>d, EndTickType DEF CommandDone
<1>17. CASE DestroySkip
  BY <1>17, <1>d, <1>e, <1>i DEF DestroySkip
<1>18. CASE DestroyDone
  BY <1>18, <1>d, EndTickType DEF DestroyDone
<1>19. ASSUME NEW c \in Ids, DestroyEntry(c) PROVE TypeOK'
  <2>1. CASE ~RemoveThrows(c) /\ SwapRemove(c) /\ i' = i + 1 /\ UNCHANGED <<phase, n, evs>>
    BY <2>1, <1>e, <1>i, SwapRemoveType
  <2>2. CASE FailedRemove(c) /\ EndTick /\ UNCHANGED evs
    BY <2>2, FailedRemoveType, EndTickType
  <2> QED BY <1>19, <2>1, <2>2 DEF DestroyEntry
<1>20. ASSUME NEW s \in Ids, ConnectFails(s) PROVE TypeOK'
  BY <1>20, <1>e, <1>i, PositionWraps, CleanedType
     DEF ConnectFails, CleanSlot, control, ControlOK
<1>21. ASSUME NEW s \in Ids, NEW p \in Peers, ConnectSuccess(s, p) PROVE TypeOK'
  <2>1. count \in Ids
    BY <1>21, NAssumption DEF ConnectSuccess, CanAdd, DataOK, Ids
  <2>2. DataOK'
    BY <1>21, <2>1, OpenSlotType DEF ConnectSuccess, CanAdd
  <2> QED BY <1>21, <2>2 DEF ConnectSuccess, control, ControlOK
<1>22. CASE DestroyStart
  BY <1>22, <1>d, <1>p, StartLoopType DEF DestroyStart
<1>23. ASSUME NEW p \in Peers,
              PeerArrives(p) \/ PeerSends(p) \/ PeerHangsUp(p) \/ PeerResets(p)
       PROVE TypeOK'
  BY <1>23 DEF PeerArrives, PeerSends, PeerHangsUp, PeerResets, DataOK, ControlOK,
               conns, pool, mgr, epoll, control, PeerStates
<1>24. CASE UNCHANGED vars
  BY <1>24 DEF vars, DataOK, ControlOK
<1> QED
  BY <1>1, <1>2, <1>3, <1>4, <1>5, <1>6, <1>7, <1>9, <1>10, <1>11, <1>12,
     <1>13, <1>14, <1>15, <1>16, <1>17, <1>18, <1>19, <1>20, <1>21, <1>22, <1>23,
     <1>24 DEF Next, Tick, Connect, Environment

\* Every variable keeps its type, for every pool size, every guard and every
\* set of peers: in particular position_, count_ and the entries of the idset
\* stay within the arrays they index.
THEOREM TypeInvariant == Spec => []TypeOK
<1>1. Init => TypeOK
  <2> SUFFICES ASSUME Init PROVE TypeOK
    OBVIOUS
  <2>1. DataOK
    <3>1. 0 \in Ids /\ N \in Int /\ 0 \in 0 .. N
      BY NAssumption DEF Ids
    <3>2. /\ empty \in [Ids -> BOOLEAN] /\ disconnect \in [Ids -> BOOLEAN]
          /\ sock \in [Ids -> Peers \cup {None}]
          /\ managerid \in [Ids -> Ids \cup {Invalid}]
          /\ idset \in [Ids -> Ids \cup {Invalid}]
      BY DEF Init
    <3>3. reg \in [Peers -> Ids \cup {Invalid}] /\ peer \in [Peers -> PeerStates]
      BY DEF Init, PeerStates
    <3> QED BY <3>1, <3>2, <3>3 DEF Init, DataOK
  <2>2. \A S : <<>> \in Seq(S)
    OBVIOUS
  <2>3. phase \in Phases /\ i \in Nat /\ n \in 0 .. N
    BY NAssumption DEF Init, Phases
  <2>4. ControlOK
    BY <2>2, <2>3 DEF Init, ControlOK
  <2> QED BY <2>1, <2>4, TypeParts
<1> QED BY <1>1, NextType, PTL DEF Spec

-----------------------------------------------------------------------------
(* The idset and the epoll table, in either mode and with any guard         *)

\* The three loops that remove a connection.
Removes(c) ==
  (\E p \in Peers : InputRemoves(c, p)) \/ EntryRemoved(c) \/ DestroyEntry(c)
Keeps == \E c \in Ids, p \in Peers : InputKeeps(c, p)

MInv == TypeOK /\ IdsetPrefix /\ BackPointer /\ RegOwner

\* Closing a slot and some other sockets that are not in use.
LEMMA CleanedSafe ==
  ASSUME MInv, NEW s \in Ids, NEW S,
         sock[s] \in S, UNCHANGED mgr,
         sock' = [sock EXCEPT ![s] = None],
         managerid' = [managerid EXCEPT ![s] = Invalid],
         disconnect' = [disconnect EXCEPT ![s] = TRUE],
         CloseSockets(S)
  PROVE  IdsetPrefix' /\ BackPointer' /\ RegOwner'
<1>1. IdsetPrefix'
  BY DEF MInv, IdsetPrefix, mgr
<1>2. BackPointer'
  BY DEF MInv, BackPointer, mgr, TypeOK, Invalid
<1>3. RegOwner'
  BY DEF MInv, RegOwner, CloseSockets, AfterClose, Unwatch, TypeOK, Ids, Invalid
<1> QED BY <1>1, <1>2, <1>3

\* A slot handed out to a peer and, in the managed case, added to the manager.
LEMMA OpenedSafe ==
  ASSUME MInv, NEW s \in Ids, NEW p \in Peers,
         \/ /\ OpenSlot(s, p, count) /\ count < N
            /\ idset' = [idset EXCEPT ![count] = s] /\ count' = count + 1
            /\ reg' = RegAfter(s, {p})
         \/ /\ OpenSlot(s, p, Invalid) /\ UNCHANGED mgr
            /\ reg' = RegAfter(s, {}),
         peer[p] # "lost"
  PROVE  IdsetPrefix' /\ BackPointer' /\ RegOwner'
<1> USE NAssumption
<1>0. RegOwner'
  <2> SUFFICES ASSUME NEW q \in Peers, reg'[q] # Invalid, peer'[q] # "lost"
               PROVE  sock'[reg'[q]] = q /\ ~disconnect'[reg'[q]]
    BY DEF RegOwner
  <2>1. /\ sock' = [sock EXCEPT ![s] = p] /\ disconnect' = [disconnect EXCEPT ![s] = FALSE]
        /\ sock \in [Ids -> Peers \cup {None}] /\ disconnect \in [Ids -> BOOLEAN]
    BY DEF OpenSlot, MInv, TypeOK
  <2>2. CASE reg'[q] = s /\ q = p
    BY <2>1, <2>2
  <2>3. CASE q = p /\ reg'[q] # s
    <3>1. reg'[q] = reg[q]
      BY <2>3 DEF RegAfter
    <3>2. sock[reg[q]] = q /\ ~disconnect[reg[q]] /\ reg[q] \in Ids
      BY <2>3, <3>1 DEF MInv, RegOwner, TypeOK
    <3> QED BY <2>1, <2>3, <3>1, <3>2
  <2>4. CASE q # p
    <3>1. q # sock[s]
      BY <2>4 DEF RegAfter, OpenSlot
    <3>2. reg'[q] = reg[q] /\ peer[q] # "lost"
      BY <2>4, <3>1 DEF RegAfter, OpenSlot
    <3>3. sock[reg[q]] = q /\ ~disconnect[reg[q]] /\ reg[q] \in Ids
      BY <3>2 DEF MInv, RegOwner, TypeOK
    <3> QED BY <2>1, <3>1, <3>2, <3>3
  <2> QED BY <2>2, <2>3, <2>4
<1>1. CASE /\ OpenSlot(s, p, count) /\ count < N
           /\ idset' = [idset EXCEPT ![count] = s] /\ count' = count + 1
  <2>1. count \in Ids
    BY <1>1 DEF MInv, TypeOK, Ids
  <2>2. IdsetPrefix'
    BY <1>1, <2>1 DEF MInv, IdsetPrefix, TypeOK, Ids, Invalid
  <2>3. BackPointer'
    BY <1>1, <2>1 DEF MInv, BackPointer, TypeOK, Ids, Invalid, OpenSlot
  <2> QED BY <2>2, <2>3, <1>0
<1>2. CASE OpenSlot(s, p, Invalid) /\ UNCHANGED mgr
  <2>1. IdsetPrefix'
    BY <1>2 DEF MInv, IdsetPrefix, mgr
  <2>2. BackPointer'
    BY <1>2 DEF MInv, BackPointer, TypeOK, Invalid, OpenSlot, mgr
  <2> QED BY <2>1, <2>2, <1>0
<1> QED BY <1>1, <1>2

\* The swap-removal, of a connection that may not even be managed.
LEMMA SwapRemoveSafe ==
  ASSUME MInv, NEW c \in Ids, ~RemoveThrows(c), SwapRemove(c)
  PROVE  IdsetPrefix' /\ BackPointer' /\ RegOwner'
<1> DEFINE m == managerid[c]
           last == idset[count - 1]
<1>1. count \in 1 .. N /\ count - 1 \in Ids /\ last # Invalid
  BY NAssumption DEF MInv, TypeOK, RemoveThrows, Ids
<1>2. last \in Ids /\ m \in Ids \cup {Invalid}
  BY <1>1 DEF MInv, TypeOK
<1>3. m # Invalid => m < count /\ idset[m] = c
  BY DEF MInv, BackPointer
<1>4. IdsetPrefix'
  BY <1>1, <1>2, <1>3 DEF MInv, IdsetPrefix, SwapRemove, TypeOK, Ids, Invalid
<1>5. BackPointer'
  <2> SUFFICES ASSUME NEW x \in Ids, managerid'[x] # Invalid
               PROVE  managerid'[x] < count' /\ idset'[managerid'[x]] = x
    BY DEF BackPointer
  <2>1. x # c
    BY DEF SwapRemove
  <2>2. CASE x = last
    <3>1. managerid'[x] = m
      BY <2>1, <2>2 DEF SwapRemove
    <3>2. m \in Ids /\ m < count /\ m # count - 1
      BY <2>1, <2>2, <3>1, <1>2, <1>3
    <3> QED BY <1>1, <2>2, <3>1, <3>2 DEF SwapRemove, Ids
  <2>3. CASE x # last
    <3>1. managerid'[x] = managerid[x] /\ managerid[x] \in Ids
      BY <2>1, <2>3 DEF SwapRemove, MInv, TypeOK
    <3>2. managerid[x] < count /\ idset[managerid[x]] = x
      BY <3>1 DEF MInv, BackPointer
    <3>3. managerid[x] # count - 1 /\ managerid[x] # m
      BY <2>1, <2>3, <3>1, <3>2, <1>3
    <3> QED BY <1>1, <3>1, <3>2, <3>3 DEF SwapRemove, Ids
  <2> QED BY <2>2, <2>3
<1>6. RegOwner'
  BY DEF MInv, RegOwner, SwapRemove, AfterClose, Unwatch, TypeOK, Ids, Invalid
<1> QED BY <1>4, <1>5, <1>6

LEMMA FailedRemoveSafe ==
  ASSUME MInv, NEW c \in Ids, FailedRemove(c)
  PROVE  IdsetPrefix' /\ BackPointer' /\ RegOwner'
  BY DEF MInv, IdsetPrefix, BackPointer, RegOwner, FailedRemove, Unwatch, TypeOK,
         conns, pool, mgr

LEMMA ManagerStep ==
  ASSUME MInv, [Next]_vars
  PROVE  IdsetPrefix' /\ BackPointer' /\ RegOwner'
<1> DEFINE Safe == IdsetPrefix /\ BackPointer /\ RegOwner
<1>d. ASSUME UNCHANGED <<managerid, sock, disconnect, idset, count, reg>>,
             \A p \in Peers : peer[p] = "lost" => peer'[p] = "lost"
      PROVE  Safe'
  BY <1>d DEF MInv, IdsetPrefix, BackPointer, RegOwner
<1>1. CASE \/ Select \/ InputDone \/ InputListen \/ InputNothing \/ AcceptBound
           \/ EntryKept \/ OutputDone \/ CommandDone
           \/ DestroySkip \/ DestroyDone \/ DestroyStart \/ Keeps
           \/ UNCHANGED vars
  BY <1>1, <1>d DEF Select, InputDone, InputListen, InputNothing, AcceptBound,
     EntryKept, OutputDone, CommandDone, DestroySkip, DestroyDone,
     DestroyStart, Keeps, InputKeeps, vars, conns, pool, mgr, epoll, remote
<1>6. CASE Environment
  BY <1>6, <1>d DEF Environment, PeerArrives, PeerSends, PeerHangsUp, PeerResets,
     MInv, TypeOK, conns, pool, mgr, epoll
<1>2. ASSUME NEW c \in Ids, Removes(c)
      PROVE  Safe'
  BY <1>2, SwapRemoveSafe, FailedRemoveSafe
     DEF Removes, InputRemoves, EntryRemoved, DestroyEntry
<1>3. ASSUME NEW s \in Ids, AcceptNobody(s) \/ ConnectFails(s) PROVE Safe'
  BY <1>3, CleanedSafe DEF AcceptNobody, ConnectFails, CleanSlot
<1>4. ASSUME NEW s \in Ids, NEW p \in Peers, AcceptRefused(s, p) PROVE Safe'
  BY <1>4, CleanedSafe DEF AcceptRefused
<1>5. ASSUME NEW s \in Ids, NEW p \in Peers,
             AcceptSuccess(s, p) \/ AcceptHalf(s, p) \/ ConnectSuccess(s, p)
      PROVE  Safe'
  BY <1>5, OpenedSafe DEF AcceptSuccess, AcceptHalf, ConnectSuccess, CanAdd
<1> QED
  BY <1>1, <1>2, <1>3, <1>4, <1>5, <1>6 DEF Next, Tick, Connect, Removes, Keeps

LEMMA ManagerInductive == Spec => []MInv
<1> DEFINE Safe == IdsetPrefix /\ BackPointer /\ RegOwner
<1>1. Init => Safe
  BY NAssumption DEF Init, IdsetPrefix, BackPointer, RegOwner, Ids, Invalid
<1>2. TypeOK /\ Safe /\ [Next]_vars => Safe'
  BY ManagerStep DEF MInv
<1>3. TypeOK /\ Safe => MInv
  BY DEF MInv
<1> QED BY <1>1, <1>2, <1>3, TypeInvariant, PTL DEF Spec

\* In either mode, whatever remove() refuses and whatever slots accept() hands
\* out twice, the idset stays dense: add() finds the entry at count_ free.
THEOREM IdsetDense == Spec => []IdsetPrefix
<1>1. MInv => IdsetPrefix
  BY DEF MInv
<1> QED BY <1>1, ManagerInductive, PTL

\* In either mode, the managerid_ of a managed connection is a position of
\* that connection in the idset, below count_.
THEOREM NoStaleIndex == Spec => []BackPointer
<1>1. MInv => BackPointer
  BY DEF MInv
<1> QED BY <1>1, ManagerInductive, PTL

\* In either mode, a socket that epoll watches is in use and watched under the
\* id of the live connection that owns it, or it was reset and close() left it
\* open.
THEOREM EpollWatchesOwners == Spec => []RegOwner
<1>1. MInv => RegOwner
  BY DEF MInv
<1> QED BY <1>1, ManagerInductive, PTL

-----------------------------------------------------------------------------
(* A manager that only connects *)

\* What the loops of a connecting manager rely on: it accepts nobody, an open
\* socket belongs to a managed connection, and the events still to be handled
\* name the connections whose sockets raised them.
NoAccept ==
  phase # "accept" /\ \A k \in 1 .. Len(evs) : evs[k].sock # Listen
NoneLost == \A p \in Peers : peer[p] = "lost" => reg[p] = Invalid
LiveManaged == \A c \in Ids : sock[c] # None => managerid[c] # Invalid
EventsOwned ==
  phase = "input" =>
    \A k \in 1 .. Len(evs), c \in Ids :
      evs[k].id = c /\ ~disconnect[c] => sock[c] = evs[k].sock

Slots == IdsetOwned /\ SlotOwned /\ IdsetInBounds /\ LiveManaged
ClientInv == Slots /\ NoAccept /\ EventsOwned /\ NoneLost

LEMMA SwapRemoveSlots ==
  ASSUME MInv, Slots, NEW c \in Ids, managerid[c] # Invalid,
         ~RemoveThrows(c), SwapRemove(c)
  PROVE  /\ Slots'
         /\ disconnect' = [disconnect EXCEPT ![c] = TRUE]
         /\ sock' = [sock EXCEPT ![c] = None]
         /\ \A d \in Ids : managerid'[d] = Invalid <=> d = c \/ managerid[d] = Invalid
<1> DEFINE m == managerid[c]
           last == idset[count - 1]
<1>1. count \in 1 .. N /\ count - 1 \in Ids /\ last \in Ids
  BY NAssumption DEF MInv, TypeOK, RemoveThrows, Ids
<1>2. m \in Ids /\ m < count /\ idset[m] = c
  BY DEF MInv, BackPointer, TypeOK
<1>3. managerid[last] = count - 1
  BY <1>1 DEF Slots, IdsetOwned, Invalid, Ids
<1>4. \A d \in Ids : managerid'[d] = IF d = c THEN Invalid
                                   ELSE IF d = last THEN m ELSE managerid[d]
  BY DEF SwapRemove
<1>5. \A d \in Ids : managerid'[d] = Invalid <=> d = c \/ managerid[d] = Invalid
  BY <1>1, <1>2, <1>3, <1>4 DEF Invalid, Ids
<1>6. IdsetOwned'
  <2> SUFFICES ASSUME NEW k \in Ids, idset'[k] # Invalid
               PROVE  managerid'[idset'[k]] = k
    BY DEF IdsetOwned
  <2>1. k # count - 1
    BY DEF SwapRemove
  <2>2. CASE k = m
    <3>1. idset'[k] = last /\ last # c
      BY <1>1, <1>3, <2>1, <2>2 DEF SwapRemove
    <3> QED BY <1>1, <1>4, <2>2, <3>1
  <2>3. CASE k # m
    <3>1. idset'[k] = idset[k] /\ idset[k] \in Ids
      BY <2>1, <2>3 DEF SwapRemove, MInv, TypeOK
    <3>2. managerid[idset[k]] = k
      BY <3>1 DEF Slots, IdsetOwned, Ids, Invalid
    <3> QED BY <1>3, <1>4, <2>1, <2>3, <3>1, <3>2
  <2> QED BY <2>2, <2>3
<1>7. SlotOwned' /\ LiveManaged'
  BY <1>5 DEF Slots, SlotOwned, LiveManaged, SwapRemove, MInv, TypeOK
<1>8. IdsetInBounds'
  BY DEF Slots, IdsetInBounds, SwapRemove
<1> QED BY <1>5, <1>6, <1>7, <1>8 DEF Slots, SwapRemove

\* A connection that is being removed is managed: its socket is open, or it
\* is an entry of the idset.
LEMMA RemovedIsManaged ==
  ASSUME MInv, Slots, NEW c \in Ids,
         Removes(c)
  PROVE  managerid[c] # Invalid
<1>1. CASE \E p \in Peers : InputRemoves(c, p)
  BY <1>1, PeersAssumption DEF InputRemoves, AtSocket, Slots, LiveManaged
<1>2. CASE EntryRemoved(c)
  BY <1>2 DEF EntryRemoved, AtLiveEntry, Slots, LiveManaged
<1>3. CASE DestroyEntry(c)
  <2>1. i \in Ids /\ idset[i] = c
    BY <1>3, NAssumption DEF DestroyEntry, AtEntry, MInv, TypeOK, Ids
  <2> QED BY <2>1 DEF Slots, IdsetOwned, Ids, Invalid
<1> QED BY <1>1, <1>2, <1>3 DEF Removes

LEMMA SelectOwned ==
  ASSUME MInv, NoAccept, NoneLost, ~ServerMode, Select
  PROVE  NoAccept' /\ EventsOwned'
<1>1. PICK f \in Bijection(1 .. Cardinality(PendingEvents), PendingEvents) :
        evs' = f
  BY DEF Select
<1>2. evs' \in Seq([sock : Peers \cup {Listen}, id : Ids \cup {Invalid}])
  BY <1>1, EventsType DEF MInv
<1>3. \A k \in DOMAIN evs' : evs'[k] \in PendingEvents
  BY <1>1 DEF Bijection, Injection
<1>4. DOMAIN evs' = 1 .. Len(evs')
  BY <1>2
<1>5. \A e \in PendingEvents :
        /\ e.sock \in Peers /\ e.id \in Ids /\ sock[e.id] = e.sock
  BY DEF PendingEvents, MInv, RegOwner, NoneLost, TypeOK
<1>6. \A k \in 1 .. Len(evs') :
        /\ evs'[k].sock \in Peers /\ sock[evs'[k].id] = evs'[k].sock
  BY <1>3, <1>4, <1>5
<1>7. phase' = "input" /\ sock' = sock
  BY DEF Select, conns
<1>8. NoAccept'
  BY <1>6, <1>7, PeersAssumption DEF NoAccept
<1>9. EventsOwned'
  BY <1>6, <1>7 DEF EventsOwned
<1> QED BY <1>8, <1>9

\* The three ways a removal ends, seen from the connections and the control.
LEMMA RemovalStep ==
  ASSUME NEW c \in Ids, Removes(c)
  PROVE  /\ \/ ~RemoveThrows(c) /\ SwapRemove(c)
            \/ FailedRemove(c)
         /\ phase' = phase \/ phase' \in {"select", "command"}
         /\ evs' = evs \/ evs' = <<>>
  BY DEF Removes, InputRemoves, EntryRemoved, DestroyEntry, StartLoop, EndTick

LEMMA ClientStep ==
  ASSUME ~ServerMode, MInv, ClientInv, [Next]_vars
  PROVE  ClientInv'
<1> USE DEF ClientInv
<1>d. ASSUME UNCHANGED <<empty, managerid, sock, idset, corrupt>> PROVE Slots'
  BY <1>d DEF Slots, IdsetOwned, SlotOwned, IdsetInBounds, LiveManaged
<1>e. ASSUME UNCHANGED <<sock, disconnect>>, phase' = phase \/ phase' \notin {"input", "accept"},
             evs' = evs \/ evs' = <<>>
      PROVE  NoAccept' /\ EventsOwned'
  BY <1>e DEF NoAccept, EventsOwned
<1>1. CASE Select
  BY <1>1, <1>d, SelectOwned DEF Select, conns, mgr, remote, NoneLost
<1>2. CASE \/ InputDone \/ InputNothing \/ EntryKept \/ OutputDone \/ CommandDone
           \/ DestroySkip \/ DestroyDone \/ DestroyStart \/ Keeps
           \/ UNCHANGED vars
  <2>1. Slots' /\ NoAccept' /\ EventsOwned'
    BY <1>2, <1>d, <1>e DEF InputDone, InputNothing, EntryKept, OutputDone,
       CommandDone, DestroySkip, DestroyDone, DestroyStart, Keeps, InputKeeps,
       StartLoop, EndTick, vars, conns, mgr
  <2>2. UNCHANGED <<reg, peer>>
    BY <1>2 DEF InputDone, InputNothing, EntryKept, OutputDone,
       CommandDone, DestroySkip, DestroyDone, DestroyStart, Keeps, InputKeeps,
       vars, epoll, remote
  <2> QED BY <2>1, <2>2 DEF NoneLost
<1>8. CASE Environment
  <2>1. UNCHANGED <<conns, mgr, control, reg>>
    BY <1>8 DEF Environment, PeerArrives, PeerSends, PeerHangsUp, PeerResets, epoll
  <2>2. \A p \in Peers : peer'[p] = "lost" => peer[p] = "lost"
    BY <1>8 DEF Environment, PeerArrives, PeerSends, PeerHangsUp, PeerResets, MInv, TypeOK
  <2>3. Slots' /\ NoAccept' /\ EventsOwned'
    BY <2>1, <1>d, <1>e DEF conns, mgr, control
  <2> QED BY <2>1, <2>2, <2>3 DEF NoneLost
<1>3. ~InputListen
  BY DEF InputListen, NoAccept, AtEvent, Event, MInv, TypeOK
<1>4. /\ ~AcceptBound
      /\ \A s \in Ids : ~AcceptNobody(s)
      /\ \A s \in Ids, p \in Peers :
           ~AcceptRefused(s, p) /\ ~AcceptSuccess(s, p) /\ ~AcceptHalf(s, p)
  BY DEF AcceptBound, AcceptNobody, AcceptRefused, AcceptSuccess,
         AcceptHalf, AtAccept, NoAccept
<1>5. ASSUME NEW c \in Ids, Removes(c)
      PROVE  ClientInv'
  <2>0. NoneLost'
    BY <1>5, RemovalStep, PeersAssumption
       DEF NoneLost, SwapRemove, AfterClose, FailedRemove, Unwatch, MInv, TypeOK
  <2>1. CASE ~RemoveThrows(c) /\ SwapRemove(c)
    <3>0. managerid[c] # Invalid
      BY <1>5, RemovedIsManaged
    <3>1. /\ Slots' /\ disconnect' = [disconnect EXCEPT ![c] = TRUE]
          /\ sock' = [sock EXCEPT ![c] = None]
      BY <2>1, <3>0, SwapRemoveSlots
    <3>2. /\ phase' = phase \/ phase' \in {"select", "command"}
          /\ evs' = evs \/ evs' = <<>>
      BY <1>5, RemovalStep
    <3>3. NoAccept'
      BY <3>2 DEF NoAccept
    <3>4. EventsOwned'
      <4>1. CASE evs' = evs
        <5>1. \A d \in Ids : ~disconnect'[d] => ~disconnect[d] /\ sock'[d] = sock[d]
          BY <3>1 DEF MInv, TypeOK
        <5> QED BY <3>2, <4>1, <5>1 DEF EventsOwned
      <4>2. CASE evs' = <<>>
        BY <4>2 DEF EventsOwned
      <4> QED BY <3>2, <4>1, <4>2
    <3> QED BY <2>0, <3>1, <3>3, <3>4
  <2>2. CASE FailedRemove(c)
    BY <1>5, <2>0, <2>2, <1>d, <1>e, RemovalStep DEF FailedRemove, conns, mgr
  <2> QED BY <1>5, <2>1, <2>2, RemovalStep
<1>6. ASSUME NEW s \in Ids, ConnectFails(s) PROVE ClientInv'
  <2>1. empty[s] /\ managerid[s] = Invalid
    BY <1>6 DEF ConnectFails, TakesSlot, Slots, SlotOwned
  <2>2. Slots'
    BY <1>6, <2>1 DEF ConnectFails, CleanSlot, Slots, SlotOwned, IdsetOwned,
       IdsetInBounds, LiveManaged, MInv, TypeOK, mgr
  <2>3. NoAccept' /\ EventsOwned'
    BY <1>6 DEF ConnectFails, AtConnect, control, NoAccept, EventsOwned
  <2>4. NoneLost'
    <3>1. sock[s] = None
      BY <2>1 DEF Slots, LiveManaged
    <3>2. UNCHANGED <<peer, reg>>
      BY <1>6, <3>1, PeersAssumption
         DEF ConnectFails, CleanSlot, CloseSockets, AfterClose, Unwatch, MInv, TypeOK
    <3> QED BY <3>2 DEF NoneLost
  <2> QED BY <2>2, <2>3, <2>4
<1>7. ASSUME NEW s \in Ids, NEW p \in Peers, ConnectSuccess(s, p) PROVE ClientInv'
  <2>1. empty[s] /\ managerid[s] = Invalid /\ count \in Ids
    BY <1>7, NAssumption DEF ConnectSuccess, CanAdd, TakesSlot, Slots, SlotOwned,
       MInv, TypeOK, Ids
  <2>2. /\ managerid' = [managerid EXCEPT ![s] = count]
        /\ sock' = [sock EXCEPT ![s] = p] /\ empty' = [empty EXCEPT ![s] = FALSE]
        /\ idset' = [idset EXCEPT ![count] = s] /\ corrupt' = corrupt
    BY <1>7 DEF ConnectSuccess, OpenSlot
  <2>3. IdsetOwned'
    BY <2>1, <2>2 DEF Slots, IdsetOwned, MInv, TypeOK, Ids, Invalid
  <2>4. SlotOwned' /\ LiveManaged' /\ IdsetInBounds'
    BY <2>1, <2>2 DEF Slots, SlotOwned, LiveManaged, IdsetInBounds, MInv, TypeOK,
       Ids, Invalid
  <2>5. NoAccept' /\ EventsOwned'
    BY <1>7 DEF ConnectSuccess, AtConnect, control, NoAccept, EventsOwned
  <2>6. NoneLost'
    <3>1. sock[s] = None /\ peer[p] = "idle"
      BY <1>7, <2>1 DEF ConnectSuccess, Slots, LiveManaged
    <3>2. \A q \in Peers : q # p => peer'[q] = peer[q] /\ reg'[q] = reg[q]
      BY <1>7, <3>1, PeersAssumption DEF ConnectSuccess, OpenSlot, RegAfter, MInv, TypeOK
    <3>3. peer'[p] = "open"
      BY <1>7 DEF ConnectSuccess, OpenSlot
    <3> QED BY <3>2, <3>3 DEF NoneLost
  <2> QED BY <2>3, <2>4, <2>5, <2>6 DEF Slots
<1> QED
  BY <1>1, <1>2, <1>3, <1>4, <1>5, <1>6, <1>7, <1>8 DEF Next, Tick, Connect, Removes, Keeps

LEMMA ClientInductive ==
  ASSUME ~ServerMode
  PROVE  Spec => [](MInv /\ ClientInv)
<1>1. Init => ClientInv
  BY NAssumption DEF Init, ClientInv, Slots, IdsetOwned, SlotOwned, IdsetInBounds,
     LiveManaged, NoAccept, EventsOwned, NoneLost, Ids, Invalid
<1>2. MInv /\ ClientInv /\ [Next]_vars => ClientInv'
  BY ClientStep
<1> QED BY <1>1, <1>2, ManagerInductive, PTL DEF Spec

\* The idset of a connecting manager holds each managed connection once.
THEOREM ClientOwnsEntries ==
  ASSUME ~ServerMode
  PROVE  Spec => []IdsetOwned
<1>1. MInv /\ ClientInv => IdsetOwned
  BY DEF ClientInv, Slots
<1> QED BY <1>1, ClientInductive, PTL

\* Exactly the managed connections of a connecting manager are taken from the
\* pool: no slot leaks, none that is in use can be handed out again.
THEOREM ClientOwnsSlots ==
  ASSUME ~ServerMode
  PROVE  Spec => []SlotOwned
<1>1. MInv /\ ClientInv => SlotOwned
  BY DEF ClientInv, Slots
<1> QED BY <1>1, ClientInductive, PTL

\* Removal in a connecting manager never writes below the idset: what it
\* removes is always managed.
THEOREM ClientInBounds ==
  ASSUME ~ServerMode
  PROVE  Spec => []IdsetInBounds
<1>1. MInv /\ ClientInv => IdsetInBounds
  BY DEF ClientInv, Slots
<1> QED BY <1>1, ClientInductive, PTL

\* An event of a batch reaches only the connection whose socket raised it,
\* whatever earlier events of the batch have closed.
THEOREM ClientEventOwner ==
  ASSUME ~ServerMode
  PROVE  Spec => []EventOwner
<1>1. MInv /\ ClientInv => EventOwner
  BY DEF ClientInv, EventOwner, EventsOwned, AtLive, AtEvent, Event, MInv, TypeOK
<1> QED BY <1>1, ClientInductive, PTL

-----------------------------------------------------------------------------
(* The connections and their remote ends *)

\* A socket that is open here has a remote end that is not free to connect,
\* nobody else has it, and a managed connection has one.
InUse == \A c \in Ids : sock[c] # None => peer[sock[c]] \in {"open", "hup", "reset"}
OneEach == \A c, d \in Ids : sock[c] # None /\ sock[c] = sock[d] => c = d
ManagedOpen == \A c \in Ids : managerid[c] # Invalid => sock[c] # None

Sockets == InUse /\ OneEach /\ ManagedOpen
TableInv == MInv /\ ClientInv /\ Sockets

\* The table of connections is the sockets, as every open one is managed.
LEMMA ConnectionIsSocket ==
  ASSUME TableInv
  PROVE  Connection = sock
<1>1. \A c \in Ids : Connection[c] = sock[c]
  BY DEF Connection, TableInv, ClientInv, Slots, LiveManaged, Sockets, ManagedOpen
<1>2. Connection = [c \in Ids |-> sock[c]]
  BY <1>1 DEF Connection
<1> QED BY <1>2 DEF TableInv, MInv, TypeOK

\* The steps of the table, on the sockets.
SocketCloses(c) ==
  /\ sock[c] # None
  /\ sock' = [sock EXCEPT ![c] = None]
  /\ \/ peer' = [peer EXCEPT ![sock[c]] = "idle"]
     \/ peer[sock[c]] = "reset" /\ peer' = [peer EXCEPT ![sock[c]] = "lost"]
SocketLingers(p) ==
  /\ peer[p] = "reset" /\ peer' = [peer EXCEPT ![p] = "hup"] /\ UNCHANGED sock
SocketOpens(s, p) ==
  /\ sock[s] = None /\ peer[p] = "idle"
  /\ sock' = [sock EXCEPT ![s] = p] /\ peer' = [peer EXCEPT ![p] = "open"]

\* Each step of the manager is at most one of them.
LEMMA RemovalCloses ==
  ASSUME TableInv, NEW c \in Ids, Removes(c)
  PROVE  /\ Sockets'
         /\ \/ SocketCloses(c)
            \/ \E p \in Peers : SocketLingers(p)
            \/ UNCHANGED <<sock, peer>>
<1>0. peer \in [Peers -> PeerStates] /\ sock \in [Ids -> Peers \cup {None}]
  BY DEF TableInv, MInv, TypeOK
<1>1. CASE ~RemoveThrows(c) /\ SwapRemove(c)
  <2>1. managerid[c] # Invalid /\ sock[c] # None
    BY RemovedIsManaged DEF TableInv, ClientInv, Sockets, ManagedOpen
  <2>2. /\ sock' = [sock EXCEPT ![c] = None]
        /\ \A d \in Ids : managerid'[d] = Invalid <=> d = c \/ managerid[d] = Invalid
    BY <1>1, <2>1, SwapRemoveSlots DEF TableInv, ClientInv
  <2>3. \/ peer' = [peer EXCEPT ![sock[c]] = "idle"]
        \/ peer[sock[c]] = "reset" /\ peer' = [peer EXCEPT ![sock[c]] = "lost"]
    <3>1. peer' = [p \in Peers |-> IF p # sock[c] THEN peer[p]
                                  ELSE IF PendingError(p) THEN "lost" ELSE "idle"]
      BY <1>1 DEF SwapRemove, AfterClose
    <3>2. sock[c] \in Peers
      BY <1>0, <2>1
    <3>3. CASE PendingError(sock[c])
      BY <1>0, <3>1, <3>2, <3>3 DEF PendingError
    <3>4. CASE ~PendingError(sock[c])
      BY <1>0, <3>1, <3>2, <3>4
    <3> QED BY <3>3, <3>4
  <2>4. Sockets'
    BY <1>0, <2>1, <2>2, <2>3 DEF TableInv, Sockets, InUse, OneEach, ManagedOpen
  <2> QED BY <2>1, <2>2, <2>3, <2>4 DEF SocketCloses
<1>2. CASE FailedRemove(c)
  <2>1. UNCHANGED <<sock, managerid>>
    BY <1>2 DEF FailedRemove, conns
  <2>2. peer' = [p \in Peers |-> IF p = sock[c] /\ peer[p] = "reset" /\ ~PendingError(p)
                                THEN "hup" ELSE peer[p]]
    BY <1>2 DEF FailedRemove
  <2>3. peer' = peer \/ \E p \in Peers : SocketLingers(p)
    <3>1. CASE sock[c] \in Peers /\ peer[sock[c]] = "reset" /\ ~PendingError(sock[c])
      <4>1. peer' = [peer EXCEPT ![sock[c]] = "hup"]
        BY <1>0, <2>2, <3>1
      <4> QED BY <2>1, <3>1, <4>1 DEF SocketLingers
    <3>2. CASE ~(sock[c] \in Peers /\ peer[sock[c]] = "reset" /\ ~PendingError(sock[c]))
      BY <1>0, <2>2, <3>2
    <3> QED BY <3>1, <3>2
  <2>4. Sockets'
    BY <1>0, <2>1, <2>2 DEF TableInv, Sockets, InUse, OneEach, ManagedOpen
  <2> QED BY <2>1, <2>3, <2>4
<1> QED BY <1>1, <1>2, RemovalStep

LEMMA FailureCloses ==
  ASSUME TableInv, NEW s \in Ids, ConnectFails(s)
  PROVE  Sockets' /\ UNCHANGED <<sock, peer>>
<1>1. managerid[s] = Invalid /\ sock[s] = None
  BY DEF ConnectFails, TakesSlot, TableInv, ClientInv, Slots, SlotOwned, LiveManaged
<1>2. sock' = sock /\ managerid' = managerid /\ peer' = peer
  BY <1>1, PeersAssumption
     DEF ConnectFails, CleanSlot, CloseSockets, AfterClose, TableInv, MInv, TypeOK
<1> QED BY <1>2 DEF TableInv, Sockets, InUse, OneEach, ManagedOpen

LEMMA ConnectOpens ==
  ASSUME TableInv, NEW s \in Ids, NEW p \in Peers, ConnectSuccess(s, p)
  PROVE  Sockets' /\ SocketOpens(s, p)
<1>1. sock[s] = None /\ peer[p] = "idle" /\ p # None
  BY PeersAssumption
     DEF ConnectSuccess, TakesSlot, TableInv, ClientInv, Slots, SlotOwned, LiveManaged
<1>2. \A c \in Ids : sock[c] # p
  BY <1>1 DEF TableInv, Sockets, InUse
<1>3. /\ sock' = [sock EXCEPT ![s] = p] /\ managerid' = [managerid EXCEPT ![s] = count]
  BY DEF ConnectSuccess, OpenSlot
<1>4. peer' = [peer EXCEPT ![p] = "open"]
  BY <1>1, PeersAssumption DEF ConnectSuccess, OpenSlot, TableInv, MInv, TypeOK
<1>5. Sockets'
  BY <1>1, <1>2, <1>3, <1>4 DEF TableInv, MInv, TypeOK, Sockets, InUse, OneEach, ManagedOpen
<1> QED BY <1>1, <1>3, <1>4, <1>5 DEF SocketOpens

LEMMA TableStep ==
  ASSUME ~ServerMode, TableInv, [Next]_vars
  PROVE  /\ Sockets'
         /\ \/ UNCHANGED <<sock, peer>>
            \/ \E c \in Ids : SocketCloses(c)
            \/ \E s \in Ids, p \in Peers : SocketOpens(s, p)
            \/ \E p \in Peers : PeerHangsUp(p) \/ PeerResets(p) \/ SocketLingers(p)
<1>d. ASSUME UNCHANGED <<sock, managerid, peer>> PROVE Sockets'
  BY <1>d DEF TableInv, Sockets, InUse, OneEach, ManagedOpen
<1>1. ASSUME NEW c \in Ids, Removes(c)
      PROVE  /\ Sockets'
             /\ \/ SocketCloses(c)
                \/ \E p \in Peers : SocketLingers(p)
                \/ UNCHANGED <<sock, peer>>
  BY <1>1, RemovalCloses
<1>2. ASSUME NEW s \in Ids, ConnectFails(s) PROVE Sockets' /\ UNCHANGED <<sock, peer>>
  BY <1>2, FailureCloses
<1>3. ASSUME NEW s \in Ids, NEW p \in Peers, ConnectSuccess(s, p)
      PROVE  Sockets' /\ SocketOpens(s, p)
  BY <1>3, ConnectOpens
<1>4. ASSUME NEW p \in Peers, PeerHangsUp(p) \/ PeerResets(p) PROVE Sockets'
  BY <1>4 DEF PeerHangsUp, PeerResets, conns, TableInv, MInv, TypeOK, Sockets, InUse, OneEach, ManagedOpen
<1>5. CASE \/ Select \/ InputDone \/ InputListen \/ InputNothing \/ EntryKept
           \/ OutputDone \/ CommandDone \/ DestroySkip \/ DestroyDone
           \/ DestroyStart \/ Keeps \/ UNCHANGED vars
           \/ \E p \in Peers : PeerArrives(p) \/ PeerSends(p)
  BY <1>5, <1>d DEF Select, InputDone, InputListen, InputNothing, EntryKept,
     OutputDone, CommandDone, DestroySkip, DestroyDone, DestroyStart, PeerArrives, PeerSends,
     Keeps, InputKeeps, vars, conns, epoll, remote
<1>6. phase # "accept"
  BY DEF TableInv, ClientInv, NoAccept
<1> QED
  BY <1>1, <1>2, <1>3, <1>4, <1>5, <1>6 DEF Next, Tick, Connect, Environment,
     AcceptBound, AcceptNobody, AcceptRefused, AcceptSuccess,
     AcceptHalf, AtAccept, Removes, Keeps

LEMMA TableInductive ==
  ASSUME ~ServerMode
  PROVE  Spec => []TableInv
<1>1. Init => Sockets
  BY DEF Init, Sockets, InUse, OneEach, ManagedOpen
<1>2. MInv /\ ClientInv /\ Sockets /\ [Next]_vars => Sockets'
  BY TableStep DEF TableInv
<1>3. MInv /\ ClientInv /\ Sockets <=> TableInv
  BY DEF TableInv
<1> QED BY <1>1, <1>2, <1>3, ClientInductive, PTL DEF Spec

\* For any capacity, guard and peers, a connecting manager implements the
\* table of connections: whatever pool, idset, epoll and the loops of tick()
\* do, a step opens one connection to a remote end that is free, or closes one
\* on both ends, or changes nothing of the table.
THEOREM ClientImplementsTable ==
  ASSUME ~ServerMode
  PROVE  Spec => ImplementsTable
<1>1. Init => Table!Init
  BY DEF Init, Table!Init, Connection
<1>2. ASSUME TableInv, TableInv', [Next]_vars
      PROVE  [Table!Next]_<<Connection, peer>>
  <2>1. Connection = sock /\ Connection' = sock'
    <3>1. Connection' = [c \in Ids |-> IF managerid'[c] # Invalid THEN sock'[c] ELSE None]
      BY DEF Connection
    <3>2. \A c \in Ids : managerid'[c] = Invalid => sock'[c] = None
      BY <1>2 DEF TableInv, ClientInv, Slots, LiveManaged
    <3>3. sock' = [c \in Ids |-> sock'[c]]
      BY <1>2 DEF TableInv, MInv, TypeOK
    <3>4. \A c \in Ids : (IF managerid'[c] # Invalid THEN sock'[c] ELSE None) = sock'[c]
      BY <3>2
    <3> QED BY <1>2, <3>1, <3>3, <3>4, ConnectionIsSocket
  <2>2. ASSUME NEW p \in Peers, PeerHangsUp(p) \/ PeerResets(p) \/ SocketLingers(p)
        PROVE  Table!HangUp(p) \/ Table!Reset(p) \/ Table!Linger(p)
    BY <1>2, <2>1, <2>2 DEF PeerHangsUp, PeerResets, SocketLingers, Table!HangUp,
       Table!Reset, Table!Linger, conns, TableInv, MInv, TypeOK
  <2>3. \A c \in Ids : SocketCloses(c) => Table!Close(c)
    BY <2>1 DEF SocketCloses, Table!Close
  <2>4. \A s \in Ids, p \in Peers : SocketOpens(s, p) => Table!Open(s, p)
    BY <2>1 DEF SocketOpens, Table!Open
  <2> QED BY <1>2, <2>1, <2>2, <2>3, <2>4, TableStep DEF Table!Next
<1>3. TableInv /\ TableInv' /\ [Next]_vars => [Table!Next]_<<Connection, peer>>
  BY <1>2
<1> QED BY <1>1, <1>3, TableInductive, PTL DEF Spec, ImplementsTable, Table!Spec

-----------------------------------------------------------------------------
(* ... whose capacity remove() can handle *)

LEMMA NoThrow ==
  ASSUME N <= GuardLimit, MInv, NEW c \in Ids, managerid[c] # Invalid
  PROVE  ~RemoveThrows(c)
<1>1. managerid[c] \in Ids /\ managerid[c] < count
  BY DEF MInv, BackPointer, TypeOK
<1>2. count \in 1 .. N /\ count - 1 \in Ids
  BY <1>1, NAssumption DEF MInv, TypeOK, Ids
<1>3. idset[count - 1] # Invalid
  BY <1>2 DEF MInv, IdsetPrefix, Ids
<1>4. managerid[c] < GuardLimit
  BY <1>1, <1>2, NAssumption, LimitAssumption DEF Ids
<1> QED BY <1>1, <1>2, <1>3, <1>4, LimitAssumption DEF RemoveThrows, Ids

\* The two halves of ManagedWatched: how a connection is registered, and that
\* a hang-up is not forgotten.
Registered ==
  \A c \in Ids : managerid[c] # Invalid =>
    sock[c] # None /\ ~disconnect[c] /\ reg[sock[c]] = c
Reported ==
  \A c \in Ids : managerid[c] # Invalid /\ peer[sock[c]] = "hup" =>
    sock[c] \in missed \/ StillReported(sock[c])

LEMMA WatchedParts == ManagedWatched <=> Registered /\ Reported
  BY DEF ManagedWatched, Registered, Reported

LEMMA WatchedPartsPrimed == ManagedWatched' <=> Registered' /\ Reported'
  BY DEF ManagedWatched, Registered, Reported

\* The kernel reports every pending edge of a registered socket.
LEMMA SelectReports ==
  ASSUME TableInv, ManagedWatched, Select
  PROVE  Reported'
<1>1. PICK f \in Bijection(1 .. Cardinality(PendingEvents), PendingEvents) :
        evs' = f
  BY DEF Select
<1>2. evs' \in Seq([sock : Peers \cup {Listen}, id : Ids \cup {Invalid}])
  BY <1>1, EventsType DEF TableInv, MInv
<1>3. \A e \in PendingEvents : \E k \in 1 .. Len(evs') : evs'[k] = e
  <2>1. DOMAIN evs' = 1 .. Len(evs')
    BY <1>2
  <2>2. DOMAIN f = 1 .. Cardinality(PendingEvents)
    BY DEF Bijection, Injection
  <2> QED BY <1>1, <2>1, <2>2 DEF Bijection, Surjection
<1>4. phase' = "input" /\ i' = 0 /\ UNCHANGED <<managerid, sock, peer, reg, missed>>
  BY DEF Select, conns, remote
<1> SUFFICES ASSUME NEW c \in Ids, managerid[c] # Invalid, peer[sock[c]] = "hup",
                    sock[c] \notin missed
             PROVE  StillReported(sock[c])'
  BY <1>4 DEF Reported
<1>5. sock[c] \in edge /\ reg[sock[c]] # Invalid
  BY DEF ManagedWatched, StillReported, Select, Invalid, Ids
<1>6. [sock |-> sock[c], id |-> reg[sock[c]]] \in PendingEvents
  BY <1>5 DEF PendingEvents
<1>7. PICK k \in 1 .. Len(evs') : evs'[k] = [sock |-> sock[c], id |-> reg[sock[c]]]
  BY <1>3, <1>6
<1>8. k \in i' + 1 .. Len(evs')
  BY <1>4
<1> QED BY <1>4, <1>7, <1>8 DEF StillReported

\* Outside a batch, what is still to be reported stays so while the edges do.
LEMMA ReportWaits ==
  ASSUME Reported, phase # "input" \/ i >= Len(evs), TypeOK, UNCHANGED <<managerid, sock>>,
         \A c \in Ids : managerid[c] # Invalid /\ peer'[sock[c]] = "hup" =>
           peer[sock[c]] = "hup" \/ sock[c] \in edge',
         \A c \in Ids : managerid[c] # Invalid /\ sock[c] \in edge => sock[c] \in edge',
         missed \subseteq missed'
  PROVE  Reported'
<1> SUFFICES ASSUME NEW c \in Ids, managerid[c] # Invalid, peer'[sock[c]] = "hup",
                    sock[c] \notin missed'
             PROVE  sock[c] \in edge'
  BY DEF Reported, StillReported
<1>1. Len(evs) \in Nat /\ i \in Nat
  BY DEF TypeOK
<1>2. ~(phase = "input" /\ \E k \in i + 1 .. Len(evs) : TRUE)
  BY <1>1
<1> QED BY <1>2 DEF Reported, StillReported

LEMMA RemovalWatches ==
  ASSUME N <= GuardLimit, TableInv, ManagedWatched, NEW c \in Ids,
         Removes(c)
  PROVE  ManagedWatched'
<1>1. managerid[c] # Invalid
  BY RemovedIsManaged DEF TableInv, ClientInv
<1>2. SwapRemove(c) /\ ~RemoveThrows(c)
  BY <1>1, NoThrow DEF Removes, InputRemoves, EntryRemoved, DestroyEntry, TableInv
<1>3. sock[c] # None /\ reg[sock[c]] = c
  BY <1>1 DEF ManagedWatched
<1>4. \A d \in Ids : managerid'[d] # Invalid => d # c /\ managerid[d] # Invalid
  BY <1>1, <1>2, SwapRemoveSlots DEF TableInv, ClientInv
<1>5. \A d \in Ids : d # c => sock[d] # sock[c]
  BY <1>3 DEF TableInv, Sockets, OneEach
<1>6. \A d \in Ids : d # c => sock'[d] = sock[d] /\ disconnect'[d] = disconnect[d]
  BY <1>2 DEF SwapRemove, TableInv, MInv, TypeOK
<1>7. \A d \in Ids : managerid'[d] # Invalid =>
        reg'[sock[d]] = d /\ peer'[sock[d]] = peer[sock[d]] /\ sock[d] \in Peers
  BY <1>2, <1>4, <1>5
     DEF ManagedWatched, SwapRemove, AfterClose, Unwatch, TableInv, MInv, TypeOK
<1>8. Registered'
  BY <1>4, <1>6, <1>7 DEF Registered, ManagedWatched
<1>9. Reported'
  <2> SUFFICES ASSUME NEW d \in Ids, managerid'[d] # Invalid, peer'[sock'[d]] = "hup",
                      sock'[d] \notin missed'
               PROVE  StillReported(sock[d])'
    BY DEF Reported
  <2>1. d # c /\ sock'[d] = sock[d] /\ sock[d] # sock[c]
    BY <1>4, <1>5, <1>6
  <2>a. sock[d] \notin missed
    BY <1>2, <2>1 DEF SwapRemove, AfterClose
  <2>2. StillReported(sock[d]) /\ reg[sock[d]] = d
    BY <1>4, <1>7, <2>1, <2>a DEF ManagedWatched
  <2>3. CASE sock[d] \in edge
    BY <1>2, <2>1, <2>3 DEF StillReported, SwapRemove, Unwatch
  <2>4. CASE sock[d] \notin edge
    <3>1. PICK k \in i + 1 .. Len(evs) : evs[k] = [sock |-> sock[d], id |-> d]
      BY <2>2, <2>4 DEF StillReported
    <3>2. phase = "input"
      BY <2>2, <2>4 DEF StillReported
    <3>3. PICK p \in Peers : InputRemoves(c, p)
      BY <3>2 DEF Removes, EntryRemoved, DestroyEntry, AtLiveEntry, AtEntry
    <3>4. /\ evs[i + 1].id = c /\ i \in Nat /\ Len(evs) \in Nat
          /\ i' = i + 1 /\ phase' = phase /\ evs' = evs
      BY <1>2, <3>3 DEF InputRemoves, AtSocket, AtLive, Event, TableInv, MInv, TypeOK
    <3>5. k \in i' + 1 .. Len(evs')
      BY <2>1, <3>1, <3>4
    <3>6. reg'[sock[d]] = d
      BY <1>7
    <3> QED BY <2>1, <3>1, <3>2, <3>4, <3>5, <3>6 DEF StillReported
  <2> QED BY <2>3, <2>4
<1> QED BY <1>8, <1>9, WatchedPartsPrimed

\* Going past an event loses no hang-up: the event is not of a managed
\* connection, or it is recorded as missed.
LEMMA NothingWatches ==
  ASSUME TableInv, ManagedWatched, InputNothing
  PROVE  ManagedWatched'
<1>1. Registered'
  BY DEF ManagedWatched, Registered, InputNothing, conns, epoll
<1>2. Reported'
  <2> SUFFICES ASSUME NEW c \in Ids, managerid[c] # Invalid, peer[sock[c]] = "hup",
                      sock[c] \notin missed
               PROVE  StillReported(sock[c])'
    BY DEF Reported, InputNothing, conns, remote
  <2>1. /\ StillReported(sock[c]) /\ reg[sock[c]] = c /\ ~disconnect[c]
    BY DEF ManagedWatched
  <2>2. /\ i \in Nat /\ Len(evs) \in Nat /\ phase = "input"
        /\ i' = i + 1 /\ UNCHANGED <<evs, phase, edge, reg, sock>>
    BY DEF InputNothing, AtEvent, TableInv, MInv, TypeOK, conns, epoll
  <2>3. evs[i + 1].id # c
    BY <2>1 DEF InputNothing, AtEvent, Event
  <2> QED BY <2>1, <2>2, <2>3 DEF StillReported
<1> QED BY <1>1, <1>2, WatchedPartsPrimed

LEMMA KeptWatches ==
  ASSUME TableInv, ManagedWatched, NEW x \in Ids, NEW p \in Peers, InputKeeps(x, p)
  PROVE  ManagedWatched'
<1>1. Registered'
  BY DEF ManagedWatched, Registered, InputKeeps, epoll
<1>2. Reported'
  <2>1. /\ UNCHANGED <<managerid, sock, peer, reg, edge, phase, evs>>
        /\ i' = i + 1 /\ i \in Nat /\ Len(evs) \in Nat
        /\ phase = "input" /\ evs[i + 1].id = x /\ sock[x] = p
    BY DEF InputKeeps, AtSocket, AtLive, AtEvent, Event, epoll, TableInv, MInv, TypeOK
  <2>2. missed' = IF peer[p] = "hup" THEN missed \cup {p} ELSE missed
    BY DEF InputKeeps
  <2> SUFFICES ASSUME NEW c \in Ids, managerid[c] # Invalid, peer[sock[c]] = "hup",
                      sock[c] \notin missed'
               PROVE  StillReported(sock[c])'
    BY <2>1 DEF Reported
  <2>3. StillReported(sock[c]) /\ reg[sock[c]] = c
    BY <2>2 DEF ManagedWatched
  <2>4. evs[i + 1].id # c
    BY <2>1, <2>2
  <2> QED BY <2>1, <2>3, <2>4 DEF StillReported
<1> QED BY <1>1, <1>2, WatchedPartsPrimed

LEMMA WatchedStep ==
  ASSUME ~ServerMode, N <= GuardLimit, TableInv, ManagedWatched, [Next]_vars
  PROVE  ManagedWatched'
<1>0. Registered /\ Reported /\ TypeOK
  BY WatchedParts DEF TableInv, MInv
<1>1. ASSUME NEW c \in Ids, Removes(c)
      PROVE  ManagedWatched'
  BY <1>1, RemovalWatches
<1>2. ASSUME NEW s \in Ids, ConnectFails(s) PROVE ManagedWatched'
  <2>1. managerid[s] = Invalid /\ sock[s] = None
    BY <1>2 DEF ConnectFails, TakesSlot, TableInv, ClientInv, Slots, SlotOwned, LiveManaged
  <2>2. /\ UNCHANGED <<sock, managerid, reg, peer, missed, control>>
        /\ disconnect' = [disconnect EXCEPT ![s] = TRUE] /\ edge' = edge
    BY <1>2, <2>1, PeersAssumption
       DEF ConnectFails, CleanSlot, CloseSockets, AfterClose, Unwatch, TableInv, MInv, TypeOK
  <2> QED BY <2>1, <2>2, <1>0 DEF ManagedWatched, StillReported, control, TypeOK
<1>3. ASSUME NEW s \in Ids, NEW p \in Peers, ConnectSuccess(s, p) PROVE ManagedWatched'
  <2>1. sock[s] = None /\ peer[p] = "idle" /\ p # None
    BY <1>3, PeersAssumption
       DEF ConnectSuccess, TakesSlot, TableInv, ClientInv, Slots, SlotOwned, LiveManaged
  <2>2. \A c \in Ids : sock[c] # p
    BY <2>1 DEF TableInv, Sockets, InUse
  <2>3. /\ sock' = [sock EXCEPT ![s] = p] /\ peer' = [peer EXCEPT ![p] = "open"]
        /\ reg' = [reg EXCEPT ![p] = s] /\ edge' = edge /\ missed' = missed
        /\ managerid' = [managerid EXCEPT ![s] = count]
        /\ disconnect' = [disconnect EXCEPT ![s] = FALSE]
        /\ phase = "select"
    BY <1>3, <2>1, <1>0, PeersAssumption
       DEF ConnectSuccess, OpenSlot, RegAfter, AtConnect, TypeOK
  <2>4. Registered'
    BY <1>0, <2>1, <2>2, <2>3, PeersAssumption DEF Registered, TypeOK
  <2>5. Reported'
    BY <1>0, <2>1, <2>2, <2>3 DEF Reported, StillReported, TypeOK
  <2> QED BY <2>4, <2>5, WatchedPartsPrimed
<1>4. ASSUME NEW p \in Peers,
             PeerArrives(p) \/ PeerSends(p) \/ PeerHangsUp(p) \/ PeerResets(p)
      PROVE  ManagedWatched'
  <2>1. UNCHANGED <<conns, reg, control>> /\ edge \subseteq edge'
    BY <1>4 DEF PeerArrives, PeerSends, PeerHangsUp, PeerResets, epoll
  <2>2. \A q \in Peers : peer'[q] = "hup" =>
          q \in edge' \/ (peer[q] = "hup" /\ (q \in missed => q \in missed'))
    BY <1>4, <1>0 DEF PeerArrives, PeerSends, PeerHangsUp, PeerResets, TypeOK
  <2>3. \A c \in Ids : managerid[c] # Invalid => sock[c] \in Peers
    BY <1>0 DEF Registered, TypeOK
  <2> QED BY <2>1, <2>2, <2>3 DEF ManagedWatched, StillReported, conns, control
<1>5. CASE Select
  <2>1. Registered'
    BY <1>5, <1>0 DEF Registered, Select, conns
  <2> QED BY <1>5, <2>1, SelectReports, WatchedPartsPrimed
<1>6. CASE InputNothing \/ Keeps
  BY <1>6, NothingWatches, KeptWatches DEF Keeps
<1>7. CASE \/ InputDone \/ EntryKept \/ OutputDone \/ CommandDone
           \/ DestroySkip \/ DestroyDone \/ DestroyStart
  <2>1. /\ UNCHANGED <<disconnect, sock, managerid, epoll, remote>>
        /\ phase # "input" \/ i >= Len(evs)
    BY <1>7 DEF InputDone, EntryKept, OutputDone, CommandDone, DestroySkip, DestroyDone,
       DestroyStart, AtEntry, conns
  <2>2. Registered'
    BY <1>0, <2>1 DEF Registered, epoll
  <2>3. Reported'
    BY <1>0, <2>1, ReportWaits DEF epoll, remote
  <2> QED BY <2>2, <2>3, WatchedPartsPrimed
<1>8. CASE UNCHANGED vars
  BY <1>8 DEF ManagedWatched, StillReported, vars
<1>9. phase # "accept" /\ ~InputListen
  BY DEF InputListen, TableInv, ClientInv, NoAccept, AtEvent, Event, MInv, TypeOK
<1> QED
  BY <1>1, <1>2, <1>3, <1>4, <1>5, <1>6, <1>7, <1>8, <1>9 DEF Next, Tick, Connect,
     Environment, AcceptBound, AcceptNobody, AcceptRefused, AcceptSuccess,
     AcceptHalf, AtAccept, Removes, Keeps

\* As long as the capacity does not exceed what remove() takes for the size of
\* the idset, every managed connection is live and watched by epoll under its
\* own id, and a hang-up of its peer is still pending or ahead in the batch,
\* unless the event that reported it found data or a full ring: though each
\* edge is reported once, nothing else uses one up without an effect.
THEOREM ClientWatched ==
  ASSUME ~ServerMode, N <= GuardLimit
  PROVE  Spec => []ManagedWatched
<1>1. Init => ManagedWatched
  BY DEF Init, ManagedWatched
<1>2. TableInv /\ ManagedWatched /\ [Next]_vars => ManagedWatched'
  BY WatchedStep
<1> QED BY <1>1, <1>2, TableInductive, PTL DEF Spec

\* Every remote end that is connected has a connection.
PeerOwned == \A p \in Peers : peer[p] \in {"open", "hup", "reset"} => \E c \in Ids : sock[c] = p

LEMMA PeerOwnedStep ==
  ASSUME ~ServerMode, TableInv, PeerOwned, [Next]_vars
  PROVE  PeerOwned'
<1>1. CASE UNCHANGED <<sock, peer>>
  BY <1>1 DEF PeerOwned
<1>2. ASSUME NEW c \in Ids, SocketCloses(c) PROVE PeerOwned'
  <2> SUFFICES ASSUME NEW q \in Peers, peer'[q] \in {"open", "hup", "reset"}
               PROVE  \E d \in Ids : sock'[d] = q
    BY DEF PeerOwned
  <2>1. q # sock[c] /\ peer'[q] = peer[q]
    BY <1>2 DEF SocketCloses, TableInv, MInv, TypeOK
  <2>2. PICK d \in Ids : sock[d] = q
    BY <2>1 DEF PeerOwned
  <2> QED BY <1>2, <2>1, <2>2 DEF SocketCloses, TableInv, MInv, TypeOK
<1>3. ASSUME NEW s \in Ids, NEW p \in Peers, SocketOpens(s, p) PROVE PeerOwned'
  <2> SUFFICES ASSUME NEW q \in Peers, peer'[q] \in {"open", "hup", "reset"}
               PROVE  \E d \in Ids : sock'[d] = q
    BY DEF PeerOwned
  <2>1. CASE q = p
    BY <1>3, <2>1 DEF SocketOpens, TableInv, MInv, TypeOK
  <2>2. CASE q # p
    <3>1. PICK d \in Ids : sock[d] = q
      BY <1>3, <2>2 DEF SocketOpens, PeerOwned, TableInv, MInv, TypeOK
    <3>2. d # s
      BY <1>3, <3>1, PeersAssumption DEF SocketOpens
    <3> QED BY <1>3, <3>1, <3>2 DEF SocketOpens, TableInv, MInv, TypeOK
  <2> QED BY <2>1, <2>2
<1>4. ASSUME NEW p \in Peers, PeerHangsUp(p) \/ PeerResets(p) \/ SocketLingers(p)
      PROVE  PeerOwned'
  BY <1>4 DEF PeerHangsUp, PeerResets, SocketLingers, conns, PeerOwned, TableInv, MInv, TypeOK
<1> QED BY <1>1, <1>2, <1>3, <1>4, TableStep

\* What makes HangupClosed possible at all: as long as a peer that has hung up
\* is not closed, a managed connection owns its socket, epoll knows it under
\* that id, and the report is pending or ahead in the batch, or was missed as
\* it came with data or met a full ring.
HangupReaches ==
  \A p \in Peers : peer[p] = "hup" =>
    \E c \in Ids :
      /\ managerid[c] # Invalid /\ sock[c] = p /\ reg[p] = c
      /\ p \in missed \/ StillReported(p)

\* Nothing but data or a full ring makes the manager forget a hang-up, in any
\* state, for any capacity within the guard.
THEOREM ClientHangupReaches ==
  ASSUME ~ServerMode, N <= GuardLimit
  PROVE  Spec => []HangupReaches
<1>1. Init => PeerOwned
  BY DEF Init, PeerOwned
<1>2. TableInv /\ PeerOwned /\ [Next]_vars => PeerOwned'
  BY PeerOwnedStep
<1>3. ASSUME TableInv, PeerOwned, ManagedWatched PROVE HangupReaches
  <2> SUFFICES ASSUME NEW p \in Peers, peer[p] = "hup"
               PROVE  \E c \in Ids : /\ managerid[c] # Invalid /\ sock[c] = p
                                     /\ reg[p] = c
                                     /\ p \in missed \/ StillReported(p)
    BY DEF HangupReaches
  <2>1. PICK c \in Ids : sock[c] = p
    BY <1>3 DEF PeerOwned
  <2>2. managerid[c] # Invalid
    BY <1>3, <2>1, PeersAssumption DEF TableInv, ClientInv, Slots, LiveManaged
  <2> QED BY <1>3, <2>1, <2>2 DEF ManagedWatched
<1>4. TableInv /\ PeerOwned /\ ManagedWatched => HangupReaches
  BY <1>3
<1> QED BY <1>1, <1>2, <1>4, TableInductive, ClientWatched, PTL DEF Spec
=============================================================================
