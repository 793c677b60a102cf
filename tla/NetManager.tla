----------------------------- MODULE NetManager -----------------------------
(***************************************************************************)
(* The connection pool, the connection manager and its epoll loop          *)
(* (net/connection/pool.cc, net/connection/base.cc,                        *)
(* net/connection/manager/{base,epoll}.cc, net/manager.cc).                *)
(*                                                                         *)
(* The kernel gives the pool and the manager the same capacity N.  One     *)
(* thread runs tick() for ever; a tick is select, processinput,            *)
(* processoutput, processcommand.  Every loop of a tick is stepped one     *)
(* iteration at a time, so peers may send, hang up, reset and connect      *)
(* between any two iterations.  Remote peers stand for the sockets to them:*)
(* a peer has one connection at a time.  Bytes are abstracted to whether a *)
(* socket holds unread data and whether a ring is full (InputStream models *)
(* them); a command may or may not be acceptable.  Assert throws           *)
(* (sys/assert.cc); the exception ends the phase and is swallowed by       *)
(* tick().                                                                 *)
(***************************************************************************)
EXTENDS Integers, FiniteSets, Sequences, Functions

CONSTANTS
  N,              \* connectionmax: slots of the pool, capacity of the manager
  GuardLimit,     \* sizeof(connection_idset_), the guard of Base::remove
  OnestepAccept,  \* onestep_accept_
  ServerMode,     \* is_servermode_: there is a listening socket
  Peers,          \* remote ends
  Listen,         \* the listening socket among the events of epoll
  None            \* SOCKET_INVALID

ASSUME NAssumption == N \in Nat \ {0}
ASSUME LimitAssumption == GuardLimit \in Nat /\ OnestepAccept \in Nat \ {0}
ASSUME ModeAssumption == ServerMode \in BOOLEAN
ASSUME PeersAssumption ==
  /\ IsFiniteSet(Peers) /\ None \notin Peers /\ Listen \notin Peers
  /\ Listen # None

VARIABLES
  empty, disconnect, sock, managerid,  \* per connection: isempty_, isdisconnect_, socket, managerid_
  position, free,                      \* pool: position_, count_
  idset, count,                        \* manager: connection_idset_, count_
  corrupt,                             \* connection_idset_[-1] was written
  full,                                \* connections whose input ring is full
  reg, edge,                           \* epoll: registered connection, pending edges
  peer, unread,                        \* remote ends: state, sent data not yet received
  missed,                              \* history: hang-ups whose event went by unnoticed
  phase, i, n, evs                     \* control of tick(): loop index, bound, events

conns == <<empty, disconnect, sock, managerid, full>>
pool == <<position, free>>
mgr == <<idset, count, corrupt>>
epoll == <<reg, edge>>
remote == <<peer, unread, missed>>
control == <<phase, i, n, evs>>
vars == <<empty, disconnect, sock, managerid, position, free, idset, count,
          corrupt, full, reg, edge, peer, unread, missed, phase, i, n, evs>>

Ids == 0 .. N - 1
Invalid == -1                          \* ID_INVALID
Phases == {"select", "input", "accept", "output", "command", "destroy"}
\* "reset": the socket has a pending error (SO_ERROR); "lost": it was left open
\* by close() and nobody knows its descriptor any more.
PeerStates == {"idle", "backlog", "open", "hup", "reset", "lost"}

TypeOK ==
  /\ empty \in [Ids -> BOOLEAN] /\ disconnect \in [Ids -> BOOLEAN]
  /\ sock \in [Ids -> Peers \cup {None}]
  /\ managerid \in [Ids -> Ids \cup {Invalid}]
  /\ position \in Ids /\ free \in Int
  /\ idset \in [Ids -> Ids \cup {Invalid}] /\ count \in 0 .. N
  /\ corrupt \in BOOLEAN /\ full \subseteq Ids
  /\ reg \in [Peers -> Ids \cup {Invalid}] /\ edge \subseteq Peers
  /\ peer \in [Peers -> PeerStates] /\ unread \subseteq Peers /\ missed \subseteq Peers
  /\ phase \in Phases /\ i \in Nat /\ n \in 0 .. N
  /\ evs \in Seq([sock : Peers \cup {Listen}, id : Ids \cup {Invalid}])

\* A slot that was never used is empty but not "disconnected": the
\* constructor of Base clears isdisconnect_, only cleanup() sets it.
Init ==
  /\ empty = [c \in Ids |-> TRUE] /\ disconnect = [c \in Ids |-> FALSE]
  /\ sock = [c \in Ids |-> None] /\ managerid = [c \in Ids |-> Invalid]
  /\ position = 0 /\ free = N
  /\ idset = [k \in Ids |-> Invalid] /\ count = 0 /\ corrupt = FALSE /\ full = {}
  /\ reg = [p \in Peers |-> Invalid] /\ edge = {}
  /\ peer = [p \in Peers |-> "idle"] /\ unread = {} /\ missed = {}
  /\ phase = "select" /\ i = 0 /\ n = 0 /\ evs = <<>>

-----------------------------------------------------------------------------
(* Pool *)

\* Pool::create takes slot s: the first empty one met from position_ on.
TakesSlot(s) ==
  \E k \in Ids : /\ s = (position + k) % N
                 /\ empty[s]
                 /\ \A j \in 0 .. k - 1 : ~empty[(position + j) % N]

\* Mutant: position_ does not wrap.
NextUnwrapped(s) == s + 1

NextPosition(s) == (s + 1) % N

\* iserror() reads SO_ERROR, which clears it.  The loops over the events and
\* the idset do that before they remove a connection; accept() and destroy()
\* close sockets whose error nobody has read.
PendingError(p) ==
  peer[p] = "reset" /\ phase \notin {"input", "output", "command"}

\* Mutant: a closed socket stays in the tables of the poll.
KeepPolling(S) == UNCHANGED <<reg, edge>>

\* The sockets in S leave epoll.
Unwatch(S) ==
  /\ reg' = [p \in Peers |-> IF p \in S THEN Invalid ELSE reg[p]]
  /\ edge' = edge \ S

\* socket::Base::close does not close a socket with a pending error, it only
\* forgets the descriptor.  A remote end whose socket is closed may connect
\* again.
AfterClose(S) ==
  /\ peer' = [p \in Peers |-> IF p \notin S THEN peer[p]
                              ELSE IF PendingError(p) THEN "lost" ELSE "idle"]
  /\ unread' = unread \ S /\ missed' = missed \ S

\* close() without poll_delete: only closing takes a socket out of epoll.
CloseSockets(S) == AfterClose(S) /\ Unwatch({p \in S \cap Peers : ~PendingError(p)})

\* Base::cleanup leaves slot s closed, disconnected, unmanaged and empty.
CleanSlot(s) ==
  /\ sock' = [sock EXCEPT ![s] = None]
  /\ managerid' = [managerid EXCEPT ![s] = Invalid]
  /\ disconnect' = [disconnect EXCEPT ![s] = TRUE]
  /\ empty' = [empty EXCEPT ![s] = TRUE]
  /\ full' = full \ {s}
  /\ CloseSockets({sock[s]})

\* Manager::add refuses a connection when it is full.  The slot at count_ is
\* always ID_INVALID (IdsetPrefix), so the Assert behind it is never reached.
\* addsocket() may refuse too (fdsize_ beyond the size of the poll, or a
\* failing epoll_ctl), in any state: see AcceptRefused and ConnectFails.
CanAdd == count < N

-----------------------------------------------------------------------------
(* Manager::remove(connection) *)

\* Mutant: a guard that is off by one.
RemoveThrowsEarly(c) == count = 0 \/ managerid[c] >= N - 1

\* The Asserts of Base::remove(int16_t); the guard compares the index with
\* the size of a pointer, not with the number of elements.
RemoveThrows(c) ==
  \/ count = 0
  \/ managerid[c] >= GuardLimit
  \/ count > 0 /\ idset[count - 1] = Invalid

\* Mutants of the swap-removal below: what each forgets is its name.
SwapRemoveBut(c, keepslast, relinks, frees, victims) ==
  LET m == managerid[c]  last == idset[count - 1] IN
  /\ idset' = [k \in Ids |-> IF k = m THEN last
                             ELSE IF k = count - 1 /\ ~keepslast THEN Invalid
                             ELSE idset[k]]
  /\ count' = count - 1
  /\ managerid' = [x \in Ids |-> IF x \in victims THEN Invalid
                                 ELSE IF x = last /\ relinks THEN m
                                 ELSE managerid[x]]
  /\ sock' = [x \in Ids |-> IF x \in victims THEN None ELSE sock[x]]
  /\ disconnect' = [x \in Ids |-> x \in victims \/ disconnect[x]]
  /\ empty' = [x \in Ids |-> IF x \in victims THEN frees ELSE empty[x]]
  /\ free' = free + 1
  /\ full' = full \ victims
  /\ AfterClose({sock[x] : x \in victims}) /\ Unwatch({sock[x] : x \in victims})
  /\ UNCHANGED <<position, corrupt>>

RemoveKeepsLast(c) == SwapRemoveBut(c, TRUE, TRUE, TRUE, {c})
RemoveKeepsIndex(c) == SwapRemoveBut(c, FALSE, FALSE, TRUE, {c})
RemoveKeepsSlot(c) == SwapRemoveBut(c, FALSE, TRUE, FALSE, {c})
RemoveCleansLast(c) ==
  SwapRemoveBut(c, FALSE, TRUE, TRUE, {c, idset[count - 1]})

\* The socket leaves epoll, the last entry fills the hole, then the slot goes
\* back to the pool and the socket is closed.  A connection that is not managed (managerid_ = -1) writes below the array.
SwapRemove(c) ==
  LET m == managerid[c]  last == idset[count - 1] IN
  /\ idset' = [k \in Ids |-> IF k = count - 1 THEN Invalid
                             ELSE IF k = m THEN last ELSE idset[k]]
  /\ corrupt' = (corrupt \/ m = Invalid)
  /\ count' = count - 1
  /\ managerid' = [x \in Ids |-> IF x = c THEN Invalid
                                 ELSE IF x = last THEN m ELSE managerid[x]]
  /\ sock' = [sock EXCEPT ![c] = None]
  /\ disconnect' = [disconnect EXCEPT ![c] = TRUE]
  /\ empty' = [empty EXCEPT ![c] = TRUE]
  /\ free' = free + 1
  /\ full' = full \ {c}
  /\ AfterClose({sock[c]}) /\ Unwatch({sock[c]})
  /\ UNCHANGED position

\* The socket leaves epoll first, then the Assert throws; the connection
\* keeps its socket, its place in the idset and its slot.  With its error
\* read, a reset socket goes on like one whose peer has hung up.
FailedRemove(c) ==
  /\ Unwatch({sock[c]})
  /\ peer' = [p \in Peers |-> IF p = sock[c] /\ peer[p] = "reset" /\ ~PendingError(p)
                              THEN "hup" ELSE peer[p]]
  /\ UNCHANGED <<conns, pool, mgr, unread, missed>>

-----------------------------------------------------------------------------
(* tick(): select, then processinput *)

PendingEvents ==
  {[sock |-> p, id |-> reg[p]] : p \in {q \in edge : reg[q] # Invalid}}
    \cup (IF ServerMode /\ \E p \in Peers : peer[p] = "backlog"
          THEN {[sock |-> Listen, id |-> Invalid]} ELSE {})

\* Epoll::select: the kernel reports what is pending, in any order; a
\* connection is edge triggered, the listening socket level triggered.
Select ==
  /\ phase = "select"
  /\ \E f \in Bijection(1 .. Cardinality(PendingEvents), PendingEvents) :
       evs' = f
  /\ edge' = {p \in edge : reg[p] = Invalid}
  /\ phase' = "input" /\ i' = 0
  /\ UNCHANGED <<conns, pool, mgr, reg, remote, n>>

\* Mutant: the last connection is left out of the loop.
StartLoopShort(ph) ==
  phase' = ph /\ i' = 0 /\ n' = IF count > 0 THEN count - 1 ELSE 0

\* The phase after this one starts its loop with the count of the moment.
StartLoop(ph) == phase' = ph /\ i' = 0 /\ n' = count
EndTick == phase' = "select" /\ i' = 0 /\ n' = 0

InputDone ==
  /\ phase = "input" /\ i >= Len(evs)
  /\ StartLoop("output") /\ evs' = <<>>
  /\ UNCHANGED <<conns, pool, mgr, epoll, remote>>

\* The event at hand, and a live connection it names.
AtEvent == phase = "input" /\ i < Len(evs)
Event == evs[i + 1]
AtLive(c) ==
  AtEvent /\ Event.sock # Listen /\ Event.id = c /\ ~disconnect[c]

\* The listening socket: the accept loop that follows uses the variable i of
\* the event loop as its own counter.
InputListen ==
  /\ AtEvent /\ Event.sock = Listen
  /\ phase' = "accept" /\ i' = 0
  /\ UNCHANGED <<conns, pool, mgr, epoll, remote, n, evs>>

\* Mutant: an event may be passed over although its connection is live.
InputSkips ==
  /\ AtEvent /\ Event.sock # Listen
  /\ i' = i + 1
  /\ UNCHANGED <<conns, pool, mgr, epoll, remote, phase, n, evs>>

\* Nothing to do: no such connection, or it is disconnected.  (A connection
\* that is live always has a socket, so the assertion of tick() on
\* processinput's result does not fire here.)
InputNothing ==
  /\ AtEvent /\ Event.sock # Listen
  /\ Event.id \in Ids => disconnect[Event.id]
  /\ i' = i + 1
  /\ UNCHANGED <<conns, pool, mgr, epoll, remote, phase, n, evs>>

\* The live connection c of the event has socket p.
AtSocket(c, p) == AtLive(c) /\ sock[c] = p

\* InputStream::fill receives until the ring is full or nothing is left, and
\* fails when its receive returns 0: the peer has hung up, nothing is unread
\* and the ring has room.  Data that arrived with the hang-up hides it.
FillKeeps(c, p) ==
  /\ peer[p] # "reset"
  /\ peer[p] = "hup" => p \in unread \/ c \in full

\* The socket is drained, or the ring cannot grow and the rest stays unread.
\* The edge is spent in either case: a hang-up behind it is missed.
InputKeeps(c, p) ==
  /\ AtSocket(c, p) /\ FillKeeps(c, p)
  /\ \/ p \notin unread /\ UNCHANGED <<unread, full>>
     \/ p \in unread /\ unread' = unread \ {p} /\ full' \in {full, full \cup {c}}
     \/ p \in unread /\ unread' = unread /\ full' = full \cup {c}
  /\ missed' = IF peer[p] = "hup" THEN missed \cup {p} ELSE missed
  /\ i' = i + 1
  /\ UNCHANGED <<empty, disconnect, sock, managerid, pool, mgr, epoll, peer,
                 phase, n, evs>>

\* The socket has an error, fill() receives 0 (behind data too, if that ended
\* at the end of the array), or what is unread would make the ring larger than
\* it may be.
InputRemoves(c, p) ==
  /\ AtSocket(c, p)
  /\ peer[p] = "reset" \/ p \in unread \/ (peer[p] = "hup" /\ c \notin full)
  /\ \/ /\ ~RemoveThrows(c) /\ SwapRemove(c)
        /\ i' = i + 1 /\ UNCHANGED <<phase, n, evs>>
     \/ /\ RemoveThrows(c) /\ FailedRemove(c)
        /\ StartLoop("command") /\ evs' = <<>>

-----------------------------------------------------------------------------
(* accept() *)

AtAccept == phase = "accept" /\ i < OnestepAccept

\* The inner loop ends (by break or by its bound); the ++i of the event loop
\* follows, on whatever the inner loop left in i.
LeaveAccept == phase' = "input" /\ i' = i + 1

AcceptBound ==
  /\ phase = "accept" /\ i >= OnestepAccept
  /\ LeaveAccept
  /\ UNCHANGED <<conns, pool, mgr, epoll, remote, n, evs>>

\* Nobody to accept, or add() refuses: the slot that Pool::create chose has
\* been cleaned up and goes back to the pool.  (A pool that only accepts is
\* never full: see OpenSlot.)
AcceptNobody(s) ==
  /\ AtAccept /\ TakesSlot(s)
  /\ \A p \in Peers : peer[p] # "backlog"
  /\ position' = NextPosition(s)
  /\ CleanSlot(s)
  /\ LeaveAccept
  /\ UNCHANGED <<free, mgr, n, evs>>

AcceptRefused(s, p) ==
  /\ AtAccept /\ TakesSlot(s) /\ peer[p] = "backlog"
  /\ position' = NextPosition(s)
  /\ sock' = [sock EXCEPT ![s] = None]
  /\ managerid' = [managerid EXCEPT ![s] = Invalid]
  /\ disconnect' = [disconnect EXCEPT ![s] = TRUE]
  /\ empty' = [empty EXCEPT ![s] = TRUE]
  /\ full' = full \ {s}
  /\ CloseSockets({sock[s], p})
  /\ LeaveAccept
  /\ UNCHANGED <<free, mgr, n, evs>>

\* Slot s now belongs to peer p; what it held before is closed as in
\* CloseSockets.  The cleanup() after init() has set isempty_ again, and
\* nothing resets it.
OpenSlot(s, p, m) ==
  LET old == sock[s] IN
  /\ position' = NextPosition(s) /\ free' = free - 1
  /\ sock' = [sock EXCEPT ![s] = p]
  /\ managerid' = [managerid EXCEPT ![s] = m]
  /\ disconnect' = [disconnect EXCEPT ![s] = FALSE]
  /\ full' = full \ {s}
  /\ peer' = [q \in Peers |-> IF q = p THEN "open"
                              ELSE IF q # old THEN peer[q]
                              ELSE IF PendingError(q) THEN "lost" ELSE "idle"]
  /\ unread' = unread \ {old} /\ missed' = missed \ {old}
  /\ edge' = {q \in edge : q # old \/ PendingError(q)}

\* epoll after that, with p registered or not.
RegAfter(s, R) ==
  [q \in Peers |-> IF q \in R THEN s
                   ELSE IF q = sock[s] /\ ~PendingError(q) THEN Invalid ELSE reg[q]]

AcceptSuccess(s, p) ==
  /\ AtAccept /\ TakesSlot(s) /\ peer[p] = "backlog" /\ CanAdd
  /\ OpenSlot(s, p, count)
  /\ empty' = empty
  /\ reg' = RegAfter(s, {p})
  /\ idset' = [idset EXCEPT ![count] = s] /\ count' = count + 1
  /\ i' = i + 1
  /\ UNCHANGED <<corrupt, phase, n, evs>>

\* A socket option fails: the Assert throws, the outer catch falls through to
\* "connect is success" and the connection is live without being managed.
AcceptHalf(s, p) ==
  /\ AtAccept /\ TakesSlot(s) /\ peer[p] = "backlog"
  /\ OpenSlot(s, p, Invalid)
  /\ empty' = empty
  /\ reg' = RegAfter(s, {})
  /\ i' = i + 1
  /\ UNCHANGED <<mgr, phase, n, evs>>

-----------------------------------------------------------------------------
(* processoutput and processcommand: for each entry of the idset *)

AtEntry(ph) == phase = ph /\ i < n
AtLiveEntry(c) ==
  /\ AtEntry("output") \/ AtEntry("command")
  /\ idset[i] = c /\ sock[c] # None /\ ~disconnect[c]

\* A connection without error stays, or is removed: in output flush() fails
\* (the peer is gone, or the ring has grown too large), in command the peer
\* broke the protocol or a handler asks for it.  Commands take bytes out of
\* the ring.
EntryKept ==
  /\ AtEntry("output") \/ AtEntry("command")
  /\ \A c \in Ids : AtLiveEntry(c) => peer[sock[c]] # "reset"
  /\ i' = i + 1
  /\ \/ full' = full
     \/ phase = "command" /\ idset[i] \in full /\ full' = full \ {idset[i]}
  /\ UNCHANGED <<empty, disconnect, sock, managerid, pool, mgr, epoll, remote,
                 phase, n, evs>>

EntryRemoved(c) ==
  /\ AtLiveEntry(c)
  /\ \/ /\ ~RemoveThrows(c) /\ SwapRemove(c)
        /\ i' = i + 1 /\ UNCHANGED <<phase, n, evs>>
     \/ /\ RemoveThrows(c) /\ FailedRemove(c)
        /\ IF phase = "output" THEN StartLoop("command") ELSE EndTick
        /\ UNCHANGED evs

OutputDone ==
  /\ phase = "output" /\ i >= n
  /\ StartLoop("command")
  /\ UNCHANGED <<conns, pool, mgr, epoll, remote, evs>>

CommandDone ==
  /\ phase = "command" /\ i >= n
  /\ EndTick
  /\ UNCHANGED <<conns, pool, mgr, epoll, remote, evs>>

-----------------------------------------------------------------------------
(* connect() and destroy(), called between two ticks *)

\* base.h: the connect methods are for managers that are not servers.
AtConnect == phase = "select" /\ ~ServerMode

\* The connection or one of the socket options fails: Pool::remove.
ConnectFails(s) ==
  /\ AtConnect /\ TakesSlot(s)
  /\ position' = NextPosition(s)
  /\ CleanSlot(s)
  /\ UNCHANGED <<free, mgr, control>>

ConnectSuccess(s, p) ==
  /\ AtConnect /\ TakesSlot(s) /\ peer[p] = "idle" /\ CanAdd
  /\ OpenSlot(s, p, count)
  /\ empty' = [empty EXCEPT ![s] = FALSE]
  /\ reg' = RegAfter(s, {p})
  /\ idset' = [idset EXCEPT ![count] = s] /\ count' = count + 1
  /\ UNCHANGED <<corrupt, control>>

\* destroy() removes what it meets while its index and the idset move towards
\* each other; an exception of remove() leaves it.
DestroyStart ==
  /\ phase = "select"
  /\ StartLoop("destroy")
  /\ UNCHANGED <<conns, pool, mgr, epoll, remote, evs>>

DestroySkip ==
  /\ AtEntry("destroy") /\ idset[i] = Invalid
  /\ i' = i + 1
  /\ UNCHANGED <<conns, pool, mgr, epoll, remote, phase, n, evs>>

DestroyEntry(c) ==
  /\ AtEntry("destroy") /\ idset[i] = c
  /\ \/ /\ ~RemoveThrows(c) /\ SwapRemove(c)
        /\ i' = i + 1 /\ UNCHANGED <<phase, n, evs>>
     \/ /\ RemoveThrows(c) /\ FailedRemove(c)
        /\ EndTick /\ UNCHANGED evs

DestroyDone ==
  /\ phase = "destroy" /\ i >= n
  /\ EndTick
  /\ UNCHANGED <<conns, pool, mgr, epoll, remote, evs>>

-----------------------------------------------------------------------------
(* Remote peers *)

PeerArrives(p) ==
  /\ ServerMode /\ peer[p] = "idle"
  /\ peer' = [peer EXCEPT ![p] = "backlog"]
  /\ UNCHANGED <<conns, pool, mgr, epoll, unread, missed, control>>

PeerSends(p) ==
  /\ peer[p] = "open" /\ ~(p \in unread /\ p \in edge)
  /\ unread' = unread \cup {p} /\ edge' = edge \cup {p}
  /\ UNCHANGED <<conns, pool, mgr, reg, peer, missed, control>>

PeerHangsUp(p) ==
  /\ peer[p] = "open"
  /\ peer' = [peer EXCEPT ![p] = "hup"]
  /\ edge' = edge \cup {p}
  /\ UNCHANGED <<conns, pool, mgr, reg, unread, missed, control>>

\* The connection is reset, by its peer or because output meets one that has
\* closed.
PeerResets(p) ==
  /\ peer[p] \in {"open", "hup"}
  /\ peer' = [peer EXCEPT ![p] = "reset"]
  /\ edge' = edge \cup {p}
  /\ missed' = missed \ {p}
  /\ UNCHANGED <<conns, pool, mgr, reg, unread, control>>

-----------------------------------------------------------------------------

Tick ==
  \/ Select \/ InputDone \/ InputListen \/ InputNothing
  \/ \E c \in Ids, p \in Peers : InputKeeps(c, p) \/ InputRemoves(c, p)
  \/ \E c \in Ids : EntryRemoved(c)
  \/ AcceptBound
  \/ \E s \in Ids : AcceptNobody(s)
  \/ \E s \in Ids, p \in Peers :
       AcceptRefused(s, p) \/ AcceptSuccess(s, p) \/ AcceptHalf(s, p)
  \/ EntryKept \/ OutputDone \/ CommandDone
  \/ DestroySkip \/ DestroyDone \/ \E c \in Ids : DestroyEntry(c)

Connect ==
  \/ \E s \in Ids : ConnectFails(s)
  \/ \E s \in Ids, p \in Peers : ConnectSuccess(s, p)

Environment ==
  \E p \in Peers : PeerArrives(p) \/ PeerSends(p) \/ PeerHangsUp(p) \/ PeerResets(p)

Next == Tick \/ Connect \/ DestroyStart \/ Environment

Spec == Init /\ [][Next]_vars

\* The thread that runs tick() keeps running it (Net::run, Kernel::run).
FairSpec == Spec /\ WF_vars(Tick)

-----------------------------------------------------------------------------
(* Properties *)

\* The idset is dense: entries below count_ name connections, entries from
\* count_ on are ID_INVALID, so add() always finds its slot free.
IdsetPrefix ==
  \A k \in Ids : idset[k] = Invalid <=> k >= count

\* Epoll watches only sockets that are in use, under the id of the connection
\* that owns them, and those that close() left open: no recycled slot and no
\* closed socket is reported, but a socket that was reset before its slot was
\* handed out again may be, once, under the id of the slot's new connection.
RegOwner ==
  \A p \in Peers : reg[p] # Invalid /\ peer[p] # "lost" =>
    sock[reg[p]] = p /\ ~disconnect[reg[p]]

\* managerid_ is a position of the connection in the idset (base.h): however
\* removals move the entries, no connection keeps a stale index.
BackPointer ==
  \A c \in Ids : managerid[c] # Invalid =>
    managerid[c] < count /\ idset[managerid[c]] = c

\* The idset holds every managed connection once: each entry is the one its
\* connection points back to.
IdsetOwned ==
  \A k \in Ids : idset[k] # Invalid => managerid[idset[k]] = k

\* Removing never writes below the start of the idset.
IdsetInBounds == ~corrupt

\* Exactly the managed connections are taken from the pool: no slot leaks and
\* no connection in use is free for Pool::create to hand out again.
SlotOwned == \A c \in Ids : empty[c] <=> managerid[c] = Invalid

\* A managed connection is live, epoll reports its socket under its id, and a
\* hang-up of its peer, which is reported once, is still to be reported or to
\* be met in the batch at hand, unless it was missed: the event that reported
\* it found data to receive or a full ring.  Nothing else uses an edge up.
StillReported(p) ==
  \/ p \in edge
  \/ phase = "input" /\ \E k \in i + 1 .. Len(evs) : evs[k] = [sock |-> p, id |-> reg[p]]

ManagedWatched ==
  \A c \in Ids : managerid[c] # Invalid =>
    /\ sock[c] # None /\ ~disconnect[c] /\ reg[sock[c]] = c
    /\ peer[sock[c]] = "hup" => sock[c] \in missed \/ StillReported(sock[c])

\* An event is handled only for the connection whose socket raised it, never
\* for a later owner of the slot.
EventOwner == \A c \in Ids : AtLive(c) => sock[c] = Event.sock

\* What a removal and a connect do to pool, idset and sockets comes to closing
\* and opening one connection: the others keep their remote ends, and no
\* socket stays open without a managed connection but one with a pending error.
Connection == [c \in Ids |-> IF managerid[c] # Invalid THEN sock[c] ELSE None]
Table == INSTANCE ConnectionTable WITH conn <- Connection
ImplementsTable == Table!Spec

\* A peer that hangs up is noticed and its connection is closed, unless the
\* hang-up came with data or met a full ring; a reset is noticed whatever came
\* before it, by the loops if not by an event.
Gone(p) == peer[p] = "reset" \/ (peer[p] = "hup" /\ p \notin missed)
HangupClosed == \A p \in Peers : Gone(p) ~> ~Gone(p)

\* Although a removal moves the last connection in front of the loop index,
\* no live connection is skipped by processcommand for ever.
CommandServed ==
  \A c \in Ids :
    managerid[c] # Invalid ~>
      (managerid[c] = Invalid \/ (AtEntry("command") /\ idset[i] = c))

-----------------------------------------------------------------------------
(* What the comments of the code say, and the code does not do *)

\* pool.cc, base.h: the slot that create() is about to hand out is not in use.
NextSlotUnused ==
  \A s \in Ids : TakesSlot(s) => ~(sock[s] # None /\ ~disconnect[s])

\* epoll.cc: one failing accept ends the work on a listening event, so
\* processinput returns.
InputReturns == phase = "input" ~> phase = "output"
=============================================================================
