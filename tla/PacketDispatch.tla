--------------------------- MODULE PacketDispatch ---------------------------
(***************************************************************************)
(* How packets reach their handlers.  The thread that runs a manager's     *)
(* tick takes the packets of a connection out of its input stream          *)
(* (connection::Base::processcommand) and those that other threads have    *)
(* posted to the manager out of its queue (process_cachecommand), makes    *)
(* them with the packet factory, executes them and gives them back.        *)
(*                                                                         *)
(* Packets are numbered; 1, 2, ... are sent on the connection in this      *)
(* order.  The stream is a sequence of units, each written as its packet   *)
(* and its place in it: the header is one unit, at 0, the body as many as  *)
(* its size.  Nothing compares that size with what the packet's read()     *)
(* takes: a packet is "sound" when they are the same, and once one was     *)
(* not, what stands in front of the stream may be no header at all; it     *)
(* then says anything, and names one of the packets of Garbled.            *)
(*                                                                         *)
(* The queue is taken as PacketChannel promises it, without growth.  What  *)
(* execute() returns for a queued packet is dropped, so its handler is     *)
(* taken not to pass it on.  Not modelled: compression and encryption,     *)
(* and what comes after the connection is closed.                          *)
(***************************************************************************)
EXTENDS PacketFactory, Sequences

CONSTANTS
  Tick,          \* the thread of the tick; the other Threads post packets
  StreamPackets, \* how many packets the peer sends
  Garbled,       \* the packets that are made of bytes that are no header
  Posts,         \* the packets that each of the other threads makes
  MaxSize,       \* getpacket_maxsize
  Sizes,         \* the sizes a header may state
  Limit,         \* bufferlength_max of the input stream
  ExecuteCount   \* execute_count_pretick_

\* The packets that come out of the stream.
FromPeer == 1 .. StreamPackets \cup Garbled

ASSUME DispatchAssumption ==
  /\ Tick \in Threads /\ StreamPackets \in Nat
  /\ 1 .. StreamPackets \subseteq Packets
  /\ Garbled \subseteq Packets \ 1 .. StreamPackets
  /\ Posts \in [Threads \ {Tick} -> SUBSET (Packets \ FromPeer)]
  /\ MaxSize \in Nat /\ Sizes \subseteq Nat
  /\ ExecuteCount \in Nat \ {0}
  /\ Limit \in Nat /\ \A n \in Sizes : n < Limit

VARIABLES
  headers,   \* what the peer has written in the headers it sent
  wire,      \* units on their way
  ring,      \* units in the input stream
  open,      \* ~isdisconnect_
  pc, i,     \* the tick: where it is, and the index of its loop
  hand,      \* the packet each thread works with
  status,    \* what execute() returned
  queue,     \* the queue of the manager
  consumed,  \* how many packets have been taken out of the stream
  executed,  \* the packets that were executed out of the stream, in order
  posted,    \* the packets that have been made to be posted
  leaked     \* the packets that an exception has made the tick forget

stream == <<headers, wire, ring, open, consumed, executed>>
tick == <<pc, i, status>>
vars == <<factory, stream, tick, hand, queue, posted, leaked>>

Init ==
  /\ FactoryInit
  /\ headers = <<>> /\ wire = <<>> /\ ring = <<>> /\ open = TRUE
  /\ pc = "input" /\ i = 0 /\ status = "none"
  /\ hand = [t \in Threads |-> NoPacket]
  /\ queue = <<>> /\ consumed = 0 /\ executed = <<>> /\ posted = {}
  /\ leaked = {}

Units(p, n) == [k \in 1 .. n |-> <<p, k - 1>>]
Drop(s, n) == SubSeq(s, n + 1, Len(s))
Goes(to) == pc' = to
Holds(t, p) == hand' = [hand EXCEPT ![t] = p]

\* "unknown": no factory has its id; "unsound": its reader does not take
\* what the header states.
Header == [size : Sizes, kind : {"sound", "unsound", "unknown"}]

Send(size, kind) ==
  /\ open /\ Len(headers) < StreamPackets
  /\ headers' = Append(headers, [size |-> size, kind |-> kind])
  /\ wire' = wire \o Units(Len(headers) + 1, 1 + size)
  /\ UNCHANGED <<factory, ring, open, consumed, executed, tick, hand, queue, posted, leaked>>

-----------------------------------------------------------------------------
(* processinput *)

\* cleanup() of the connection: both streams are emptied.
Closes == open' = FALSE /\ ring' = <<>> /\ wire' = <<>>

\* fill(): what has arrived, a part of what is on its way.
Input ==
  /\ pc = "input" /\ Goes("peek")
  /\ \E n \in 0 .. Len(wire) :
       /\ open /\ Len(ring) + n <= Limit
       /\ ring' = ring \o SubSeq(wire, 1, n) /\ wire' = Drop(wire, n)
  /\ i' = 0
  /\ UNCHANGED <<factory, headers, open, consumed, executed, status, hand, queue, posted, leaked>>

\* More has arrived than the stream may hold.
InputOverflow ==
  /\ pc = "input" /\ open /\ Len(ring) + Len(wire) > Limit
  /\ Closes /\ Goes("take") /\ i' = 0
  /\ UNCHANGED <<factory, headers, consumed, executed, status, hand, queue, posted, leaked>>

InputClosed ==
  /\ pc = "input" /\ ~open
  /\ Goes("take") /\ i' = 0
  /\ UNCHANGED <<factory, stream, status, hand, queue, posted, leaked>>

-----------------------------------------------------------------------------
(* processcommand *)

AtHead == Head(ring)[1]
Size == headers[AtHead].size
InPlace == Head(ring)[2] = 0

\* What peek() may give: a header, or anything.
Peeked == IF InPlace THEN {headers[AtHead]} ELSE Header
Named == IF InPlace THEN {AtHead} ELSE Garbled

\* Mutant: a packet is complete only when more has arrived than it has.
ShortExact(h) == h.kind # "unknown" /\ Len(ring) <= 1 + h.size

\* The packet is not complete.
Short(h) == h.kind # "unknown" /\ Len(ring) < 1 + h.size

\* Enough for this tick, no header, or no complete packet.
LoopDone ==
  /\ pc = "peek"
  /\ \/ i >= ExecuteCount \/ ring = <<>>
     \/ ring # <<>> /\ \E h \in Peeked : Short(h)
  /\ Goes("take") /\ i' = 0
  /\ UNCHANGED <<factory, stream, status, hand, queue, posted, leaked>>

Oversize(p, h) == p \notin DynamicPackets /\ h.size > MaxSize

\* An unknown id, a size beyond what its kind may have: the connection goes.
Refuse ==
  /\ pc = "peek" /\ i < ExecuteCount /\ ring # <<>>
  /\ \E h \in Peeked :
       \/ h.kind = "unknown"
       \/ ~Short(h) /\ \E p \in Named : Oversize(p, h)
  /\ Closes /\ Goes("take") /\ i' = 0
  /\ UNCHANGED <<factory, headers, consumed, executed, status, hand, queue, posted, leaked>>

Make ==
  /\ pc = "peek" /\ i < ExecuteCount /\ ring # <<>>
  /\ \E h \in Peeked, p \in Named :
       /\ h.kind # "unknown" /\ ~Short(h) /\ ~Oversize(p, h)
       /\ CallCreate(Tick, p) /\ Holds(Tick, p)
  /\ Goes("read")
  /\ UNCHANGED <<stream, i, status, queue, posted, leaked>>

\* How much read() takes: what the header states, if the packet is sound; if
\* not, what there is to take.
Bodies ==
  IF InPlace /\ headers[AtHead].kind = "sound" THEN {Size} ELSE 0 .. Len(ring) - 1

\* Mutant: the header stays in front of the next packet.
ReadKeepsHeader ==
  /\ pc = "read" /\ call[Tick] = "idle"
  /\ \E n \in Bodies : ring' = Drop(ring, n)
  /\ consumed' = consumed + 1
  /\ Goes("execute")
  /\ UNCHANGED <<factory, headers, wire, open, executed, i, status, hand, queue, posted, leaked>>

\* readpacket: the header and the body leave the stream.
Read ==
  /\ pc = "read" /\ call[Tick] = "idle"
  /\ \E n \in Bodies : ring' = Drop(ring, 1 + n)
  /\ consumed' = consumed + 1
  /\ Goes("execute")
  /\ UNCHANGED <<factory, headers, wire, open, executed, i, status, hand, queue, posted, leaked>>

\* Mutant: a packet whose body is not what it expects is skipped.
ReadFailsSkips ==
  /\ pc = "read" /\ call[Tick] = "idle"
  /\ \E n \in Bodies : ring' = Drop(ring, 1 + n)
  /\ consumed' = consumed + 1
  /\ CallRemove(Tick, hand[Tick]) /\ Holds(Tick, NoPacket)
  /\ Goes("removed") /\ status' = "continue"
  /\ UNCHANGED <<headers, wire, open, executed, i, queue, posted, leaked>>

\* The packet's read() fails; what it throws may end in readpacket as well.
ReadFails ==
  /\ pc = "read" /\ call[Tick] = "idle"
  /\ Closes
  /\ CallRemove(Tick, hand[Tick]) /\ Holds(Tick, NoPacket)
  /\ Goes("removed") /\ status' = "error"
  /\ UNCHANGED <<headers, consumed, executed, i, queue, posted, leaked>>

\* Or readpacket passes on what it throws, as an application of type 0 does:
\* processcommand catches it, and does not give the packet back.
ReadThrows ==
  /\ pc = "read" /\ call[Tick] = "idle"
  /\ Closes
  /\ leaked' = leaked \cup {hand[Tick]} /\ Holds(Tick, NoPacket)
  /\ Goes("take") /\ i' = 0
  /\ UNCHANGED <<factory, headers, consumed, executed, status, queue, posted>>

\* The handler, which may have closed the connection itself, is done.
Executes ==
  /\ pc = "execute"
  /\ executed' = Append(executed, hand[Tick])
  /\ UNCHANGED <<headers, consumed>>
  /\ Closes \/ UNCHANGED <<open, ring, wire>>

Execute(result) ==
  /\ Executes
  /\ CallRemove(Tick, hand[Tick]) /\ Holds(Tick, NoPacket)
  /\ status' = result /\ Goes("removed")
  /\ UNCHANGED <<i, queue, posted, leaked>>

\* Mutant: the packet that was passed on is given back as well.
ExecuteKeepsNot(result) ==
  /\ Executes
  /\ queue' = Append(queue, hand[Tick])
  /\ CallRemove(Tick, hand[Tick]) /\ Holds(Tick, NoPacket)
  /\ status' = result /\ Goes("removed")
  /\ UNCHANGED <<i, posted, leaked>>

\* The handler has posted the packet, and says that it is not to be removed.
ExecutePassOn(result) ==
  /\ Executes
  /\ queue' = Append(queue, hand[Tick])
  /\ Holds(Tick, NoPacket)
  /\ status' = result /\ Goes("removed")
  /\ UNCHANGED <<factory, i, posted, leaked>>

\* What the status says of the rest of the stream.
Removed ==
  /\ pc = "removed" /\ call[Tick] = "idle" /\ status' = "none"
  /\ \/ /\ status = "continue" /\ Goes("peek") /\ i' = i + 1
        /\ UNCHANGED stream
     \/ /\ status = "break" /\ Goes("take") /\ i' = 0
        /\ UNCHANGED stream
     \/ /\ status = "error" /\ Goes("take") /\ i' = 0
        /\ Closes /\ UNCHANGED <<headers, consumed, executed>>
  /\ UNCHANGED <<factory, hand, queue, posted, leaked>>

-----------------------------------------------------------------------------
(* process_cachecommand *)

Take ==
  /\ pc = "take" /\ queue # <<>>
  /\ Holds(Tick, Head(queue)) /\ queue' = Tail(queue)
  /\ Goes("serve")
  /\ UNCHANGED <<factory, stream, i, status, posted, leaked>>

TakeNothing ==
  /\ pc = "take" /\ queue = <<>>
  /\ Goes("input")
  /\ UNCHANGED <<factory, stream, i, status, hand, queue, posted, leaked>>

\* What execute() returns is dropped: the packet is removed whatever it was.
Serve ==
  /\ pc = "serve"
  /\ CallRemove(Tick, hand[Tick]) /\ Holds(Tick, NoPacket)
  /\ Goes("served")
  /\ UNCHANGED <<stream, i, status, queue, posted, leaked>>

\* The packet is for a connection that is not there: the assertion throws past
\* the loop, and the packet is not given back.
ServeStray ==
  /\ pc = "serve"
  /\ leaked' = leaked \cup {hand[Tick]} /\ Holds(Tick, NoPacket)
  /\ Goes("input")
  /\ UNCHANGED <<factory, stream, i, status, queue, posted>>

Served ==
  /\ pc = "served" /\ call[Tick] = "idle" /\ Goes("take")
  /\ UNCHANGED <<factory, stream, i, status, hand, queue, posted, leaked>>

-----------------------------------------------------------------------------
(* The other threads *)

Prepare(t, p) ==
  /\ hand[t] = NoPacket /\ p \in Posts[t] \ posted
  /\ CallCreate(t, p) /\ Holds(t, p) /\ posted' = posted \cup {p}
  /\ UNCHANGED <<stream, tick, queue, leaked>>

Post(t) ==
  /\ hand[t] # NoPacket /\ call[t] = "idle"
  /\ queue' = Append(queue, hand[t]) /\ Holds(t, NoPacket)
  /\ UNCHANGED <<factory, stream, tick, posted, leaked>>

\* It has been sent on a connection, which copies it.
Discard(t) ==
  /\ hand[t] # NoPacket /\ CallRemove(t, hand[t]) /\ Holds(t, NoPacket)
  /\ UNCHANGED <<stream, tick, queue, posted, leaked>>

FactoryRuns(t) == FactoryStep(t) /\ UNCHANGED <<stream, tick, hand, queue, posted, leaked>>

Others(t) == (\E p \in Posts[t] : Prepare(t, p)) \/ Post(t) \/ Discard(t)

TickStep ==
  \/ Input \/ InputOverflow \/ InputClosed
  \/ LoopDone \/ Refuse \/ Make \/ Read \/ ReadFails \/ ReadThrows
  \/ \E result \in {"continue", "break", "error"} : Execute(result)
  \/ \E result \in {"continue", "error"} : ExecutePassOn(result)
  \/ Removed \/ Take \/ TakeNothing \/ Serve \/ ServeStray \/ Served
  \/ FactoryRuns(Tick)

Next ==
  \/ \E h \in Header : Send(h.size, h.kind)
  \/ TickStep
  \/ \E t \in Threads \ {Tick} : Others(t) \/ FactoryRuns(t)

\* The main loop ticks for ever, the threads do not stop inside the factory
\* manager, and what the peer has sent arrives.
Spec ==
  /\ Init /\ [][Next]_vars
  /\ WF_vars(TickStep) /\ SF_vars(Input /\ wire' # wire)
  /\ \A t \in Threads \ {Tick} : WF_vars(FactoryRuns(t))

-----------------------------------------------------------------------------
(* Properties *)

Maybe(S) == S \cup {NoPacket}

TypeOK ==
  /\ call \in [Threads -> {"idle", "create", "add", "adding", "remove", "erasing"}]
  /\ object \in [Threads -> Maybe(Packets)] /\ lock \in Threads \cup {Nobody}
  /\ live \subseteq Packets /\ alloc \subseteq Packets
  /\ count \in Nat /\ torn \in BOOLEAN
  /\ headers \in Seq(Header)
  /\ wire \in Seq((1 .. StreamPackets) \X Nat)
  /\ ring \in Seq((1 .. StreamPackets) \X Nat)
  /\ Len(ring) <= Limit /\ open \in BOOLEAN
  /\ pc \in {"input", "peek", "read", "execute", "removed", "take", "serve", "served"}
  /\ i \in 0 .. ExecuteCount
  /\ status \in {"none", "continue", "break", "error"}
  /\ hand \in [Threads -> Maybe(Packets)] /\ queue \in Seq(Packets)
  /\ consumed \in Nat /\ executed \in Seq(Packets)
  /\ posted \subseteq Packets /\ leaked \subseteq Packets

Having(calls) == {t \in Threads : call[t] \in calls}
Held == {hand[t] : t \in Threads} \ {NoPacket}
Queued == {queue[k] : k \in DOMAIN queue}
Returned == {object[t] : t \in Having({"remove", "erasing"})}

\* A packet that has been made and not been deleted has exactly one holder:
\* a thread that works with it, the queue, or removepacket; or an exception
\* has left it to the destructor of the factory manager, and to it alone.  So
\* none is deleted twice or used after it was deleted, and none is forgotten
\* otherwise, whatever a handler returns and wherever the connection ends.
OneHolder ==
  /\ \A t, u \in Threads : hand[t] = hand[u] /\ hand[t] # NoPacket => t = u
  /\ \A t, u \in Having({"remove", "erasing"}) : object[t] = object[u] => t = u
  /\ \A j, k \in DOMAIN queue : queue[j] = queue[k] => j = k
  /\ Held \cap Queued = {} /\ Returned \cap (Held \cup Queued) = {}
  /\ leaked \cap (Held \cup Queued \cup Returned) = {}
  /\ live = (Held \ {object[t] : t \in Having({"create"})})
            \cup Queued \cup Returned \cup leaked

\* The unit that follows u in what the peer has sent.
Following(u) ==
  IF u[2] < headers[u[1]].size THEN <<u[1], u[2] + 1>> ELSE <<u[1] + 1, 0>>

\* No packet has been taken out whose reader takes something else than its
\* header states.
Sound == \A p \in 1 .. Len(headers) : p <= consumed => headers[p].kind # "unsound"

\* As long as the readers keep to the sizes, the tick never loses its place in
\* the stream: what has not been taken out begins with the header of the
\* packet after the last one taken, and nothing is missing in it or at its
\* end; and handlers run once per packet, in the order in which the peer has
\* sent them.
InSync ==
  Sound =>
    /\ open =>
         LET rest == ring \o wire IN
         /\ rest = <<>> <=> consumed = Len(headers)
         /\ rest # <<>> =>
              /\ rest[1] = <<consumed + 1, 0>>
              /\ \A k \in 1 .. Len(rest) - 1 : rest[k + 1] = Following(rest[k])
              /\ Following(rest[Len(rest)]) = <<Len(headers) + 1, 0>>
    /\ \A k \in DOMAIN executed : executed[k] = k
    /\ Len(executed) <= consumed

\* Wherever fill() cuts the stream, whatever the sizes, the answers of the
\* handlers and the other threads: each packet of the peer is answered once, in
\* order, as long as the readers keep to the sizes; none of the peer's, in
\* place or not, is dropped without the connection; posted packets are served
\* as they came; and no packet is made again before it was deleted.
Service ==
  INSTANCE PacketService
    WITH sent <- Len(headers), returned <- Returned, lost <- leaked,
         strayed <- ~Sound
ImplementsService == Service!Spec

\* The counters agree with what is there however the threads meet; the table
\* that the destructor deletes from holds no packet that is gone, unless two
\* threads have been in it at once.
TablesExact ==
  /\ count = Cardinality(live \ DynamicPackets)
  /\ ~torn => alloc \subseteq live

\* A packet that was sent is executed, or the connection is closed: no part
\* of a packet, no size it may state and no handler's answer stops the stream
\* for good.  Behind a packet whose reader takes something else than its
\* header states there is no promise.
Answered ==
  \A p \in 1 .. StreamPackets :
    p <= Len(headers) ~>
      \/ ~open
      \/ \E k \in DOMAIN executed : executed[k] = p
      \/ \E q \in DOMAIN headers : q < p /\ headers[q].kind = "unsound"
=============================================================================
