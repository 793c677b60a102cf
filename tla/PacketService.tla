--------------------------- MODULE PacketService ---------------------------
(***************************************************************************)
(* What the dispatch of packets promises a connection and the threads that *)
(* share the packet factory.  The peer's packets, 1, 2, ..., are answered  *)
(* each once, in this order, while the connection is open; none that was   *)
(* received is given back without its answer, unless the connection is     *)
(* closed with that.  A reader that takes something else than the header   *)
(* states makes the stream stray: from then on some packets are answered,  *)
(* in some order.  Packets that are posted are fetched in the order in     *)
(* which they came.  A packet goes from hand to hand, and may be had again *)
(* only after it was deleted; one that was lost never is.                  *)
(***************************************************************************)
EXTENDS Naturals, Sequences

CONSTANTS Threads, Tick, Packets, FromPeer, NoPacket

VARIABLES
  sent,      \* how many packets the peer has sent
  executed,  \* those that were answered
  open,      \* the connection
  hand,      \* the packet each thread has
  queue,     \* the packets that are posted
  returned,  \* the packets that are given back and not deleted yet
  lost,      \* those that will never be given back
  strayed    \* the place in the stream may be lost

vars == <<sent, executed, open, hand, queue, returned, lost, strayed>>

Init ==
  /\ sent = 0 /\ executed = <<>> /\ open = TRUE
  /\ hand = [t \in Threads |-> NoPacket] /\ queue = <<>> /\ returned = {}
  /\ lost = {} /\ strayed = FALSE

HadBy(t, p) == hand' = [hand EXCEPT ![t] = p]
Free(p) ==
  /\ \A t \in Threads : hand[t] # p
  /\ \A k \in DOMAIN queue : queue[k] # p
  /\ p \notin returned \cup lost
InOrder(p) == strayed \/ (p = Len(executed) + 1 /\ p <= sent)
Unanswered(p) == p \in FromPeer /\ \A k \in DOMAIN executed : executed[k] # p
MayClose == open' \in {open, FALSE}

Send ==
  /\ open /\ sent' = sent + 1
  /\ UNCHANGED <<executed, open, hand, queue, returned, lost, strayed>>

Close ==
  /\ open' = FALSE
  /\ UNCHANGED <<sent, executed, hand, queue, returned, lost, strayed>>

\* The next packet of the peer is received.
Receive ==
  /\ open /\ hand[Tick] = NoPacket
  /\ \E p \in FromPeer : InOrder(p) /\ Free(p) /\ HadBy(Tick, p)
  /\ UNCHANGED <<sent, executed, open, queue, returned, lost, strayed>>

\* Its reader does not take what the header states.
Stray ==
  /\ hand[Tick] \in FromPeer /\ strayed' = TRUE
  /\ UNCHANGED <<sent, executed, open, hand, queue, returned, lost>>

\* It is answered, and then given back or passed on.
Answer ==
  /\ open /\ hand[Tick] \in FromPeer /\ InOrder(hand[Tick])
  /\ executed' = Append(executed, hand[Tick]) /\ MayClose
  /\ HadBy(Tick, NoPacket)
  /\ \/ returned' = returned \cup {hand[Tick]} /\ UNCHANGED queue
     \/ queue' = Append(queue, hand[Tick]) /\ UNCHANGED returned
  /\ UNCHANGED <<sent, lost, strayed>>

\* A packet leaves a hand and is not posted.
LetsGo(t) ==
  /\ hand[t] # NoPacket /\ MayClose
  /\ Unanswered(hand[t]) => ~open'
  /\ HadBy(t, NoPacket)
  /\ UNCHANGED <<sent, executed, queue, strayed>>

GiveBack(t) ==
  LetsGo(t) /\ returned' = returned \cup {hand[t]} /\ UNCHANGED lost

Lose == LetsGo(Tick) /\ lost' = lost \cup {hand[Tick]} /\ UNCHANGED returned

\* A thread has a packet made that is not the peer's, and posts it.
Have(t, p) ==
  /\ hand[t] = NoPacket /\ Free(p) /\ p \notin FromPeer
  /\ HadBy(t, p)
  /\ UNCHANGED <<sent, executed, open, queue, returned, lost, strayed>>

Post(t) ==
  /\ hand[t] # NoPacket /\ hand[t] \notin FromPeer
  /\ queue' = Append(queue, hand[t]) /\ HadBy(t, NoPacket)
  /\ UNCHANGED <<sent, executed, open, returned, lost, strayed>>

Fetch ==
  /\ queue # <<>> /\ hand[Tick] = NoPacket
  /\ HadBy(Tick, Head(queue)) /\ queue' = Tail(queue)
  /\ UNCHANGED <<sent, executed, open, returned, lost, strayed>>

Deleted(p) ==
  /\ p \in returned /\ returned' = returned \ {p}
  /\ UNCHANGED <<sent, executed, open, hand, queue, lost, strayed>>

Next ==
  \/ Send \/ Close \/ Receive \/ Stray \/ Answer \/ Lose \/ Fetch
  \/ \E t \in Threads : GiveBack(t)
  \/ \E t \in Threads \ {Tick} : Post(t) \/ \E p \in Packets : Have(t, p)
  \/ \E p \in Packets : Deleted(p)

Spec == Init /\ [][Next]_vars
=============================================================================
