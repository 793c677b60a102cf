----------------------------- MODULE InputStream -----------------------------
(***************************************************************************)
(* The receiving side of a connection: socket::Stream and                  *)
(* socket::InputStream.  A ring of bufferlength cells is filled from the   *)
(* socket by fill(), in up to three receives, between which the peer may   *)
(* send more, and is read by the packet code.  When the peer has more than *)
(* the ring can hold, the ring is unrolled into a longer one, which stays  *)
(* with the connection's slot when the connection ends.                    *)
(*                                                                         *)
(* The k-th byte the peer sends on a connection is written as k.  Not      *)
(* modelled: encryption, which changes every byte in place, and write(),   *)
(* which only the compressed mode calls.                                   *)
(***************************************************************************)
EXTENDS Integers, Sequences

CONSTANTS
  BufferLength,     \* bufferlength when the stream is made
  BufferLengthMax,  \* bufferlength_max
  MaxBytes,         \* bound: how many bytes a peer sends on one connection
  MaxPending,       \* bound: how many of them wait in the socket at once
  Need,             \* the length of the packet the reader waits for
  MaxTake           \* bound: how many bytes one read, peek or skip takes

ASSUME StreamAssumption ==
  /\ BufferLength \in Nat /\ BufferLength > 1
  /\ BufferLengthMax \in Nat /\ BufferLengthMax >= BufferLength
  /\ MaxBytes \in Nat /\ MaxPending \in Nat /\ MaxTake \in Nat
  /\ Need \in Nat \ {0} /\ Need < BufferLength

VARIABLES
  buffer, bufferlength, head, tail,  \* streamdata_
  step,      \* what fill() does next: "idle" when it is not running
  sent,      \* bytes the peer has sent
  received,  \* bytes taken from the socket
  got,       \* bytes the packet code has consumed
  last,      \* what its last read or peek copied
  edge,      \* epoll has an event to report
  stalled    \* fill() has returned with nothing received since the last edge

ring == <<buffer, bufferlength, head, tail>>
reader == <<got, last>>
vars == <<ring, step, sent, received, reader, edge, stalled>>

NoByte == 0
Pending == sent - received  \* what ioctl FIONREAD says is available

Init ==
  /\ bufferlength = BufferLength
  /\ buffer = [i \in 0..BufferLength - 1 |-> NoByte]
  /\ head = 0 /\ tail = 0 /\ step = "idle"
  /\ sent = 0 /\ received = 0 /\ got = 0 /\ last = <<>>
  /\ edge = FALSE /\ stalled = FALSE

-----------------------------------------------------------------------------
(* The ring *)

RealLength == IF head <= tail THEN tail - head ELSE bufferlength - head + tail

\* Cell of the i-th byte of the content, the first being 0.
Cell(i) == IF head + i < bufferlength THEN head + i ELSE head + i - bufferlength

\* Mutant: unrolling forgets the part that has wrapped.
UnrolledFlat(length) ==
  [i \in 0..length - 1 |->
     IF head + i < bufferlength THEN buffer[head + i] ELSE NoByte]

\* resize: the content moves to the front of a zeroed array.
Unrolled(length) ==
  [i \in 0..length - 1 |-> IF i < RealLength THEN buffer[Cell(i)] ELSE NoByte]

\* resize adds at least half of the present length.
Grown(size) ==
  bufferlength
  + (IF size > bufferlength \div 2 THEN size ELSE bufferlength \div 2)

\* The next n bytes of the socket overwrite the cells of b from at on.
Stored(b, at, n) ==
  [i \in DOMAIN b |-> IF i \in at..at + n - 1 THEN received + i - at + 1 ELSE b[i]]

-----------------------------------------------------------------------------
(* fill *)

\* recv copies what there is, up to the length it is given.
Count(length) == IF Pending < length THEN Pending ELSE length

\* One receive into the free cells from at on.  It is short when it leaves
\* some of them free, and fill() ends with it; otherwise fill() goes on.
Receive(at, free, then) ==
  LET n == Count(free) IN
  /\ Pending > 0 /\ free > 0
  /\ buffer' = Stored(buffer, at, n)
  /\ received' = received + n
  /\ tail' = (at + n) % bufferlength
  /\ step' = IF n = free THEN then ELSE "idle"
  /\ UNCHANGED <<bufferlength, head, sent, reader>>

\* The manager calls fill() when epoll reports the connection: once for an
\* edge, connections being registered with EPOLLET.
Filled == step = "idle" /\ edge /\ edge' = FALSE

\* Free cells when head is at the front, and when tail is before head.
Right == bufferlength - tail - 1
Gap == head - tail - 1

FillFront ==
  /\ Filled /\ head = 0
  /\ Receive(tail, Right, "grow")
  /\ stalled' = FALSE

\* The ring is full and head is at the front: nothing is received, and the
\* ring is not grown either.
FillFull ==
  /\ Filled /\ head = 0 /\ Right = 0
  /\ stalled' = TRUE
  /\ UNCHANGED <<ring, step, sent, received, reader>>

FillWrap ==
  /\ Filled /\ 0 < head /\ head <= tail
  /\ Receive(tail, bufferlength - tail, IF head = 1 THEN "grow" ELSE "second")
  /\ stalled' = FALSE

FillSecond ==
  /\ step = "second"
  /\ Receive(0, head - 1, "grow")
  /\ UNCHANGED <<edge, stalled>>

FillGap ==
  /\ Filled /\ head > tail
  /\ Receive(tail, Gap, "grow")
  /\ stalled' = FALSE

\* Mutant: no free cell, nothing done, as with head at the front.
FillNoGapIdle ==
  /\ Filled /\ head > tail /\ Gap = 0
  /\ stalled' = FALSE
  /\ UNCHANGED <<ring, step, sent, received, reader>>

\* No free cell between tail and head: the ring is grown at once.
FillNoGap ==
  /\ Filled /\ head > tail /\ Gap = 0
  /\ step' = "grow" /\ stalled' = FALSE
  /\ UNCHANGED <<ring, sent, received, reader>>

\* A receive that finds nothing: the kernel says "would block".
FillBlocked ==
  /\ \/ step \in {"second", "grow"} /\ Pending = 0 /\ edge' = edge
     \/ Filled /\ Pending = 0
  /\ step' = "idle"
  /\ UNCHANGED <<ring, sent, received, reader, stalled>>

\* The ring is full and there is more: it is grown for what is available
\* now, which is then received.
FillGrow ==
  /\ step = "grow" /\ Pending > 0
  /\ bufferlength + Pending + 1 <= BufferLengthMax
  /\ LET length == Grown(Pending + 1) IN
     /\ bufferlength' = length
     /\ buffer' = Stored(Unrolled(length), RealLength, Pending)
  /\ head' = 0 /\ tail' = RealLength + Pending
  /\ received' = sent
  /\ step' = "idle"
  /\ UNCHANGED <<sent, reader, edge, stalled>>

\* cleanup of the connection, whose slot the next connection takes over; the
\* array stays as it is.
Cleanup ==
  /\ head' = 0 /\ tail' = 0 /\ step' = "idle"
  /\ sent' = 0 /\ received' = 0 /\ got' = 0 /\ last' = <<>>
  /\ edge' = FALSE /\ stalled' = FALSE
  /\ UNCHANGED <<buffer, bufferlength>>

\* There is more than the stream may hold: fill() fails (its call of init()
\* returns at once, the stream being initialised) and the connection is
\* removed.
FillOverflow ==
  /\ step = "grow" /\ Pending > 0
  /\ bufferlength + Pending + 1 > BufferLengthMax
  /\ Cleanup

\* A receive fails or finds the end of the stream, or the connection is
\* closed from this side.
Closed == sent > 0 /\ Cleanup

-----------------------------------------------------------------------------
(* The packet code, between two fills *)

\* Mutant: the copy does not wrap.
CopiedFlat(n) ==
  [i \in 1..n |-> IF head + i - 1 < bufferlength THEN buffer[head + i - 1]
                  ELSE NoByte]

Copied(n) == [i \in 1..n |-> buffer[Cell(i - 1)]]

\* Mutant: all there is cannot be taken at once.
CanTakeLess(n) == step = "idle" /\ 0 < n /\ n < RealLength

\* read, peek and skip refuse 0 and more than there is.
CanTake(n) == step = "idle" /\ 0 < n /\ n <= RealLength

\* Mutant: head does not wrap.
AdvanceFlat(n) ==
  /\ head' = head + n
  /\ got' = got + n
  /\ UNCHANGED <<buffer, bufferlength, tail>>

Advance(n) ==
  /\ head' = (head + n) % bufferlength
  /\ got' = got + n
  /\ UNCHANGED <<buffer, bufferlength, tail>>

Read(n) ==
  /\ CanTake(n) /\ Advance(n)
  /\ last' = Copied(n)
  /\ UNCHANGED <<step, sent, received, edge, stalled>>

Peek(n) ==
  /\ CanTake(n)
  /\ last' = Copied(n)
  /\ UNCHANGED <<ring, step, sent, received, got, edge, stalled>>

Skip(n) ==
  /\ CanTake(n) /\ Advance(n)
  /\ UNCHANGED <<step, sent, received, last, edge, stalled>>

\* The peer sends n bytes, at any time.
Arrive(n) ==
  /\ sent + n <= MaxBytes /\ Pending + n <= MaxPending
  /\ sent' = sent + n /\ edge' = TRUE
  /\ UNCHANGED <<ring, step, received, reader, stalled>>

Fill ==
  \/ FillFront \/ FillFull \/ FillWrap \/ FillSecond \/ FillGap \/ FillNoGap
  \/ FillBlocked \/ FillGrow \/ FillOverflow

Next ==
  \/ Fill \/ Closed
  \/ \E n \in 1..MaxPending : Arrive(n)
  \/ \E n \in 1..MaxTake : Read(n) \/ Peek(n) \/ Skip(n)

Spec == Init /\ [][Next]_vars

\* The main loop polls and runs fill() for ever, and executes the packets
\* that are complete; Need is the length of the packet it waits for.
FairSpec ==
  /\ Spec /\ WF_vars(Fill)
  /\ WF_vars(Read(Need))
-----------------------------------------------------------------------------
(* Properties *)

\* Head and tail stay inside the array, whatever its length has become.
TypeOK ==
  /\ bufferlength \in Nat /\ bufferlength >= BufferLength
  /\ 2 * bufferlength < 3 * BufferLengthMax \/ bufferlength = BufferLength
  /\ buffer \in [0..bufferlength - 1 -> 0..MaxBytes]
  /\ head \in 0..bufferlength - 1 /\ tail \in 0..bufferlength - 1
  /\ step \in {"idle", "second", "grow"}
  /\ sent \in 0..MaxBytes /\ received \in 0..sent /\ got \in 0..received
  /\ last \in Seq(0..MaxBytes)
  /\ edge \in BOOLEAN /\ stalled \in BOOLEAN

\* The ring holds exactly the bytes received and not yet consumed, in order:
\* between any two receives of a fill(), across the wrap and across growth.
InOrder ==
  /\ RealLength = received - got
  /\ \A i \in 0..RealLength - 1 : buffer[Cell(i)] = got + i + 1

\* Seen from outside, sender, socket, ring and packet code together are a
\* stream: nothing is lost, doubled or reordered, and every read and peek
\* copies the very next bytes.
Stream == INSTANCE ByteStream
ImplementsByteStream == Stream!Spec

\* fill() leaves bytes in the socket without an edge to come back for them
\* only in one way: the ring was full with head at its front.
LeftOnlyWhenFull == step = "idle" /\ Pending > 0 /\ ~edge => stalled

\* A packet that fits the ring does not wait for ever: its bytes are received
\* and consumed, or the connection is closed, or fill() has stalled.
Delivered == []<>(sent < got + Need \/ stalled)
=============================================================================
