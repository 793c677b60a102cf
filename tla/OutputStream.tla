---------------------------- MODULE OutputStream ----------------------------
(***************************************************************************)
(* The sending side of a connection: socket::Stream and                    *)
(* socket::OutputStream, without compression.  Packets are written into a  *)
(* ring, which the manager flushes to the socket once in a tick; the       *)
(* kernel takes as much as it has room for.  The ring grows when a packet  *)
(* does not fit.  write() reads head and tail before it grows the ring and *)
(* uses them after, and does not use the last cell when it wraps, so what  *)
(* is in the ring is only right while packets are written with the         *)
(* content at the front or with room behind it: intact follows that.       *)
(*                                                                         *)
(* The k-th byte written on a connection is written as k.                  *)
(***************************************************************************)
EXTENDS Integers, Sequences

CONSTANTS
  BufferLength,     \* bufferlength when the stream is made
  BufferLengthMax,  \* bufferlength_max: longer, and flush() fails
  MaxBytes,         \* bound: how many bytes are written on one connection
  MaxPacket         \* bound: how many of them by one write()

ASSUME StreamAssumption ==
  /\ BufferLength \in Nat /\ BufferLength > 1
  /\ BufferLengthMax \in Nat /\ BufferLengthMax >= BufferLength
  /\ MaxBytes \in Nat /\ MaxPacket \in Nat

VARIABLES
  buffer, bufferlength, head, tail,  \* streamdata_
  written,  \* bytes the connection has written
  flushed,  \* bytes the socket has taken
  last,     \* the bytes it took in the last flush
  intact    \* no write has yet grown or wrapped the ring with head > 0

ring == <<buffer, bufferlength, head, tail>>
vars == <<ring, written, flushed, last, intact>>

NoByte == 0

Init ==
  /\ bufferlength = BufferLength
  /\ buffer = [i \in 0..BufferLength - 1 |-> NoByte]
  /\ head = 0 /\ tail = 0
  /\ written = 0 /\ flushed = 0 /\ last = <<>> /\ intact = TRUE

-----------------------------------------------------------------------------
(* The ring *)

RealLength == IF head <= tail THEN tail - head ELSE bufferlength - head + tail

\* Cell of the i-th byte of the content, the first being 0.
Cell(i) == IF head + i < bufferlength THEN head + i ELSE head + i - bufferlength

\* Mutant: the free cells are always counted as if head were before tail.
FreeOneSided == bufferlength - tail + head - 1

Free ==
  IF head <= tail THEN bufferlength - tail + head - 1 ELSE head - tail - 1

\* write grows the ring for a packet that would fill it to the last free cell.
MustGrow(n) == n >= Free

\* The array write() fills: its own, or a longer one with the content at the
\* front (resize, which adds at least half of the present length).
Room(n) ==
  IF ~MustGrow(n) THEN bufferlength
  ELSE LET size == n - Free + 1 IN
       bufferlength
       + (IF size > bufferlength \div 2 THEN size ELSE bufferlength \div 2)

Array(n) ==
  IF ~MustGrow(n) THEN buffer
  ELSE [i \in 0..Room(n) - 1 |->
          IF i < RealLength THEN buffer[Cell(i)] ELSE NoByte]

\* Bytes up to the end of the array, save its last cell.
Right(n) == Room(n) - tail - 1

\* The bytes from write()'s argument that go to cell i: from the old tail
\* on, and what is left over from cell 0 on.
ByteFor(n, i) ==
  IF head <= tail /\ n > Right(n)
  THEN IF i \in tail..tail + Right(n) - 1 THEN written + i - tail + 1
       ELSE IF i < n - Right(n) THEN written + Right(n) + i + 1
       ELSE Array(n)[i]
  ELSE IF i \in tail..tail + n - 1 THEN written + i - tail + 1
       ELSE Array(n)[i]

-----------------------------------------------------------------------------
(* Actions *)

\* Mutant: the new tail is not wrapped.
TailFlat(n) == tail + n

NewTail(n) == (tail + n) % Room(n)

\* A packet of n bytes is written.
Write(n) ==
  /\ written + n <= MaxBytes
  /\ bufferlength' = Room(n)
  /\ buffer' = [i \in 0..Room(n) - 1 |-> ByteFor(n, i)]
  /\ head' = IF MustGrow(n) THEN 0 ELSE head
  /\ tail' = NewTail(n)
  /\ written' = written + n
  /\ intact' = (intact /\ (head = 0 \/ (~MustGrow(n) /\ n <= Right(n))))
  /\ UNCHANGED <<flushed, last>>

\* Mutant: the cells are sent from the front of the array.
SentFromFront(k) == [i \in 1..k |-> buffer[i - 1]]

Sent(k) == [i \in 1..k |-> buffer[Cell(i - 1)]]
NewHead(k) == (head + k) % bufferlength

\* flush, which the tick calls when there is something to send: the socket
\* takes k bytes and then would block, or has them all, and the ring starts
\* again at the front.
Flush(k) ==
  /\ RealLength > 0 /\ bufferlength <= BufferLengthMax
  /\ k <= RealLength
  /\ last' = Sent(k)
  /\ flushed' = flushed + k
  /\ head' = IF k = RealLength THEN 0 ELSE NewHead(k)
  /\ tail' = IF k = RealLength THEN 0 ELSE tail
  /\ UNCHANGED <<buffer, bufferlength, written, intact>>

\* cleanup of the connection, whose slot the next connection takes over; the
\* array stays as it is.
Cleanup ==
  /\ head' = 0 /\ tail' = 0
  /\ written' = 0 /\ flushed' = 0 /\ last' = <<>> /\ intact' = TRUE
  /\ UNCHANGED <<buffer, bufferlength>>

\* The array is longer than allowed: flush fails (its call of init() returns
\* at once), and the connection is removed; so is the next one in this slot.
FlushOverflow ==
  /\ RealLength > 0 /\ bufferlength > BufferLengthMax
  /\ Cleanup

\* A send fails, or the connection is closed from this side.
Closed == written > 0 /\ Cleanup

Next ==
  \/ \E n \in 1..MaxPacket : Write(n)
  \/ \E k \in 1..bufferlength : Flush(k)
  \/ FlushOverflow
  \/ Closed

Spec == Init /\ [][Next]_vars

-----------------------------------------------------------------------------
(* Properties *)

\* Head and tail stay inside the array, whatever has been written.
TypeOK ==
  /\ bufferlength \in Nat /\ bufferlength >= BufferLength
  /\ buffer \in [0..bufferlength - 1 -> 0..MaxBytes]
  /\ head \in 0..bufferlength - 1 /\ tail \in 0..bufferlength - 1
  /\ written \in 0..MaxBytes /\ flushed \in Nat
  /\ last \in Seq(0..MaxBytes)
  /\ intact \in BOOLEAN

\* write() stays inside the array it has just grown, although it goes by the
\* head and tail of the old one.
WriteInside ==
  \A n \in 1..MaxPacket :
    IF head <= tail /\ n > Right(n)
    THEN 0 <= Right(n) /\ n - Right(n) <= Room(n)
    ELSE tail + n <= Room(n)

\* The content of the ring: the bytes written and not yet taken, in order.
Contents ==
  /\ RealLength = written - flushed
  /\ \A i \in 0..RealLength - 1 : buffer[Cell(i)] = flushed + i + 1
  /\ \A i \in 1..Len(last) : last[i] = flushed - Len(last) + i

\* As long as no packet was written behind a partial flush into a ring that
\* had to grow or to wrap, the socket gets what was written.
IntactInOrder == intact => Contents

\* Seen from outside, connection, ring and socket together are a stream until
\* its ring is intact no more: whatever part of the content the socket takes,
\* and however the ring has grown under it, it gets the very next bytes.  The
\* stream is cut where intact ends.
Whole(n) == IF intact THEN n ELSE 0
Stream == INSTANCE ByteStream WITH
  sent <- Whole(written), got <- Whole(flushed),
  last <- IF intact THEN last ELSE <<>>
ImplementsByteStream == Stream!Spec
=============================================================================
