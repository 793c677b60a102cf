-------------------------- MODULE OutputStreamProofs --------------------------
(* Proofs about OutputStream, for every length of the ring and of packets. *)
EXTENDS OutputStream, TLAPS

LEMMA Half == ASSUME NEW n \in Nat PROVE n \div 2 \in Nat
  OBVIOUS

LEMMA Wrapped ==
  ASSUME NEW n \in Nat, NEW k \in Nat \ {0}
  PROVE  n % k \in 0 .. k - 1 /\ (n < k => n % k = n)
  OBVIOUS

\* The indices and the lengths, without what is in the cells.
IndexOK ==
  /\ bufferlength \in Nat /\ bufferlength >= BufferLength
  /\ head \in 0 .. bufferlength - 1 /\ tail \in 0 .. bufferlength - 1
  /\ written \in 0 .. MaxBytes /\ flushed \in Nat
  /\ intact \in BOOLEAN

\* The array write() fills is never shorter than the ring, and when it is
\* longer, then by more than what does not fit.
LEMMA RoomBounds ==
  ASSUME IndexOK, NEW n \in Nat
  PROVE  /\ Free \in Int /\ Room(n) \in Nat \ {0} /\ Room(n) >= bufferlength
         /\ MustGrow(n) => Room(n) >= bufferlength + n - Free + 1
<1>1. bufferlength \div 2 \in Nat
  BY Half DEF IndexOK
<1>2. Free \in Int
  BY DEF Free, IndexOK
<1> QED BY <1>1, <1>2, StreamAssumption DEF IndexOK, Room, MustGrow

LEMMA CellInside ==
  ASSUME IndexOK, NEW i \in 0 .. RealLength - 1
  PROVE  Cell(i) \in 0 .. bufferlength - 1
  BY DEF IndexOK, Cell, RealLength

LEMMA WriteFits == IndexOK => WriteInside
<1> SUFFICES ASSUME IndexOK, NEW n \in 1 .. MaxPacket
             PROVE  IF head <= tail /\ n > Right(n)
                    THEN 0 <= Right(n) /\ n - Right(n) <= Room(n)
                    ELSE tail + n <= Room(n)
  BY DEF WriteInside
<1>1. n \in Nat
  BY StreamAssumption
<1>2. /\ Room(n) \in Nat /\ Room(n) >= bufferlength
      /\ MustGrow(n) => Room(n) >= bufferlength + n - Free + 1
  BY <1>1, RoomBounds
<1>3. ~MustGrow(n) => n < Free
  BY <1>1, RoomBounds DEF MustGrow
<1> HIDE DEF Free
<1>4. Free = IF head <= tail THEN bufferlength - tail + head - 1 ELSE head - tail - 1
  BY DEF Free
<1> QED BY <1>1, <1>2, <1>3, <1>4 DEF Right, IndexOK

-----------------------------------------------------------------------------
(* Type correctness *)

LEMMA WriteType ==
  ASSUME TypeOK, NEW n \in 1 .. MaxPacket, Write(n)
  PROVE  TypeOK'
<1>1. n \in Nat /\ IndexOK
  BY StreamAssumption DEF TypeOK, IndexOK
<1>2. Room(n) \in Nat \ {0} /\ Room(n) >= bufferlength
  BY <1>1, RoomBounds
<1>3. bufferlength' = Room(n) /\ written' = written + n /\ written' \in 0 .. MaxBytes
  BY <1>1 DEF Write, IndexOK
<1>4. head' \in 0 .. bufferlength' - 1
  BY <1>1, <1>2, <1>3 DEF Write, IndexOK
<1>5. tail' \in 0 .. bufferlength' - 1
  <2>1. tail + n \in Nat
    BY <1>1 DEF IndexOK
  <2> QED BY <1>2, <1>3, <2>1, Wrapped DEF Write, NewTail
<1>6. ASSUME NEW i \in 0 .. Room(n) - 1
      PROVE  Array(n)[i] \in 0 .. MaxBytes
  <2>1. i < RealLength => buffer[Cell(i)] \in 0 .. MaxBytes
    BY <1>1, CellInside DEF TypeOK, RealLength
  <2>2. NoByte \in 0 .. MaxBytes
    BY StreamAssumption DEF NoByte
  <2>3. ~MustGrow(n) => Room(n) = bufferlength
    BY DEF Room
  <2> QED BY <2>1, <2>2, <2>3 DEF Array, TypeOK
<1>7. ASSUME NEW i \in 0 .. Room(n) - 1
      PROVE  ByteFor(n, i) \in 0 .. MaxBytes
  <2>1. Array(n)[i] \in 0 .. MaxBytes
    BY <1>6
  <2>2. Right(n) \in Nat /\ tail \in Nat /\ written \in Nat /\ MaxBytes \in Nat
        /\ written + n <= MaxBytes
    BY <1>1, <1>2, StreamAssumption DEF Right, IndexOK, Write
  <2>3. CASE head <= tail /\ n > Right(n) /\ i \in tail .. tail + Right(n) - 1
    <3>1. ByteFor(n, i) = written + i - tail + 1
      BY <2>3 DEF ByteFor
    <3> QED BY <1>1, <2>2, <2>3, <3>1
  <2>4. CASE head <= tail /\ n > Right(n) /\ i \notin tail .. tail + Right(n) - 1
                /\ i < n - Right(n)
    <3>1. ByteFor(n, i) = written + Right(n) + i + 1
      BY <2>4 DEF ByteFor
    <3> QED BY <1>1, <2>2, <2>4, <3>1
  <2>5. CASE ~(head <= tail /\ n > Right(n)) /\ i \in tail .. tail + n - 1
    <3>1. ByteFor(n, i) = written + i - tail + 1
      BY <2>5 DEF ByteFor
    <3> QED BY <1>1, <2>2, <2>5, <3>1
  <2>6. CASE ByteFor(n, i) = Array(n)[i]
    BY <2>1, <2>6
  <2> QED BY <2>3, <2>4, <2>5, <2>6 DEF ByteFor
<1>8. buffer' \in [0 .. bufferlength' - 1 -> 0 .. MaxBytes]
  BY <1>3, <1>7 DEF Write
<1>9. intact' \in BOOLEAN
  BY DEF Write
<1>10. flushed' \in Nat /\ last' \in Seq(0 .. MaxBytes)
  BY DEF Write, TypeOK
<1>11. bufferlength' \in Nat /\ bufferlength' >= BufferLength
  BY <1>1, <1>2, <1>3, StreamAssumption DEF IndexOK
<1> QED BY <1>3, <1>4, <1>5, <1>8, <1>9, <1>10, <1>11 DEF TypeOK

LEMMA FlushType ==
  ASSUME TypeOK, NEW k \in 1 .. bufferlength, Flush(k)
  PROVE  TypeOK'
<1>1. IndexOK /\ bufferlength > 0 /\ k \in Nat /\ RealLength \in Nat
  BY StreamAssumption DEF TypeOK, IndexOK, RealLength
<1>2. \A i \in 1 .. k : buffer[Cell(i - 1)] \in 0 .. MaxBytes
  BY <1>1, CellInside DEF Flush, TypeOK
<1>3. last' \in Seq(0 .. MaxBytes)
  BY <1>1, <1>2 DEF Flush, Sent
<1>4. NewHead(k) \in 0 .. bufferlength - 1
  <2>1. head + k \in Nat /\ bufferlength \in Nat \ {0}
    BY <1>1 DEF IndexOK
  <2> QED BY <2>1, Wrapped DEF NewHead
<1> QED BY <1>1, <1>3, <1>4 DEF Flush, TypeOK

LEMMA CleanupType ==
  ASSUME TypeOK, Cleanup
  PROVE  TypeOK'
  BY StreamAssumption DEF TypeOK, Cleanup

LEMMA TypeInductive == TypeOK /\ [Next]_vars => TypeOK'
<1> SUFFICES ASSUME TypeOK, [Next]_vars PROVE TypeOK'
  OBVIOUS
<1>1. CASE UNCHANGED vars
  BY <1>1 DEF TypeOK, vars, ring
<1> QED
  BY <1>1, WriteType, FlushType, CleanupType DEF Next, FlushOverflow, Closed

LEMMA TypeInitial == Init => TypeOK
  BY StreamAssumption DEF Init, TypeOK, NoByte

\* For every length of the ring and of packets, head and tail stay inside
\* the array through growth, wrap and reuse by the next connection.
THEOREM StreamTypeInvariant == Spec => []TypeOK
  BY TypeInitial, TypeInductive, PTL DEF Spec

\* write() never leaves the array it fills, although it works with the head
\* and tail of the ring before it has grown.
THEOREM WriteStaysInside == Spec => []WriteInside
<1>1. TypeOK => WriteInside
  BY WriteFits DEF TypeOK, IndexOK
<1> QED BY TypeInitial, TypeInductive, <1>1, PTL DEF Spec

-----------------------------------------------------------------------------
(* The order of the bytes *)

\* While the ring is intact its content is one stretch of cells.
StretchInv ==
  intact => /\ head <= tail /\ tail - head = written - flushed
            /\ \A j \in head .. tail - 1 : buffer[j] = flushed + (j - head) + 1

\* And what the socket got last was the end of what it has.
LastInv ==
  intact => \A i \in 1 .. Len(last) : last[i] = flushed - Len(last) + i

\* A packet that leaves the ring intact goes behind the content, in one piece.
LEMMA WriteBehind ==
  ASSUME TypeOK, StretchInv, intact, NEW n \in 1 .. MaxPacket,
         head = 0 \/ (~MustGrow(n) /\ n <= Right(n))
  PROVE  /\ tail + n < Room(n) /\ n <= Right(n)
         /\ \A j \in head .. tail - 1 : j \in DOMAIN Array(n) /\ Array(n)[j] = buffer[j]
         /\ MustGrow(n) => head = 0
<1>1. n \in Nat /\ IndexOK /\ head <= tail
  BY StreamAssumption DEF TypeOK, IndexOK, StretchInv
<1>2. /\ Room(n) \in Nat /\ Room(n) >= bufferlength
      /\ MustGrow(n) => Room(n) >= bufferlength + n - Free + 1
      /\ ~MustGrow(n) => n < Free
      /\ Free = bufferlength - tail + head - 1
  BY <1>1, RoomBounds DEF MustGrow, Free
<1> HIDE DEF Free
<1>3. Right(n) = Room(n) - tail - 1
  BY DEF Right
<1>4. CASE MustGrow(n)
  <2>1. head = 0
    BY <1>4
  <2>2. tail + n < Room(n) /\ n <= Right(n)
    BY <1>1, <1>2, <1>3, <1>4, <2>1 DEF IndexOK
  <2>3. ASSUME NEW j \in head .. tail - 1
        PROVE  j \in DOMAIN Array(n) /\ Array(n)[j] = buffer[j]
    <3>1. j \in 0 .. Room(n) - 1 /\ j < RealLength /\ Cell(j) = j
      BY <1>1, <1>2, <2>1 DEF IndexOK, RealLength, Cell
    <3> QED BY <1>4, <3>1 DEF Array
  <2> QED BY <2>1, <2>2, <2>3
<1>5. CASE ~MustGrow(n)
  <2>1. tail + n < Room(n) /\ n <= Right(n)
    BY <1>1, <1>2, <1>3, <1>5 DEF IndexOK
  <2>2. ASSUME NEW j \in head .. tail - 1
        PROVE  j \in DOMAIN Array(n) /\ Array(n)[j] = buffer[j]
    BY <1>1, <1>5, <2>2 DEF Array, TypeOK, IndexOK
  <2> QED BY <1>5, <2>1, <2>2
<1> QED BY <1>4, <1>5

LEMMA WriteOrder ==
  ASSUME TypeOK, StretchInv, LastInv, NEW n \in 1 .. MaxPacket, Write(n)
  PROVE  StretchInv' /\ LastInv'
<1>1. LastInv'
  BY DEF Write, LastInv
<1>2. ASSUME intact'
      PROVE  /\ head' <= tail' /\ tail' - head' = written' - flushed'
             /\ \A j \in head' .. tail' - 1 : buffer'[j] = flushed' + (j - head') + 1
  <2>1. intact /\ (head = 0 \/ (~MustGrow(n) /\ n <= Right(n)))
    BY <1>2 DEF Write
  <2>2. /\ tail + n < Room(n) /\ n <= Right(n)
        /\ \A j \in head .. tail - 1 : j \in DOMAIN Array(n) /\ Array(n)[j] = buffer[j]
        /\ MustGrow(n) => head = 0
    BY <2>1, WriteBehind
  <2>3. n \in Nat /\ IndexOK /\ Room(n) \in Nat \ {0}
    BY StreamAssumption, RoomBounds DEF TypeOK, IndexOK
  <2>4. head' = head
    BY <2>2 DEF Write
  <2>5. tail' = tail + n
    <3>1. tail + n \in Nat /\ tail + n < Room(n)
      BY <2>2, <2>3 DEF IndexOK
    <3>2. (tail + n) % Room(n) = tail + n
      BY <2>3, <3>1, Wrapped
    <3> QED BY <3>2 DEF Write, NewTail
  <2>6. /\ head <= tail /\ tail - head = written - flushed
        /\ \A j \in head .. tail - 1 : buffer[j] = flushed + (j - head) + 1
    BY <2>1 DEF StretchInv
  <2>7. written' = written + n /\ flushed' = flushed
    BY DEF Write
  <2>8. ASSUME NEW j \in head .. tail + n - 1
        PROVE  buffer'[j] = flushed + (j - head) + 1
    <3>1. j \in 0 .. Room(n) - 1
      BY <2>2, <2>3 DEF IndexOK
    <3>2. buffer'[j] = ByteFor(n, j)
      BY <3>1 DEF Write
    <3>3. ~(head <= tail /\ n > Right(n))
      <4>1. Right(n) \in Int
        BY <2>3 DEF Right, IndexOK
      <4> QED BY <2>2, <2>3, <4>1
    <3>4. CASE j \in tail .. tail + n - 1
      <4>1. ByteFor(n, j) = written + j - tail + 1
        BY <3>3, <3>4 DEF ByteFor
      <4> QED BY <2>3, <2>6, <3>2, <3>4, <4>1 DEF IndexOK
    <3>5. CASE j \notin tail .. tail + n - 1
      <4>1. j \in head .. tail - 1
        BY <2>3, <3>5 DEF IndexOK
      <4>2. ByteFor(n, j) = Array(n)[j]
        BY <3>3, <3>5 DEF ByteFor
      <4> QED BY <2>2, <2>6, <3>2, <4>1, <4>2
    <3> QED BY <3>4, <3>5
  <2> QED BY <2>3, <2>4, <2>5, <2>6, <2>7, <2>8 DEF IndexOK
<1> QED BY <1>1, <1>2 DEF StretchInv

LEMMA FlushOrder ==
  ASSUME TypeOK, StretchInv, LastInv, NEW k \in 1 .. bufferlength, Flush(k)
  PROVE  StretchInv' /\ LastInv'
<1> SUFFICES ASSUME intact
             PROVE  StretchInv' /\ LastInv'
  BY DEF StretchInv, LastInv, Flush
<1>1. /\ head <= tail /\ tail - head = written - flushed
      /\ \A j \in head .. tail - 1 : buffer[j] = flushed + (j - head) + 1
  BY DEF StretchInv
<1>2. /\ IndexOK /\ k \in Nat /\ RealLength = tail - head /\ k <= tail - head
      /\ bufferlength \in Nat \ {0}
  BY <1>1, StreamAssumption DEF TypeOK, IndexOK, RealLength, Flush
<1>3. /\ flushed' = flushed + k /\ written' = written /\ buffer' = buffer
      /\ last' = [i \in 1 .. k |-> buffer[Cell(i - 1)]]
  BY DEF Flush, Sent
<1>4. LastInv'
  <2>1. Len(last') = k
    BY <1>2, <1>3
  <2>2. ASSUME NEW i \in 1 .. k
        PROVE  last'[i] = flushed + i
    <3>1. Cell(i - 1) = head + i - 1 /\ head + i - 1 \in head .. tail - 1
      BY <1>1, <1>2 DEF Cell, IndexOK
    <3> QED BY <1>1, <1>2, <1>3, <3>1 DEF IndexOK
  <2> QED BY <1>2, <1>3, <2>1, <2>2 DEF LastInv, IndexOK
<1>5. StretchInv'
  <2>1. CASE k = RealLength
    BY <1>1, <1>2, <1>3, <2>1 DEF StretchInv, Flush, IndexOK
  <2>2. CASE k # RealLength
    <3>1. head + k \in Nat /\ head + k < bufferlength /\ head + k <= tail
      BY <1>1, <1>2, <2>2 DEF IndexOK
    <3>2. head' = head + k /\ tail' = tail
      BY <1>2, <2>2, <3>1, Wrapped DEF Flush, NewHead
    <3> QED BY <1>1, <1>2, <1>3, <3>1, <3>2 DEF StretchInv, IndexOK
  <2> QED BY <2>1, <2>2
<1> QED BY <1>4, <1>5

OrderInv == TypeOK /\ StretchInv /\ LastInv

LEMMA OrderInductive == OrderInv /\ [Next]_vars => OrderInv'
<1> SUFFICES ASSUME OrderInv, [Next]_vars PROVE StretchInv' /\ LastInv'
  BY TypeInductive DEF OrderInv
<1>1. CASE UNCHANGED vars
  BY <1>1 DEF OrderInv, StretchInv, LastInv, vars, ring
<1>2. ASSUME Cleanup PROVE StretchInv' /\ LastInv'
  BY <1>2 DEF StretchInv, LastInv, Cleanup
<1> QED
  BY <1>1, <1>2, WriteOrder, FlushOrder DEF Next, FlushOverflow, Closed, OrderInv

LEMMA OrderInitial == Init => OrderInv
  BY TypeInitial DEF OrderInv, Init, StretchInv, LastInv

\* For every length of the ring and of packets, the socket gets what was
\* written, in order, as long as no packet was written behind a partial flush
\* into a ring that had to grow or to wrap.
THEOREM InOrderWhileIntact == Spec => []IntactInOrder
<1>1. OrderInv => IntactInOrder
  <2> SUFFICES ASSUME OrderInv, intact PROVE Contents
    BY DEF IntactInOrder
  <2>1. /\ head <= tail /\ tail - head = written - flushed
        /\ \A j \in head .. tail - 1 : buffer[j] = flushed + (j - head) + 1
    BY DEF OrderInv, StretchInv
  <2>2. IndexOK /\ RealLength = tail - head
    BY <2>1 DEF OrderInv, TypeOK, IndexOK, RealLength
  <2>3. ASSUME NEW i \in 0 .. RealLength - 1
        PROVE  buffer[Cell(i)] = flushed + i + 1
    <3>1. Cell(i) = head + i /\ head + i \in head .. tail - 1
      BY <2>1, <2>2 DEF Cell, IndexOK
    <3> QED BY <2>1, <2>2, <3>1 DEF IndexOK
  <2> QED BY <2>1, <2>2, <2>3 DEF OrderInv, LastInv, Contents
<1> QED BY OrderInitial, OrderInductive, <1>1, PTL DEF Spec

-----------------------------------------------------------------------------
(* The refinement *)

LEMMA WritePuts ==
  ASSUME OrderInv, NEW n \in 1 .. MaxPacket, Write(n)
  PROVE  [Stream!Next]_<<Whole(written), Whole(flushed), IF intact THEN last ELSE <<>>>>
<1>1. n \in 1 .. MaxBytes /\ written' = written + n /\ UNCHANGED <<flushed, last>>
  BY StreamAssumption DEF Write, OrderInv, TypeOK
<1>2. CASE intact'
  <2>1. intact BY <1>2 DEF Write
  <2>2. Stream!Put(n) BY <1>1, <1>2, <2>1 DEF Write, Stream!Put, Whole
  <2> QED BY <1>1, <2>2 DEF Stream!Next
<1>3. CASE ~intact'
  <2>1. Stream!Cut BY <1>3 DEF Stream!Cut, Whole
  <2> QED BY <2>1 DEF Stream!Next
<1> QED BY <1>2, <1>3

\* The socket takes the next k bytes: those of the cells from head.
LEMMA FlushTakes ==
  ASSUME OrderInv, NEW k \in 1 .. bufferlength, Flush(k)
  PROVE  [Stream!Next]_<<Whole(written), Whole(flushed), IF intact THEN last ELSE <<>>>>
<1>1. /\ k \in Nat /\ k <= RealLength /\ flushed' = flushed + k
      /\ last' = [i \in 1 .. k |-> buffer[Cell(i - 1)]]
      /\ UNCHANGED <<written, intact>>
  BY StreamAssumption DEF Flush, Sent, OrderInv, TypeOK
<1>2. CASE intact
  <2>1. /\ head <= tail /\ tail - head = written - flushed
        /\ \A j \in head .. tail - 1 : buffer[j] = flushed + (j - head) + 1
    BY <1>2 DEF OrderInv, StretchInv
  <2>2. IndexOK /\ RealLength = tail - head
    BY <2>1 DEF OrderInv, TypeOK, IndexOK, RealLength
  <2>3. k <= written - flushed /\ k \in 1 .. MaxBytes
    BY <1>1, <2>1, <2>2, StreamAssumption DEF OrderInv, TypeOK
  <2>4. last' = Stream!Bytes(flushed, k)
    <3>1. ASSUME NEW i \in 1 .. k PROVE buffer[Cell(i - 1)] = flushed + i
      <4>1. Cell(i - 1) = head + i - 1 /\ head + i - 1 \in head .. tail - 1
        BY <1>1, <2>1, <2>2 DEF Cell, IndexOK
      <4> QED BY <2>1, <2>2, <4>1 DEF IndexOK
    <3> QED BY <1>1, <3>1 DEF Stream!Bytes
  <2>5. Stream!Take(k)
    BY <1>1, <1>2, <2>3, <2>4 DEF Stream!Take, Whole, OrderInv, TypeOK
  <2> QED BY <2>3, <2>5 DEF Stream!Next
<1>3. CASE ~intact
  BY <1>1, <1>3 DEF Whole
<1> QED BY <1>2, <1>3

\* For every length of the ring and of packets, and however much the socket
\* takes at a time, connection and ring are a stream until the ring is intact
\* no more (net/socket/outputstream.cc:14, 79; net/socket/stream.cc:60).
THEOREM OutputImplementsByteStream == Spec => ImplementsByteStream
<1>1. Init => Stream!Init
  BY DEF Init, Stream!Init, Whole
<1>2. OrderInv /\ [Next]_vars
        => [Stream!Next]_<<Whole(written), Whole(flushed), IF intact THEN last ELSE <<>>>>
  <2> SUFFICES ASSUME OrderInv, [Next]_vars
               PROVE  [Stream!Next]_<<Whole(written), Whole(flushed),
                                      IF intact THEN last ELSE <<>>>>
    OBVIOUS
  <2>1. CASE FlushOverflow \/ Closed
    <3>1. Stream!Cut BY <2>1 DEF FlushOverflow, Closed, Cleanup, Stream!Cut, Whole
    <3> QED BY <3>1 DEF Stream!Next
  <2>2. CASE UNCHANGED vars
    BY <2>2 DEF vars, Whole
  <2> QED BY <2>1, <2>2, WritePuts, FlushTakes DEF Next
<1> QED
  BY OrderInitial, OrderInductive, <1>1, <1>2, PTL
     DEF Spec, ImplementsByteStream, Stream!Spec
=============================================================================
