-------------------------- MODULE InputStreamProofs --------------------------
(* Proofs about InputStream, for every length of the ring and of packets,   *)
(* and any cut of the bytes into receives.                                  *)
EXTENDS InputStream, TLAPS

\* The second receive of a fill() starts at the front, with head behind it.
SecondInv == step = "second" => tail = 0 /\ head > 1

StreamInv == TypeOK /\ InOrder /\ SecondInv

LEMMA Half == ASSUME NEW n \in Nat
              PROVE  n \div 2 \in Nat /\ 2 * (n \div 2) <= n
  OBVIOUS

LEMMA Wrapped ==
  ASSUME NEW n \in Nat, NEW k \in Nat \ {0}, n <= k
  PROVE  n % k = IF n = k THEN 0 ELSE n
  OBVIOUS

\* Subtracts one round, which is all that head and tail ever need.
LEMMA WrappedOnce ==
  ASSUME NEW k \in Nat \ {0}, NEW n \in Nat, k <= n, n < 2 * k
  PROVE  n % k = n - k
  OBVIOUS

LEMMA CellInside ==
  ASSUME TypeOK, NEW i \in 0 .. RealLength - 1
  PROVE  Cell(i) \in 0 .. bufferlength - 1
  BY DEF TypeOK, Cell, RealLength

LEMMA LengthFits ==
  ASSUME TypeOK
  PROVE  RealLength \in 0 .. bufferlength - 1
  BY StreamAssumption DEF TypeOK, RealLength

-----------------------------------------------------------------------------
(* What one receive does to the ring *)

\* A receive takes something, at most what is there and what is free, and
\* less than is free only if it takes all there is.
LEMMA CountBounds ==
  ASSUME TypeOK, NEW free \in Nat, Pending > 0, free > 0
  PROVE  /\ Count(free) \in 1 .. free
         /\ received + Count(free) \in 0 .. sent
         /\ Count(free) # free => received + Count(free) = sent
  BY StreamAssumption DEF TypeOK, Count, Pending

\* The free cells from tail on, to the end of the array or up to head.
FreeCells(free) ==
  \/ head <= tail /\ tail + free <= bufferlength
     /\ (head > 0 \/ tail + free < bufferlength)
  \/ head > tail /\ tail + free < head

LEMMA TailMoves ==
  ASSUME TypeOK, NEW n \in Nat \ {0}, FreeCells(n), head' = head,
         bufferlength' = bufferlength, tail' = (tail + n) % bufferlength
  PROVE  /\ tail' = IF tail + n = bufferlength THEN 0 ELSE tail + n
         /\ tail' \in 0 .. bufferlength - 1
         /\ RealLength' = RealLength + n
<1>1. /\ bufferlength \in Nat \ {0} /\ tail + n \in Nat /\ tail + n <= bufferlength
      /\ head \in 0 .. bufferlength - 1 /\ tail \in 0 .. bufferlength - 1
  BY StreamAssumption DEF TypeOK, FreeCells
<1>2. tail' = IF tail + n = bufferlength THEN 0 ELSE tail + n
  BY <1>1, Wrapped
<1>3. tail' \in 0 .. bufferlength - 1
  BY <1>1, <1>2
<1>4. RealLength' = RealLength + n
  BY <1>1, <1>2 DEF FreeCells, RealLength
<1> QED BY <1>2, <1>3, <1>4

\* Where the cells of the content are, and the cells behind it.
LEMMA CellsApart ==
  ASSUME TypeOK, NEW n \in Nat \ {0}, FreeCells(n),
         NEW i \in 0 .. RealLength + n - 1
  PROVE  /\ i < RealLength => Cell(i) \notin tail .. tail + n - 1
         /\ i >= RealLength => Cell(i) = tail + (i - RealLength)
         /\ Cell(i) \in 0 .. bufferlength - 1
<1>1. /\ bufferlength \in Nat \ {0} /\ tail + n \in Nat
      /\ head \in 0 .. bufferlength - 1 /\ tail \in 0 .. bufferlength - 1
  BY StreamAssumption DEF TypeOK
<1>2. CASE head <= tail
  <2>1. RealLength = tail - head BY <1>2 DEF RealLength
  <2>2. tail + n <= bufferlength BY <1>1, <1>2 DEF FreeCells
  <2>3. i \in Nat /\ head + i < tail + n BY <1>1, <1>2, <2>1
  <2>4. Cell(i) = head + i BY <1>1, <2>2, <2>3 DEF Cell
  <2> QED BY <1>1, <1>2, <2>1, <2>2, <2>3, <2>4
<1>3. CASE head > tail
  <2>1. RealLength = bufferlength - head + tail BY <1>1, <1>3 DEF RealLength
  <2>2. tail + n < head BY <1>1, <1>3 DEF FreeCells
  <2>3. i \in Nat /\ head + i < bufferlength + tail + n BY <1>1, <1>3, <2>1
  <2>4. Cell(i) = IF head + i < bufferlength THEN head + i ELSE head + i - bufferlength
    BY DEF Cell
  <2> QED BY <1>1, <1>3, <2>1, <2>2, <2>3, <2>4
<1> QED BY <1>1, <1>2, <1>3

\* A receive appends to the content.
LEMMA ReceiveKeeps ==
  ASSUME StreamInv, NEW free \in Nat, NEW then \in {"second", "grow"},
         Receive(tail, free, then), FreeCells(free),
         edge' \in BOOLEAN, stalled' \in BOOLEAN,
         then = "second" => head > 1 /\ head <= tail /\ tail + free = bufferlength
  PROVE  StreamInv' /\ (step' = "idle" => sent' = received')
<1> DEFINE n == Count(free)
<1>1. /\ n \in 1 .. free /\ received + n \in 0 .. sent
      /\ n # free => received + n = sent
  BY CountBounds DEF Receive, StreamInv
<1>2. /\ buffer' = Stored(buffer, tail, n) /\ received' = received + n
      /\ tail' = (tail + n) % bufferlength
      /\ step' = (IF n = free THEN then ELSE "idle")
      /\ bufferlength' = bufferlength /\ head' = head /\ sent' = sent
      /\ got' = got /\ last' = last
  BY DEF Receive, reader
<1> HIDE DEF n
<1>3. n \in Nat \ {0} /\ FreeCells(n) /\ TypeOK
  <2>1. TypeOK BY DEF StreamInv
  <2>2. head \in Nat /\ tail \in Nat /\ bufferlength \in Nat BY <2>1 DEF TypeOK
  <2>3. n \in Nat \ {0} /\ n <= free BY ONLY <1>1, free \in Nat
  <2>4. FreeCells(n) BY ONLY <2>2, <2>3, FreeCells(free), free \in Nat DEF FreeCells
  <2> QED BY <2>1, <2>3, <2>4
<1>4. /\ tail' = IF tail + n = bufferlength THEN 0 ELSE tail + n
      /\ tail' \in 0 .. bufferlength - 1 /\ RealLength' = RealLength + n
  BY <1>2, <1>3, TailMoves
<1>5. buffer' \in [0 .. bufferlength - 1 -> 0 .. MaxBytes]
  <2>1. DOMAIN buffer = 0 .. bufferlength - 1 BY <1>3 DEF TypeOK
  <2>2. ASSUME NEW i \in 0 .. bufferlength - 1, i \in tail .. tail + n - 1
        PROVE  received + i - tail + 1 \in 0 .. MaxBytes
    BY <1>1, <1>3, <2>2, StreamAssumption DEF TypeOK
  <2>3. ASSUME NEW i \in 0 .. bufferlength - 1 PROVE buffer[i] \in 0 .. MaxBytes
    BY <1>3 DEF TypeOK
  <2> QED BY <1>2, <2>1, <2>2, <2>3 DEF Stored
<1>6. TypeOK'
  <2>1. step' \in {"idle", "second", "grow"} BY <1>2
  <2>2. /\ received' \in 0 .. sent' /\ got' \in 0 .. received'
    BY <1>1, <1>2, <1>3 DEF TypeOK
  <2> QED BY <1>2, <1>3, <1>4, <1>5, <2>1, <2>2 DEF TypeOK
<1>7. InOrder'
  <2>1. RealLength = received - got
        /\ \A i \in 0 .. RealLength - 1 : buffer[Cell(i)] = got + i + 1
    BY DEF StreamInv, InOrder
  <2>2. RealLength' = received' - got'
    BY <1>1, <1>2, <1>3, <1>4, <2>1 DEF TypeOK
  <2>3. ASSUME NEW i \in 0 .. RealLength + n - 1
        PROVE  buffer'[Cell(i)] = got + i + 1
    <3>1. /\ i < RealLength => Cell(i) \notin tail .. tail + n - 1
          /\ i >= RealLength => Cell(i) = tail + (i - RealLength)
          /\ Cell(i) \in 0 .. bufferlength - 1
      BY <1>3, CellsApart
    <3>2. buffer'[Cell(i)] = IF Cell(i) \in tail .. tail + n - 1
                             THEN received + Cell(i) - tail + 1 ELSE buffer[Cell(i)]
      BY <1>2, <1>3, <3>1 DEF Stored, TypeOK
    <3>3. RealLength \in Nat BY <1>3, LengthFits DEF TypeOK
    <3>4. CASE i < RealLength
      BY <2>1, <3>1, <3>2, <3>3, <3>4
    <3>5. CASE i >= RealLength
      <4>1. Cell(i) \in tail .. tail + n - 1
        BY <1>3, <3>1, <3>3, <3>5 DEF TypeOK
      <4>2. buffer'[Cell(i)] = received + (i - RealLength) + 1
        BY <1>3, <3>1, <3>2, <3>3, <3>5, <4>1 DEF TypeOK
      <4> QED BY <1>3, <2>1, <3>3, <4>2 DEF TypeOK
    <3> QED BY <3>3, <3>4, <3>5
  <2>4. ASSUME NEW i \in 0 .. RealLength' - 1 PROVE buffer'[Cell(i)] = got' + i + 1
    <3>1. got' = got /\ RealLength' = RealLength + n BY <1>2, <1>4
    <3>2. i \in 0 .. RealLength + n - 1
      <4>1. RealLength \in Nat BY <1>3, LengthFits DEF TypeOK
      <4> QED BY <1>3, <3>1, <4>1
    <3>3. buffer'[Cell(i)] = got + i + 1 BY <2>3, <3>2
    <3> QED BY <3>1, <3>3
  <2>5. \A i \in 0 .. RealLength' - 1 : (buffer[Cell(i)])' = buffer'[Cell(i)]
    BY <1>2 DEF Cell
  <2> QED BY <2>2, <2>4, <2>5 DEF InOrder
<1>8. SecondInv'
  BY <1>1, <1>2, <1>4 DEF SecondInv
<1>9. step' = "idle" => sent' = received'
  BY <1>1, <1>2
<1> QED BY <1>6, <1>7, <1>8, <1>9 DEF StreamInv

\* Growing puts the content at the front and the rest of the socket behind it.
LEMMA GrowKeeps ==
  ASSUME StreamInv, FillGrow PROVE StreamInv' /\ received' = sent'
<1> DEFINE length == Grown(Pending + 1)
<1>1. /\ bufferlength \in Nat \ {0} /\ Pending \in Nat \ {0}
      /\ bufferlength >= BufferLength /\ bufferlength < BufferLengthMax
      /\ bufferlength + Pending + 1 <= BufferLengthMax
      /\ received \in Nat /\ got \in 0 .. received /\ received + Pending = sent
      /\ sent \in 0 .. MaxBytes
  BY StreamAssumption DEF StreamInv, TypeOK, FillGrow, Pending
<1>2. /\ bufferlength' = length /\ head' = 0 /\ tail' = RealLength + Pending
      /\ buffer' = Stored(Unrolled(length), RealLength, Pending)
      /\ received' = sent /\ sent' = sent /\ got' = got /\ last' = last
      /\ step' = "idle" /\ edge' = edge /\ stalled' = stalled
  BY DEF FillGrow, reader
<1>3. /\ length \in Nat /\ length >= bufferlength + Pending + 1
      /\ 2 * length < 3 * BufferLengthMax
  <2>1. bufferlength \div 2 \in Nat /\ 2 * (bufferlength \div 2) <= bufferlength
    BY <1>1, Half
  <2> QED BY <1>1, <2>1, StreamAssumption DEF Grown
<1> HIDE DEF length
<1>4. RealLength \in 0 .. bufferlength - 1 /\ RealLength = received - got
      /\ \A i \in 0 .. RealLength - 1 : buffer[Cell(i)] = got + i + 1
  BY LengthFits DEF StreamInv, InOrder
<1>5. RealLength' = RealLength + Pending
  <2>1. RealLength' = IF head' <= tail' THEN tail' - head' ELSE bufferlength' - head' + tail'
    BY DEF RealLength
  <2> QED BY <1>1, <1>2, <1>4, <2>1
<1>6. ASSUME NEW i \in 0 .. length - 1
      PROVE  buffer'[i] = IF i < RealLength THEN got + i + 1
                          ELSE IF i < RealLength + Pending THEN got + i + 1 ELSE NoByte
  <2>1. buffer'[i] = IF i \in RealLength .. RealLength + Pending - 1
                     THEN received + i - RealLength + 1
                     ELSE IF i < RealLength THEN buffer[Cell(i)] ELSE NoByte
    BY <1>2, <1>3 DEF Stored, Unrolled
  <2>2. i < RealLength => buffer[Cell(i)] = got + i + 1
    BY <1>3, <1>4
  <2>3. CASE i < RealLength BY <1>1, <1>3, <1>4, <2>1, <2>2, <2>3
  <2>4. CASE i >= RealLength BY <1>1, <1>3, <1>4, <2>1, <2>4
  <2> QED BY <1>3, <1>4, <2>3, <2>4
<1>7. TypeOK'
  <2>1. buffer' = [i \in 0 .. length - 1 |-> buffer'[i]]
    BY <1>2, <1>3 DEF Stored, Unrolled
  <2>2. ASSUME NEW i \in 0 .. length - 1 PROVE buffer'[i] \in 0 .. MaxBytes
    BY <1>1, <1>3, <1>4, <1>6, StreamAssumption DEF NoByte
  <2>3. buffer' \in [0 .. bufferlength' - 1 -> 0 .. MaxBytes] BY <1>2, <2>1, <2>2
  <2>4. head' \in 0 .. bufferlength' - 1 /\ tail' \in 0 .. bufferlength' - 1
    BY <1>1, <1>2, <1>3, <1>4
  <2>5. /\ bufferlength' \in Nat /\ bufferlength' >= BufferLength
        /\ 2 * bufferlength' < 3 * BufferLengthMax
    BY <1>1, <1>2, <1>3, StreamAssumption
  <2>6. received' \in 0 .. sent' /\ got' \in 0 .. received' /\ sent' \in 0 .. MaxBytes
    BY <1>1, <1>2
  <2>7. last' \in Seq(0 .. MaxBytes) /\ edge' \in BOOLEAN /\ stalled' \in BOOLEAN
    BY <1>2 DEF StreamInv, TypeOK
  <2> QED BY <1>2, <2>3, <2>4, <2>5, <2>6, <2>7 DEF TypeOK
<1>8. InOrder'
  <2>1. RealLength' = received' - got' BY <1>1, <1>2, <1>4, <1>5
  <2>2. ASSUME NEW i \in 0 .. RealLength' - 1
        PROVE  (buffer[Cell(i)])' = got' + i + 1
    <3>1. i \in 0 .. length - 1 /\ i < RealLength + Pending
      BY <1>1, <1>3, <1>4, <1>5
    <3>2. (buffer[Cell(i)])' = buffer'[i] BY <1>2, <1>3, <3>1 DEF Cell
    <3> QED BY <1>2, <1>6, <3>1, <3>2
  <2> QED BY <2>1, <2>2 DEF InOrder
<1> QED BY <1>2, <1>7, <1>8 DEF StreamInv, SecondInv

\* The next connection starts with an empty ring, however long it is.
LEMMA CleanupKeeps ==
  ASSUME StreamInv, Cleanup PROVE StreamInv'
<1>1. TypeOK'
  <2>1. /\ bufferlength' = bufferlength /\ buffer' = buffer /\ head' = 0 /\ tail' = 0
        /\ sent' = 0 /\ received' = 0 /\ got' = 0 /\ last' = <<>> /\ step' = "idle"
        /\ edge' = FALSE /\ stalled' = FALSE
    BY DEF Cleanup
  <2>2. /\ bufferlength' \in Nat /\ bufferlength' >= BufferLength
        /\ 2 * bufferlength' < 3 * BufferLengthMax \/ bufferlength' = BufferLength
        /\ buffer' \in [0 .. bufferlength' - 1 -> 0 .. MaxBytes]
    BY <2>1 DEF StreamInv, TypeOK
  <2>3. /\ head' \in 0 .. bufferlength' - 1 /\ tail' \in 0 .. bufferlength' - 1
        /\ sent' \in 0 .. MaxBytes /\ received' \in 0 .. sent' /\ got' \in 0 .. received'
    BY <2>1, <2>2, StreamAssumption
  <2>4. last' \in Seq(0 .. MaxBytes) BY <2>1
  <2> QED BY <2>1, <2>2, <2>3, <2>4 DEF TypeOK
<1>2. RealLength' = 0 /\ received' - got' = 0 BY DEF Cleanup, RealLength
<1>3. InOrder' BY <1>2 DEF InOrder
<1> QED BY <1>1, <1>3 DEF StreamInv, SecondInv, Cleanup

\* Steps that leave the ring alone.
LEMMA IdleKeeps ==
  ASSUME StreamInv, UNCHANGED <<ring, received, got>>,
         sent' \in 0 .. MaxBytes, received' <= sent',
         last' \in Seq(0 .. MaxBytes),
         step' \in {"idle", "grow", step}, edge' \in BOOLEAN, stalled' \in BOOLEAN
  PROVE  StreamInv'
<1>1. /\ buffer' = buffer /\ bufferlength' = bufferlength /\ head' = head
      /\ tail' = tail /\ received' = received /\ got' = got
  BY DEF ring
<1>2. step' \in {"idle", "second", "grow"} /\ (step' = "second" => step = "second")
  BY DEF StreamInv, TypeOK
<1>3. TypeOK' BY <1>1, <1>2 DEF StreamInv, TypeOK
<1>4. InOrder' BY <1>1 DEF StreamInv, InOrder, RealLength, Cell
<1>5. SecondInv' BY <1>1, <1>2 DEF StreamInv, SecondInv
<1> QED BY <1>3, <1>4, <1>5 DEF StreamInv

\* Each case of fill() receives into cells that are free from tail on.
LEMMA FillKeeps ==
  ASSUME StreamInv, Fill PROVE StreamInv'
<1>0. /\ head \in 0 .. bufferlength - 1 /\ tail \in 0 .. bufferlength - 1
      /\ bufferlength \in Nat \ {0} /\ edge \in BOOLEAN /\ stalled \in BOOLEAN
  BY StreamAssumption DEF StreamInv, TypeOK
<1>1. CASE FillFront
  <2>1. Right \in Nat /\ FreeCells(Right)
    BY <1>0, <1>1 DEF FillFront, Receive, Right, FreeCells
  <2>2. Receive(tail, Right, "grow") BY <1>1 DEF FillFront
  <2>3. edge' \in BOOLEAN /\ stalled' \in BOOLEAN BY <1>1 DEF FillFront, Filled
  <2> QED BY <2>1, <2>2, <2>3, ReceiveKeeps
<1>2. CASE FillWrap
  <2>1. bufferlength - tail \in Nat /\ FreeCells(bufferlength - tail)
    BY <1>0, <1>2 DEF FillWrap, FreeCells
  <2> DEFINE then == IF head = 1 THEN "grow" ELSE "second"
  <2>2. then \in {"second", "grow"} /\ (then = "second" => head > 1)
    BY <1>0, <1>2 DEF FillWrap
  <2>3. Receive(tail, bufferlength - tail, then) BY <1>2 DEF FillWrap
  <2>4. tail + (bufferlength - tail) = bufferlength /\ head <= tail
    BY <1>0, <1>2 DEF FillWrap
  <2>5. edge' \in BOOLEAN /\ stalled' \in BOOLEAN BY <1>2 DEF FillWrap, Filled
  <2> HIDE DEF then
  <2> QED BY <2>1, <2>2, <2>3, <2>4, <2>5, ReceiveKeeps
<1>3. CASE FillSecond
  <2>1. tail = 0 /\ head > 1 BY <1>3 DEF FillSecond, StreamInv, SecondInv
  <2>2. head - 1 \in Nat /\ FreeCells(head - 1) BY <1>0, <2>1 DEF FreeCells
  <2>3. Receive(tail, head - 1, "grow") BY <1>3, <2>1 DEF FillSecond
  <2>4. edge' \in BOOLEAN /\ stalled' \in BOOLEAN BY <1>0, <1>3 DEF FillSecond
  <2> QED BY <2>2, <2>3, <2>4, ReceiveKeeps
<1>4. CASE FillGap
  <2>1. Gap \in Nat /\ FreeCells(Gap)
    BY <1>0, <1>4 DEF FillGap, Receive, Gap, FreeCells
  <2>2. Receive(tail, Gap, "grow") BY <1>4 DEF FillGap
  <2>3. edge' \in BOOLEAN /\ stalled' \in BOOLEAN BY <1>4 DEF FillGap, Filled
  <2> QED BY <2>1, <2>2, <2>3, ReceiveKeeps
<1>5. CASE FillFull \/ FillNoGap \/ FillBlocked
  <2>1. UNCHANGED <<ring, sent, received, reader>>
    BY <1>5 DEF FillFull, FillNoGap, FillBlocked
  <2>2. step' \in {"idle", "grow", step} /\ edge' \in BOOLEAN /\ stalled' \in BOOLEAN
    BY <1>0, <1>5 DEF FillFull, FillNoGap, FillBlocked, Filled
  <2>3. /\ UNCHANGED <<ring, received, got>> /\ last' \in Seq(0 .. MaxBytes)
        /\ sent' \in 0 .. MaxBytes /\ received' <= sent'
    BY <2>1 DEF StreamInv, TypeOK, reader
  <2> QED BY <2>2, <2>3, IdleKeeps
<1>6. CASE FillGrow BY <1>6, GrowKeeps
<1>7. CASE FillOverflow BY <1>7, CleanupKeeps DEF FillOverflow
<1> QED BY <1>1, <1>2, <1>3, <1>4, <1>5, <1>6, <1>7 DEF Fill

-----------------------------------------------------------------------------
(* The packet code and the peer *)

\* What a read or peek copies are the next bytes of the stream.
LEMMA CopiedIs ==
  ASSUME StreamInv, NEW n \in 1 .. MaxTake, CanTake(n)
  PROVE  /\ Copied(n) = Stream!Bytes(got, n)
         /\ Copied(n) \in Seq(0 .. MaxBytes)
         /\ n \in 1 .. MaxBytes /\ got + n <= received /\ received <= sent
<1>1. /\ n \in Nat /\ got \in Nat /\ received \in Nat /\ sent \in Nat
      /\ got <= received /\ received <= sent /\ sent <= MaxBytes /\ MaxBytes \in Nat
  BY StreamAssumption DEF StreamInv, TypeOK
<1>2. RealLength = received - got /\ 0 < n /\ n <= received - got
  BY DEF CanTake, StreamInv, InOrder
<1>3. ASSUME NEW i \in 1 .. n PROVE buffer[Cell(i - 1)] = got + i
  <2>1. i - 1 \in 0 .. RealLength - 1 BY <1>1, <1>2
  <2>2. buffer[Cell(i - 1)] = got + (i - 1) + 1 BY <2>1 DEF StreamInv, InOrder
  <2> QED BY <1>1, <2>2
<1>4. Copied(n) = Stream!Bytes(got, n)
  BY <1>3 DEF Copied, Stream!Bytes
<1>5. \A i \in 1 .. n : got + i \in 0 .. MaxBytes BY <1>1, <1>2
<1>6. Copied(n) \in Seq(0 .. MaxBytes)
  <2>1. Copied(n) \in [1 .. n -> 0 .. MaxBytes] BY <1>4, <1>5 DEF Stream!Bytes
  <2> QED BY <1>1, <2>1
<1> QED BY <1>1, <1>2, <1>4, <1>6

\* What is behind head after n bytes have gone is what was n further on.
LEMMA AdvanceKeeps ==
  ASSUME StreamInv, NEW n \in 1 .. MaxTake, CanTake(n), Advance(n),
         UNCHANGED <<step, sent, received, edge, stalled>>,
         last' \in Seq(0 .. MaxBytes)
  PROVE  StreamInv'
<1>1. /\ n \in Nat \ {0} /\ got \in Nat /\ received \in Nat /\ got <= received
      /\ bufferlength \in Nat \ {0} /\ head \in 0 .. bufferlength - 1
      /\ tail \in 0 .. bufferlength - 1 /\ step = "idle"
  BY StreamAssumption DEF StreamInv, TypeOK, CanTake
<1>2. RealLength = received - got /\ n <= RealLength
  BY DEF CanTake, StreamInv, InOrder
<1>3. /\ got' = got + n /\ buffer' = buffer /\ bufferlength' = bufferlength
      /\ tail' = tail /\ received' = received
  BY DEF Advance
<1>4. head' = IF head + n < bufferlength THEN head + n ELSE head + n - bufferlength
  <2>1. head + n < 2 * bufferlength BY <1>1, <1>2, LengthFits DEF StreamInv
  <2> DEFINE m == head + n
  <2>2. m \in Nat /\ m < 2 * bufferlength /\ head' = m % bufferlength
    BY <1>1, <2>1 DEF Advance
  <2> HIDE DEF m
  <2>3. m < bufferlength => m % bufferlength = m BY <1>1, <2>2, Wrapped
  <2>4. m >= bufferlength => m % bufferlength = m - bufferlength
    BY <1>1, <2>2, WrappedOnce
  <2>5. head' = IF m < bufferlength THEN m ELSE m - bufferlength
    BY <1>1, <2>2, <2>3, <2>4
  <2> QED BY <1>1, <2>5 DEF m
<1>5. head' \in 0 .. bufferlength - 1 /\ RealLength' = RealLength - n
  <2>1. RealLength \in 0 .. bufferlength - 1 BY LengthFits DEF StreamInv
  <2>2. RealLength' = IF head' <= tail' THEN tail' - head' ELSE bufferlength' - head' + tail'
    BY DEF RealLength
  <2> QED BY <1>1, <1>2, <1>3, <1>4, <2>1, <2>2 DEF RealLength
<1>6. TypeOK'
  <2>1. got' \in 0 .. received' BY <1>1, <1>2, <1>3
  <2> QED BY <1>3, <1>5, <2>1 DEF StreamInv, TypeOK
<1>7. InOrder'
  <2>1. RealLength' = received' - got' BY <1>1, <1>2, <1>3, <1>5
  <2>2. ASSUME NEW i \in 0 .. RealLength' - 1
        PROVE  (buffer[Cell(i)])' = got' + i + 1
    <3>1. i \in Nat /\ n + i \in 0 .. RealLength - 1 BY <1>1, <1>2, <1>5
    <3>2. Cell(i)' = Cell(n + i)
      <4>1. Cell(i)' = IF head' + i < bufferlength THEN head' + i
                       ELSE head' + i - bufferlength
        BY <1>3 DEF Cell
      <4>2. head + (n + i) < 2 * bufferlength
        BY <1>1, <3>1, LengthFits DEF StreamInv
      <4> QED BY <1>1, <1>4, <3>1, <4>1, <4>2 DEF Cell
    <3>3. buffer[Cell(n + i)] = got + (n + i) + 1 BY <3>1 DEF StreamInv, InOrder
    <3> QED BY <1>1, <1>3, <3>1, <3>2, <3>3
  <2> QED BY <2>1, <2>2 DEF InOrder
<1>8. SecondInv' BY <1>1 DEF SecondInv
<1> QED BY <1>6, <1>7, <1>8 DEF StreamInv

LEMMA StreamStep == StreamInv /\ [Next]_vars => StreamInv'
<1> SUFFICES ASSUME StreamInv, [Next]_vars PROVE StreamInv'
  OBVIOUS
<1>1. CASE Fill BY <1>1, FillKeeps
<1>2. CASE Closed BY <1>2, CleanupKeeps DEF Closed
<1>3. ASSUME NEW n \in 1 .. MaxPending, Arrive(n) PROVE StreamInv'
  <2>1. /\ UNCHANGED <<ring, received, got>> /\ last' = last /\ step' = step
        /\ sent' = sent + n /\ sent + n <= MaxBytes /\ edge' = TRUE
        /\ stalled' = stalled
    BY <1>3 DEF Arrive, reader
  <2>2. sent' \in 0 .. MaxBytes /\ received' <= sent'
    BY <2>1, StreamAssumption DEF StreamInv, TypeOK
  <2> QED BY <2>1, <2>2, IdleKeeps DEF StreamInv, TypeOK
<1>4. ASSUME NEW n \in 1 .. MaxTake, Read(n) \/ Skip(n) PROVE StreamInv'
  <2>1. CanTake(n) /\ Advance(n) /\ UNCHANGED <<step, sent, received, edge, stalled>>
    BY <1>4 DEF Read, Skip
  <2>2. last' \in Seq(0 .. MaxBytes)
    BY <1>4, CopiedIs DEF Read, Skip, StreamInv, TypeOK
  <2> QED BY <2>1, <2>2, AdvanceKeeps
<1>5. ASSUME NEW n \in 1 .. MaxTake, Peek(n) PROVE StreamInv'
  <2>1. last' \in Seq(0 .. MaxBytes) BY <1>5, CopiedIs DEF Peek
  <2>2. UNCHANGED <<ring, step, sent, received, got, edge, stalled>> BY <1>5 DEF Peek
  <2> QED BY <2>1, <2>2, IdleKeeps DEF StreamInv, TypeOK
<1>6. CASE UNCHANGED vars
  <2>1. UNCHANGED <<ring, step, sent, received, got, last, edge, stalled>>
    BY <1>6 DEF vars, reader
  <2> QED BY <2>1, IdleKeeps DEF StreamInv, TypeOK
<1> QED BY <1>1, <1>2, <1>3, <1>4, <1>5, <1>6 DEF Next

LEMMA StreamInit == Init => StreamInv
<1> SUFFICES ASSUME Init PROVE StreamInv OBVIOUS
<1>1. TypeOK
  <2>1. buffer \in [0 .. bufferlength - 1 -> 0 .. MaxBytes]
    BY StreamAssumption DEF Init, NoByte
  <2>2. last \in Seq(0 .. MaxBytes) BY DEF Init
  <2>3. /\ bufferlength \in Nat /\ bufferlength = BufferLength
        /\ 0 \in 0 .. bufferlength - 1 /\ 0 \in 0 .. MaxBytes /\ 0 \in 0 .. 0
    BY StreamAssumption DEF Init
  <2>4. /\ head = 0 /\ tail = 0 /\ sent = 0 /\ received = 0 /\ got = 0 /\ step = "idle"
        /\ edge = FALSE /\ stalled = FALSE
    BY DEF Init
  <2>5. /\ bufferlength >= BufferLength /\ head \in 0 .. bufferlength - 1
        /\ tail \in 0 .. bufferlength - 1 /\ sent \in 0 .. MaxBytes
        /\ received \in 0 .. sent /\ got \in 0 .. received
    BY <2>3, <2>4, StreamAssumption
  <2> QED BY <2>1, <2>2, <2>3, <2>4, <2>5 DEF TypeOK
<1>2. RealLength = 0 /\ received - got = 0 BY DEF Init, RealLength
<1> QED BY <1>1, <1>2 DEF StreamInv, InOrder, SecondInv, Init

LEMMA AlwaysStreamInv == Spec => []StreamInv
BY StreamInit, StreamStep, PTL DEF Spec

\* For every length of the ring, head and tail stay inside it through growth
\* and reuse, and it grows to less than one and a half times what is allowed
\* (net/socket/inputstream.cc: fill; net/socket/stream.cc: resize).
THEOREM InputTypeInvariant == Spec => []TypeOK
<1>1. StreamInv => TypeOK BY DEF StreamInv
<1> QED BY <1>1, AlwaysStreamInv, PTL

\* For every length, every cut of the stream into receives and every growth
\* in the middle of a fill(), the ring holds what has been received and not
\* read, in order (net/socket/inputstream.cc: fill, read, skip).
THEOREM InputInOrder == Spec => []InOrder
<1>1. StreamInv => InOrder BY DEF StreamInv
<1> QED BY <1>1, AlwaysStreamInv, PTL

\* When fill() ends with bytes left in the socket and no event to come, it was
\* because the ring was full with head at its front (inputstream.cc: fill).
THEOREM InputLeftOnlyWhenFull == Spec => []LeftOnlyWhenFull
<1>1. Init => LeftOnlyWhenFull
  BY DEF Init, LeftOnlyWhenFull, Pending
<1>2. StreamInv /\ LeftOnlyWhenFull /\ [Next]_vars => LeftOnlyWhenFull'
  <2> SUFFICES ASSUME StreamInv, LeftOnlyWhenFull, [Next]_vars,
                      step' = "idle", sent' - received' > 0, ~edge'
               PROVE  stalled'
    BY DEF LeftOnlyWhenFull, Pending
  <2>0. sent \in Nat /\ received \in Nat /\ Pending = sent - received /\ received <= sent
    BY StreamAssumption DEF StreamInv, TypeOK, Pending
  <2>1. ASSUME NEW free \in Nat, NEW then \in {"second", "grow"}, NEW at,
               Receive(at, free, then)
        PROVE  FALSE
    <3>1. /\ step' = IF Count(free) = free THEN then ELSE "idle"
          /\ received' = received + Count(free) /\ sent' = sent
          /\ Pending > 0 /\ free > 0
      BY <2>1 DEF Receive
    <3>2. Count(free) # free => received + Count(free) = sent
      BY <3>1, CountBounds DEF StreamInv
    <3> QED BY <2>0, <3>1, <3>2
  <2>2. /\ head \in 0 .. bufferlength - 1 /\ tail \in 0 .. bufferlength - 1
        /\ bufferlength \in Nat
    BY DEF StreamInv, TypeOK
  <2>3. CASE FillFront
    <3>1. Right \in Nat BY <2>2 DEF Right
    <3> QED BY <2>1, <2>3, <3>1 DEF FillFront
  <2>4. CASE FillWrap
    <3>1. bufferlength - tail \in Nat BY <2>2
    <3> QED BY <2>1, <2>4, <3>1 DEF FillWrap
  <2>5. CASE FillSecond
    <3>1. head - 1 \in Nat
      BY <2>2, <2>5 DEF FillSecond, StreamInv, SecondInv
    <3> QED BY <2>1, <2>5, <3>1 DEF FillSecond
  <2>6. CASE FillGap
    <3>1. Gap \in Nat BY <2>2, <2>6 DEF FillGap, Gap
    <3> QED BY <2>1, <2>6, <3>1 DEF FillGap
  <2>7. CASE FillGrow BY <2>0, <2>7, GrowKeeps DEF FillGrow
  <2>8. CASE FillBlocked BY <2>0, <2>8 DEF FillBlocked
  <2>9. CASE FillFull \/ FillNoGap BY <2>9 DEF FillFull, FillNoGap
  <2>10. CASE FillOverflow \/ Closed BY <2>10 DEF FillOverflow, Closed, Cleanup
  <2>11. CASE \E n \in 1 .. MaxPending : Arrive(n) BY <2>11 DEF Arrive
  <2>12. ASSUME UNCHANGED <<step, sent, received, edge, stalled>> PROVE stalled'
    BY <2>12 DEF LeftOnlyWhenFull, Pending
  <2> QED
    BY <2>3, <2>4, <2>5, <2>6, <2>7, <2>8, <2>9, <2>10, <2>11, <2>12
       DEF Next, Fill, Read, Peek, Skip, vars
<1> QED BY <1>1, <1>2, AlwaysStreamInv, PTL DEF Spec

\* Sender, socket, ring and packet code together are a byte stream, for every
\* length of the ring: nothing lost, doubled or reordered, and every read and
\* peek copies the next bytes (net/socket/inputstream.cc).
THEOREM InputImplementsByteStream == Spec => ImplementsByteStream
<1>1. Init => Stream!Init BY DEF Init, Stream!Init
<1>2. StreamInv /\ [Next]_vars => [Stream!Next]_<<sent, got, last>>
  <2> SUFFICES ASSUME StreamInv, [Next]_vars
               PROVE  Stream!Next \/ UNCHANGED <<sent, got, last>>
    OBVIOUS
  <2>0. sent \in Nat /\ got \in Nat /\ got <= received /\ received <= sent
        /\ received \in Nat /\ MaxBytes \in Nat
    BY StreamAssumption DEF StreamInv, TypeOK
  <2>1. ASSUME NEW n \in 1 .. MaxPending, Arrive(n) PROVE Stream!Next
    <3>1. n \in 1 .. MaxBytes BY <2>0, <2>1, StreamAssumption DEF Arrive
    <3>2. Stream!Put(n) BY <2>1 DEF Arrive, Stream!Put, reader
    <3> QED BY <3>1, <3>2 DEF Stream!Next
  <2>2. ASSUME NEW n \in 1 .. MaxTake, Read(n) \/ Peek(n) \/ Skip(n)
        PROVE  Stream!Next
    <3>1. /\ Copied(n) = Stream!Bytes(got, n) /\ n \in 1 .. MaxBytes
          /\ got + n <= received /\ received <= sent
      BY <2>2, CopiedIs DEF Read, Peek, Skip
    <3>2. got + n <= sent BY <2>0, <3>1
    <3>3. Stream!Take(n) \/ Stream!Look(n) \/ Stream!Drop(n)
      BY <2>2, <3>1, <3>2
         DEF Read, Peek, Skip, Advance, Stream!Take, Stream!Look, Stream!Drop
    <3> QED BY <3>1, <3>3 DEF Stream!Next
  <2>3. CASE Closed \/ FillOverflow
    BY <2>3 DEF Closed, FillOverflow, Cleanup, Stream!Next, Stream!Cut
  <2>4. CASE FillFront \/ FillWrap \/ FillSecond \/ FillGap
    BY <2>4 DEF FillFront, FillWrap, FillSecond, FillGap, Receive, reader
  <2>5. CASE FillFull \/ FillNoGap \/ FillBlocked \/ FillGrow
    BY <2>5 DEF FillFull, FillNoGap, FillBlocked, FillGrow, reader
  <2>6. CASE UNCHANGED vars BY <2>6 DEF vars, reader
  <2> QED BY <2>1, <2>2, <2>3, <2>4, <2>5, <2>6 DEF Next, Fill
<1> QED BY <1>1, <1>2, AlwaysStreamInv, PTL DEF Spec, ImplementsByteStream, Stream!Spec
=============================================================================
