----------------------------- MODULE ByteStream -----------------------------
(***************************************************************************)
(* What a socket stream promises: the bytes put in at one end come out at  *)
(* the other in the order they were put in, each once, until the stream is *)
(* cut and starts anew.  The k-th byte of a connection is written as k.    *)
(***************************************************************************)
EXTENDS Naturals

CONSTANT MaxBytes  \* how many bytes one connection carries at most

VARIABLES
  sent,  \* number of bytes put in
  got,   \* number of bytes taken out
  last   \* the bytes the last operation at the far end handed out

Bytes(from, n) == [i \in 1..n |-> from + i]

Init == sent = 0 /\ got = 0 /\ last = <<>>

\* n more bytes are put in.
Put(n) == sent + n <= MaxBytes /\ sent' = sent + n /\ UNCHANGED <<got, last>>

\* The next n bytes are handed out, and taken out or left in.
Take(n) == got + n <= sent /\ last' = Bytes(got, n) /\ got' = got + n
           /\ UNCHANGED sent
Look(n) == got + n <= sent /\ last' = Bytes(got, n) /\ UNCHANGED <<sent, got>>

\* The next n bytes are taken out unseen.
Drop(n) == got + n <= sent /\ got' = got + n /\ UNCHANGED <<sent, last>>

\* The connection is closed; its place is used by a new one.
Cut == sent' = 0 /\ got' = 0 /\ last' = <<>>

Next == \/ \E n \in 1..MaxBytes : Put(n) \/ Take(n) \/ Look(n) \/ Drop(n)
        \/ Cut

Spec == Init /\ [][Next]_<<sent, got, last>>
=============================================================================
