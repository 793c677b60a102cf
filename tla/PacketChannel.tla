--------------------------- MODULE PacketChannel ---------------------------
(***************************************************************************)
(* What the packet queue of a connection manager promises the threads that *)
(* send to it: packets are taken in the order in which they were sent,     *)
(* each at most once, and one is lost only when the queue grows.  When the *)
(* queue has run into memory that is not its own, the order and what waits *)
(* are no longer promised; at most once still is.                          *)
(***************************************************************************)
EXTENDS Naturals, Sequences, SequencesExt

CONSTANT Packets

VARIABLES
  waiting, taken,   \* packets sent and not taken, packets taken
  broken            \* the queue has used memory that is not its own

vars == <<waiting, taken, broken>>

Init == waiting = <<>> /\ taken = <<>> /\ broken = FALSE

Send(p) ==
  /\ waiting' = Append(waiting, p)
  /\ UNCHANGED taken

\* The queue has no room: growing it costs one of the waiting packets.
SendGrowing(p) ==
  /\ \E k \in DOMAIN waiting : waiting' = Append(RemoveAt(waiting, k), p)
  /\ UNCHANGED taken

Take ==
  /\ waiting # <<>>
  /\ taken' = Append(taken, Head(waiting))
  /\ waiting' = Tail(waiting)

Kept ==
  /\ ~broken
  /\ Take \/ \E p \in Packets : Send(p) \/ SendGrowing(p)
  /\ UNCHANGED broken

\* The queue is broken by this step, or was before; waiting is anything.
Broken ==
  /\ broken' = TRUE
  /\ \/ UNCHANGED taken
     \/ \E p \in Packets :
          /\ \A j \in DOMAIN taken : taken[j] # p
          /\ taken' = Append(taken, p)

Next == Kept \/ Broken

Spec == Init /\ [][Next]_vars
=============================================================================
