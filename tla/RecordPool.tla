----------------------------- MODULE RecordPool -----------------------------
(***************************************************************************)
(* What a pool of records in shared memory promises the processes that     *)
(* share it.  The records in use are a sequence of objects: a new object   *)
(* goes to its end, the last one fills the place of one that is deleted,   *)
(* and nothing else is done between the two ends of a deletion.  Only a    *)
(* process that dies meanwhile costs another record: the last one goes     *)
(* instead of the one that was to be deleted.  A pool that is broken, by a *)
(* process that is stopping, promises nothing.                             *)
(***************************************************************************)
EXTENDS Naturals, Sequences

CONSTANT Size

VARIABLES
  held,    \* the objects in the records in use
  made,    \* how many objects there have been
  doomed,  \* the place in held that is being deleted, if there is one
  deaths,  \* how many times a process has died
  broken

vars == <<held, made, doomed, deaths, broken>>

Init ==
  /\ held = <<>> /\ made = 0 /\ doomed = {}
  /\ deaths = 0 /\ broken = FALSE

New ==
  /\ doomed = {} /\ Len(held) < Size
  /\ made' = made + 1 /\ held' = Append(held, made + 1)
  /\ UNCHANGED <<doomed, deaths, broken>>

\* held without its last object, which fills the place i if there is such a
\* place.
Shortened(i) ==
  [k \in 1 .. Len(held) - 1 |-> IF k = i THEN held[Len(held)] ELSE held[k]]

DeleteLast ==
  /\ doomed = {} /\ held # <<>>
  /\ held' = Shortened(Len(held))
  /\ UNCHANGED <<made, doomed, deaths, broken>>

DeleteStart(i) ==
  /\ doomed = {} /\ doomed' = {i}
  /\ UNCHANGED <<held, made, deaths, broken>>

DeleteEnd(i) ==
  /\ doomed = {i} /\ doomed' = {}
  /\ held' = Shortened(i)
  /\ UNCHANGED <<made, deaths, broken>>

Death ==
  /\ deaths' = deaths + 1
  /\ UNCHANGED <<held, made, doomed, broken>>

\* The process that deletes is the one that dies.
DeathHalfWay ==
  /\ doomed # {} /\ doomed' = {}
  /\ deaths' = deaths + 1 /\ held' = Shortened(Len(held))
  /\ UNCHANGED <<made, broken>>

Breaks == broken' = TRUE

Next ==
  \/ New \/ DeleteLast
  \/ \E i \in 1 .. Len(held) - 1 : DeleteStart(i) \/ DeleteEnd(i)
  \/ Death \/ DeathHalfWay \/ Breaks

Spec == Init /\ [][Next]_vars
=============================================================================
