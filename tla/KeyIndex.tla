------------------------------ MODULE KeyIndex ------------------------------
(***************************************************************************)
(* What a cache promises for the keys whose entries it keeps in order:     *)
(* each key takes at most one record of the pool, no two the same, enters  *)
(* exactly that record in the index, and from then on the index gives it,  *)
(* unchanged, for as long as the key is kept.  Keys may cease to be kept   *)
(* at any time, with what is known of them; for the others nothing changes *)
(* then.                                                                   *)
(***************************************************************************)
EXTENDS Naturals

CONSTANTS Keys, Records

VARIABLES
  kept,     \* the keys in order
  record,   \* their records: pairs of a key and a record
  pending,  \* those that are taken and not entered yet
  named     \* those that the index gives

Init == kept = Keys /\ record = {} /\ pending = {} /\ named = {}

Take(k, i) ==
  /\ k \in kept /\ \A r \in record : r[1] # k /\ r[2] # i
  /\ record' = record \cup {<<k, i>>} /\ pending' = pending \cup {<<k, i>>}
  /\ UNCHANGED <<kept, named>>

Enter(k, i) ==
  /\ <<k, i>> \in pending
  /\ pending' = pending \ {<<k, i>>} /\ named' = named \cup {<<k, i>>}
  /\ UNCHANGED <<kept, record>>

Of(K, R) == {r \in R : r[1] \in K}

\* Some keys are no longer kept.
Drop ==
  /\ kept' \subseteq kept
  /\ record' = Of(kept', record)
  /\ pending' = Of(kept', pending) /\ named' = Of(kept', named)

Next == Drop \/ \E k \in Keys, i \in Records : Take(k, i) \/ Enter(k, i)

Spec == Init /\ [][Next]_<<kept, record, pending, named>>
=============================================================================
