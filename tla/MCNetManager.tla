---------------------------- MODULE MCNetManager ----------------------------
(* Small instances of NetManager. *)
EXTENDS NetManager

\* In server mode a slot that is handed out twice is counted twice, so the
\* pool's count_, which nothing reads, drifts; it is followed this far.
CONSTANT FreeDrift
FreeBound == free >= -FreeDrift

\* At most two of these at a time: unread data, a full ring, a reset.
TwoTroubles ==
  Cardinality(full) + Cardinality(unread)
    + Cardinality({p \in Peers : peer[p] \in {"reset", "lost"}}) <= 2
=============================================================================
