---------------------------- MODULE MCLifeCycle ----------------------------
(* Two threads and the two signals that waitexit sends. *)
EXTENDS LifeCycle

ThreadParts == {"db", "net"}
=============================================================================
