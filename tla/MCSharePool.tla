---------------------------- MODULE MCSharePool ----------------------------
(* Small instances of SharePool: the service and one or two of its users. *)
EXTENDS SharePool

CONSTANTS p1, p2, p3
=============================================================================
