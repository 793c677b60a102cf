--------------------------- MODULE MCOutputStream ---------------------------
(* A small instance of OutputStream. *)
EXTENDS OutputStream
=============================================================================
