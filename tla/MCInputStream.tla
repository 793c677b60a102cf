--------------------------- MODULE MCInputStream ---------------------------
(* A small instance of InputStream. *)
EXTENDS InputStream
=============================================================================
