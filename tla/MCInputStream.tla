--------------------------- MODULE MCInputStream ---------------------------
(* Instances of InputStream small enough for TLC. *)
EXTENDS InputStream
=============================================================================
