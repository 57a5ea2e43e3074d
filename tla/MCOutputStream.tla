--------------------------- MODULE MCOutputStream ---------------------------
(* An instance of OutputStream small enough for TLC. *)
EXTENDS OutputStream

\* "good(): checks if no error has occurred" (doc/ostream.md): an open stream on
\* which the device refused bytes is not good.  tellp syncs the buffer, and
\* whether that worked is not passed on to the stream.
GoodMeansNoError ==
  [][faults' > faults /\ phase = "open" /\ phase' = "open" => ~Good']_vars
=============================================================================
