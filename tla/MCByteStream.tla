---------------------------- MODULE MCByteStream ----------------------------
(* An instance of ByteStream small enough for TLC. *)
EXTENDS ByteStream

MCCalls ==
  {[what |-> "read", n |-> 2], [what |-> "begin", n |-> 2],
   [what |-> "set", n |-> 3], [what |-> "seek", n |-> -1],
   [what |-> "position", n |-> 0], [what |-> "end", n |-> 0]}
=============================================================================
