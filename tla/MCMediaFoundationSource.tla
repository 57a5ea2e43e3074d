---------------------- MODULE MCMediaFoundationSource ----------------------
(* Instances of MediaFoundationSource small enough for TLC. *)
EXTENDS MediaFoundationSource

\* Every position, from both ends, and beyond them.
MCOffsets == {-Total - 1, -2} \cup 0..(Total + 1)

\* "frame_seekg(): sets the input position indicator to the frame position"
\* (doc/istream.md): a seek that goes back from the end by some frames reports the
\* position so many frames before the end (media_foundation_source::seek).
SeeksCountFromTheEnd ==
  answer.way = "end" /\ troubles = 0 => answer.pos = Clamp(Total + answer.off, 0, Total)
=============================================================================
