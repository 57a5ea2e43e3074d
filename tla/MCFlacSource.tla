---------------------------- MODULE MCFlacSource ----------------------------
(* Instances of FlacSource small enough for TLC. *)
EXTENDS FlacSource

MCOffsets == -(Total + 1)..(Total + 1)

\* "The only way to obtain the exact number of frames is by seeking to the end of
\* stream and retrieving the frame position" (doc/ifstream.md).
EndIsTheNumberOfFrames ==
  answer.way = "end" /\ answer.off = 0 => answer.pos = Total

\* "If the stream reaches the end of file ... the remaining samples in the range
\* will be set to the sample format's neutral element" (doc/istream.md): a read
\* never hands out a frame it has handed out already.
NoFrameTwiceInARead ==
  \A i, j \in 1..Len(got) : i # j => got[i] # got[j]
=============================================================================
