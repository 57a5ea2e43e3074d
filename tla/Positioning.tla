---------------------------- MODULE Positioning ----------------------------
(***************************************************************************)
(* The position arithmetic every seekable device of the library shares:    *)
(* absolute_position of iostreams/positioning.h.  Positions are byte       *)
(* offsets; a seek never leaves the range <<beg, end>> it is given.        *)
(***************************************************************************)
EXTENDS Integers

\* std::ios_base::seekdir
Way == {"beg", "cur", "end"}

\* boost::algorithm::clamp
Clamp(p, lo, hi) == IF p < lo THEN lo ELSE IF hi < p THEN hi ELSE p

Smaller(a, b) == IF a <= b THEN a ELSE b
Larger(a, b)  == IF a >= b THEN a ELSE b

AnchorOf(pos, beg, end, way) ==
  CASE way = "beg" -> beg
    [] way = "end" -> end
    [] way = "cur" -> pos

AbsolutePosition(pos, beg, end, off, way) ==
  Clamp(AnchorOf(pos, beg, end, way) + off, beg, end)

\* A byte offset divided by a frame size of type size_t, when that is as wide as the
\* offset: the offset is converted, and a negative one is close to the range of the
\* type before it is divided.
FramesOfOffset(off, frameSize, range) == (off % range) \div frameSize
=============================================================================
