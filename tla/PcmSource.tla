----------------------------- MODULE PcmSource -----------------------------
(***************************************************************************)
(* The byte source behind an uncompressed (WAV or AIFF) input stream: a    *)
(* file, seen through a subview that exposes the PCM bytes of one chunk,   *)
(* read in whole frames.  All positions are file offsets; the one piece of *)
(* state, the position of the file descriptor, is kept by the caller.      *)
(***************************************************************************)
EXTENDS Positioning

CONSTANTS
  DataBeg,         \* file offset of the first PCM byte
  NumFrames,       \* frames the header announces
  FileLen,         \* bytes the file really has
  BytesPerSample,
  NumChannels

BytesPerFrame == NumChannels * BytesPerSample
NumBytes      == NumFrames * BytesPerFrame
DataEnd       == DataBeg + NumBytes

ASSUME PcmSourceAssumption ==
  /\ DataBeg \in Nat
  /\ NumFrames \in Nat \ {0}
  /\ FileLen \in Nat
  /\ BytesPerSample \in Nat \ {0}
  /\ NumChannels \in Nat \ {0}

\* Every byte the header announces is in the file.
Intact == DataEnd <= FileLen

\* The bytes of the data chunk the file has.
PcmByte == DataBeg..(Smaller(DataEnd, FileLen) - 1)

-----------------------------------------------------------------------------
\* read(2) behind boost's file_descriptor: the bytes got, -1 when there are none.
FileRead(p, n) ==
  LET avail == Larger(FileLen - p, 0) IN
  IF Smaller(n, avail) = 0 THEN -1 ELSE Smaller(n, avail)

\* A seek of the view that forgets to stay inside it.
SeekUnclamped(p, off, way) == AnchorOf(p, DataBeg, DataEnd, way) + off

\* subview_device::seek: the file offset it moves to (it reports it minus DataBeg).
SubviewSeek(p, off, way) == AbsolutePosition(p, DataBeg, DataEnd, off, way)

\* A read of the view that is not cut off at the view's end.
ReadUnbounded(p, n) ==
  LET q == SubviewSeek(p, 0, "cur")
      r == FileRead(q, n)
  IN  [got |-> r, from |-> q, pos |-> q + Larger(r, 0)]

\* A read that answers for bytes the file does not have.
ReadPretending(p, n) ==
  LET q == SubviewSeek(p, 0, "cur")
      r == Smaller(n, DataEnd - q)
  IN  [got |-> IF r = 0 THEN -1 ELSE r, from |-> q, pos |-> q + r]

\* subview_source::read: tell() repositions, then the base reads up to the view's end.
SubviewRead(p, n) ==
  LET q == SubviewSeek(p, 0, "cur")
      r == FileRead(q, Smaller(n, DataEnd - q))
  IN  [got |-> r, from |-> q, pos |-> q + Larger(r, 0)]

\* wav_source::read, aiff_source::read: hand out whole frames only.  The file
\* has advanced by all that was read, the cut-off bytes included.
SourceRead(p, n) ==
  LET s == SubviewRead(p, n) IN
  [s EXCEPT !.got = IF @ < 0 THEN @ ELSE @ - (@ % BytesPerFrame)]
=============================================================================
