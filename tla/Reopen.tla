------------------------------- MODULE Reopen -------------------------------
(***************************************************************************)
(* A file written by an output stream and then opened by a WAV or AIFF     *)
(* source: OutputStream and HeaderWalk composed over the file.  The reader *)
(* comes when the writer is gone, whether it closed the file, failed to,   *)
(* or was killed.                                                          *)
(***************************************************************************)
EXTENDS OutputStream

VARIABLES at, pass, info, seen   \* of the reader: see HeaderWalk

reader == <<at, pass, info, seen>>

\* The bytes of a 32-bit field, of SizeBits \div 4 bits here: WAV writes the low
\* byte first, AIFF the high one.  A field half patched has bytes of both values.
Base      == 2^(SizeBits \div 4)
Weight(k) == <<1, Base, Base * Base, Base * Base * Base>>[IF format = "wav" THEN k ELSE 5 - k]

\* A field is its four bytes, and can hold the length of a header.
ASSUME ReopenAssumption ==
  /\ Base \in Nat \ {0}
  /\ 2^SizeBits = Base * (Base * Base * Base)
  /\ 2^SizeBits > 64

Field(p) ==
  IF Len(file) < p + 4 THEN 0
  ELSE LET byte(k) == Weight(k) * ((file[p + k].value \div Weight(k)) % Base)
       IN  byte(1) + byte(2) + byte(3) + byte(4)

Tag(id, length, unit, count) == [id |-> id, length |-> length, unit |-> unit, count |-> count]

\* What the reader meets in a file with this header.  PCM bytes taken for a tag
\* are zeros: an unknown id without a body.
Media ==
  [ kind |-> format, form |-> TRUE, aifc |-> TRUE, len |-> Len(file),
    tags |->
      IF format = "wav"
      THEN [p \in {12, 36} |-> IF p = 12 THEN Tag("fmt", 16, BytesPerFrame, 0)
                                         ELSE Tag("data", Field(40), 0, 0)]
      ELSE [p \in {12, 42} |-> IF p = 12 THEN Tag("COMM", 22, BytesPerFrame, Field(22))
                                         ELSE Tag("SSND", Field(46), 0, 0)],
    junk |-> Tag("else", 0, 0, 0) ]

Itself(f) == f

Walk == INSTANCE HeaderWalk WITH
  Files <- {}, Contents <- Itself, media <- Media, pos <- at, view <- seen

ReopenInit ==
  /\ Init
  /\ at = 0 /\ pass = "form" /\ info = Walk!NoInfo
  /\ seen = [beg |-> 0, end |-> 0]

Writing == Next /\ UNCHANGED reader
Reading == Over /\ UNCHANGED vars /\ Walk!Next

ReopenNext == Writing \/ Reading

ReopenSpec == ReopenInit /\ [][ReopenNext]_<<vars, reader>>

-----------------------------------------------------------------------------
\* What was written is read: a stream closed on a device that worked leaves a
\* file that opens with every frame handed over, and is refused only when there
\* is none (wav_sink.test.cpp and aiff_sink.test.cpp read back what they wrote).
ClosedFileReadsBack ==
  phase = "closed" /\ faults = 0 /\ Fits =>
    /\ Walk!Opened =>
         /\ info = [unit |-> BytesPerFrame, frames |-> handed \div BytesPerFrame]
         /\ \A i \in 1..(seen.end - seen.beg) : file[seen.beg + i].value = i
    /\ Walk!Refused => handed < BytesPerFrame

\* Whatever happened to the writer, a file that opens holds every frame its
\* header speaks of, and they are a prefix of what was handed over, unless the
\* device had failed and the stream went on: then they are still PCM data.
InterruptedFileHasItsFrames ==
  Walk!Opened =>
    /\ seen.end <= Len(file)
    /\ \A i \in seen.beg + 1..seen.end : file[i].field = "pcm"
    /\ faults = 0 => \A i \in 1..(seen.end - seen.beg) : file[seen.beg + i].value = i
=============================================================================
