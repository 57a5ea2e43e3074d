------------------------- MODULE AssetReaderSource -------------------------
(***************************************************************************)
(* The source of iTunes tracks on iOS, over AVAssetReader.  A reader plays *)
(* from where it was started to the end of its track, so every seek starts *)
(* another; behind the end of the track the source goes on with silence    *)
(* until its position is the number of frames it announced.                *)
(*                                                                         *)
(* An mp3 may begin with frames that are to be left out (576 of them).     *)
(* Opening one finds out by comparing two readers, of which only one skips *)
(* them.  The position counts the frames that are left out, the number of  *)
(* frames does not.                                                        *)
(*                                                                         *)
(* The reader is external: it hands out the frames of the track in order.  *)
(* A frame is identified by its index in the track.                        *)
(***************************************************************************)
EXTENDS Positioning, Sequences

CONSTANTS
  Duration,     \* frames of the track by its duration
  Tracks,       \* frames a track may really have
  Leader,       \* skip_mp3_leader_frames
  Examined,     \* max_comparison_granules: how many leaders are compared at most
  FrameSize,    \* bytes of a frame
  OffsetRange,  \* size of a byte offset's type, a power of two
  Requests,     \* sizes of the reads, in frames
  Offsets       \* offsets of the seeks, in frames

AssetReaderSourceAssumption ==
  /\ Duration \in Nat /\ Leader \in Nat \ {0} /\ Leader < Duration
  /\ Tracks \subseteq Nat
  /\ Examined \in Nat
  /\ FrameSize \in Nat \ {0}
  /\ OffsetRange \in Nat /\ OffsetRange \div FrameSize > 4 * Duration
  /\ Requests \subseteq Nat
  /\ Offsets \subseteq Int

Silence == -1   \* no frame of the track

VARIABLES
  mp3,          \* isMp3
  track,        \* frames of this track
  differs,      \* the frame in which the compared readers differ, or none
  examined,     \* m_trimOffsetDetermined, and the frames compared until it is
  trim,         \* m_trimOffsetFrames
  exhausted,    \* m_sourceExhausted
  decoded,      \* the frame the reader hands out next
  pos,          \* m_framePos
  got, answer   \* result of the last call, a read or a seek

trackVars == <<mp3, track, differs>>
vars == <<trackVars, examined, trim, exhausted, decoded, pos, got, answer>>

\* No seek since the last read; the comparison is done.
NoSeek == [way |-> "none", off |-> 0, pos |-> 0]
Done == -1

TypeOK ==
  /\ mp3 \in BOOLEAN /\ track \in Tracks /\ differs \in 0..track
  /\ examined \in Nat \cup {Done}
  /\ trim \in {0, Leader}
  /\ exhausted \in BOOLEAN
  /\ decoded \in Nat /\ pos \in Nat
  /\ answer.pos \in Nat

-----------------------------------------------------------------------------
(* What a read returns, for the reader of the source and for those of the  *)
(* comparison: count frames of the track, and by how many the position     *)
(* advances when the reader is exhausted.                                  *)

Delivered(from, size) == IF from >= track THEN 0 ELSE Smaller(size, track - from)

\* Nothing behind the number of frames; a position behind it is taken back to it.
Advance(at, total, count, size) ==
  IF total > at THEN Smaller(total - at - count, size - count) ELSE 0

\* The loop condition asks for the next buffer before it looks at the request, so
\* that the end of the track shows in the read that reaches it.
Exhausts(from, size) == from + Delivered(from, size) >= track

ReadCount(at, from, total, was, size) ==
  LET count == Delivered(from, size) IN
  count + IF was \/ Exhausts(from, size) THEN Advance(at, total, count, size) ELSE 0

-----------------------------------------------------------------------------
NumFrames == Duration - trim

\* A reader started at a target, counted behind the leader and kept inside the track.
Start(target, skip) == Clamp(target + skip, 0, Duration - 1)

Init ==
  /\ mp3 \in BOOLEAN /\ track \in Tracks /\ differs \in {Smaller(Leader, track), track}
  /\ examined = IF mp3 THEN 0 ELSE Done
  /\ trim = 0 /\ exhausted = FALSE
  /\ decoded = 0 /\ pos = 0
  /\ got = <<>> /\ answer = NoSeek

Opened == examined = Done

\* The source's own reader is started when the comparison is done.
Determined(skip) ==
  /\ examined' = Done /\ trim' = skip
  /\ pos' = Start(0, skip) /\ decoded' = Start(0, skip)
  /\ exhausted' = FALSE

\* A comparison that does not count what it has compared.
CompareUncounted ==
  LET count == ReadCount(pos, decoded, Duration, exhausted, Leader) IN
  /\ ~Opened
  /\ IF differs < track /\ differs < decoded + Leader
     THEN Determined(Leader)
     ELSE /\ pos' = pos + count
          /\ decoded' = decoded + Delivered(decoded, Leader)
          /\ exhausted' = Exhausts(decoded, Leader)
          /\ UNCHANGED <<trim, examined>>
  /\ UNCHANGED <<trackVars, got, answer>>

\* One round compares what the two readers return for one leader; the precise one
\* is at pos while the comparison lasts.  Its silence is compared as well.
CompareRound ==
  LET count == ReadCount(pos, decoded, Duration, exhausted, Leader) IN
  /\ ~Opened
  /\ \/ /\ examined >= Examined * Leader
        /\ Determined(0)
     \/ /\ examined < Examined * Leader
        /\ IF differs < track /\ differs < decoded + Leader
           THEN Determined(Leader)
           ELSE /\ examined' = examined + count
                /\ pos' = pos + count
                /\ decoded' = decoded + Delivered(decoded, Leader)
                /\ exhausted' = Exhausts(decoded, Leader)
                /\ UNCHANGED trim
  /\ UNCHANGED <<trackVars, got, answer>>

-----------------------------------------------------------------------------
Read(size) ==
  LET count == Delivered(decoded, size)
      total == ReadCount(pos, decoded, NumFrames, exhausted, size)
  IN
  /\ Opened
  /\ got' = [i \in 1..total |-> IF i <= count THEN decoded + i - 1 ELSE Silence]
  /\ pos' = pos + total
  /\ decoded' = decoded + count
  /\ exhausted' = (exhausted \/ Exhausts(decoded, size))
  /\ answer' = NoSeek
  /\ UNCHANGED <<trackVars, examined, trim>>

\* An offset of nothing from the current position rebuilds nothing; any other seek
\* starts another reader, and reports where it was asked to go.
Tell ==
  /\ Opened
  /\ answer' = [way |-> "cur", off |-> 0, pos |-> pos]
  /\ got' = <<>>
  /\ UNCHANGED <<trackVars, examined, trim, exhausted, decoded, pos>>

Seek(off, way) ==
  LET frames == FramesOfOffset(off * FrameSize, FrameSize, OffsetRange)
      target == AbsolutePosition(pos, 0, NumFrames, frames, way)
  IN
  /\ Opened
  /\ ~(off = 0 /\ way = "cur")
  /\ pos' = Start(target, trim) /\ decoded' = Start(target, trim)
  /\ exhausted' = FALSE
  /\ answer' = [way |-> way, off |-> off, pos |-> target]
  /\ got' = <<>>
  /\ UNCHANGED <<trackVars, examined, trim>>

-----------------------------------------------------------------------------
Next ==
  \/ CompareRound
  \/ \E n \in Requests : Read(n)
  \/ Tell
  \/ \E off \in Offsets, way \in Way : Seek(off, way)

Spec == Init /\ [][Next]_vars /\ WF_vars(CompareRound)

-----------------------------------------------------------------------------
(* Correctness.                                                            *)

\* Until the track is exhausted the position is the reader's; after it, silence
\* takes it no further than the number of frames announced (Impl::m_framePos,
\* which a read advances and a seek sets together with the reader).
ReaderIsAtPosition ==
  Opened =>
    /\ ~exhausted => decoded = pos
    /\ pos <= Larger(NumFrames, Larger(track, Duration))

\* The comparison of an mp3 ends, but for one whose readers do not differ and
\* which is shorter than what is to be compared: its reader returns nothing any
\* more, and the loop of create_impl counts what was returned.
OpeningEnds ==
  ~Opened ~> (Opened \/ (differs = track /\ Larger(track, Duration) < Examined * Leader))
=============================================================================
