----------------------- MODULE MediaFoundationSource -----------------------
(***************************************************************************)
(* The Media Foundation source (Windows): the system's source reader hands *)
(* out decoded blocks of a size of its own, seeks only roughly, and fades  *)
(* the first block after a seek in.  The source looks for the block with   *)
(* the frame a read begins at, forward by consuming blocks, backward by    *)
(* seeking further and further back, and discards the faded ones.  A frame *)
(* is identified by its index in the decoded stream, which begins with     *)
(* ReadOffset frames that no client sees.                                  *)
(*                                                                         *)
(* The reader is external.  It lands on the block that holds the frame it  *)
(* is asked for or on one before, and numbers blocks by their time.  A     *)
(* call of it may go wrong: a tick without a block, a block that cannot be *)
(* used (the media type changed, the buffer is not locked), a refused      *)
(* seek.  These are the troubles.                                          *)
(***************************************************************************)
EXTENDS Positioning, Sequences, FiniteSetsExt

CONSTANTS
  Total,         \* m_info.num_frames
  ReadOffset,    \* m_readOffset: frames to skip, those of an AAC encoder
  FirstOffsets,  \* what m_readOffset may be in the process' first source that sought
  DefaultBlock,  \* s_defaultBlockSize
  BlockSizes,    \* sizes a stream's blocks may really have
  Lengths,       \* frames the decoder may really deliver
  Early,         \* blocks a seek of the reader may land before the right one
  Requests,      \* sizes of the reads, in frames
  Offsets,       \* offsets of the seeks, in frames
  FrameSize,     \* bytes of a frame
  OffsetRange,   \* 2^64: what a size_t and the offset of a seek count to
  MaxTroubles    \* bound: calls of the reader that go wrong

ASSUME MediaFoundationAssumption ==
  /\ {Total, DefaultBlock} \subseteq Nat \ {0}
  /\ {ReadOffset, Early, MaxTroubles} \cup FirstOffsets \subseteq Nat
  /\ BlockSizes \subseteq Nat \ {0}
  /\ Lengths \subseteq Nat
  /\ Requests \subseteq Nat
  /\ Offsets \subseteq Int
  /\ FrameSize \in Nat \ {0, 1}
  /\ OffsetRange \in Nat /\ OffsetRange > 4 * FrameSize * (Total + 1)

VARIABLES
  stream,    \* what is given: length, size of the blocks, the first source's offset
  block,     \* the next block the reader hands out
  landed,    \* whether that block is the first after a seek, and faded
  buffer,    \* m_buffer: the frames it is taken for, the first it holds
  pos,       \* m_nominalPos; m_adjustedPos is always ReadOffset behind it
  fadeIn,    \* m_fadeInBlocks
  phase,     \* where in read the call is
  backstep,  \* how far back a backward search is, -1 when there is none
  asked,     \* the frames the read is asked for, adjusted
  rest,      \* those of them not filled yet
  out,       \* the client's buffer, from the frames asked for to what they hold
  got,       \* what the last call handed out, when it was a read
  answer,    \* the last call and the position it reported, when it was a seek
  troubles   \* calls of the reader that went wrong so far

readerVars == <<stream, block, landed>>
searchVars == <<fadeIn, phase, backstep>>
callVars   == <<asked, rest, out>>
vars == <<readerVars, buffer, pos, searchVars, callVars, got, answer, troubles>>

\* No seek since the last read.
NoSeek == [way |-> "none", off |-> 0, pos |-> 0]

FadeInBlocks == 2
FadeInFrames == FadeInBlocks * DefaultBlock

\* Filled with zeros.
Silence == [frame |-> -1, faded |-> FALSE]

\* A block: the frames it is taken for, the first one it really holds.
NoBuffer == [from |-> 0, to |-> 0, first |-> 0, faded |-> FALSE]
FramesOf(b) == b.from..(b.to - 1)
FrameAt(b, f) == [frame |-> b.first + f - b.from, faded |-> b.faded]

StartOf(n) == Smaller(n * stream.size, stream.length)
Blocks     == (stream.length + stream.size - 1) \div stream.size

TypeOK ==
  /\ stream \in [size : BlockSizes, length : Lengths, firstOffset : FirstOffsets]
  /\ block \in 0..Blocks
  /\ landed \in BOOLEAN
  /\ buffer.from \in Nat /\ buffer.to \in Nat /\ buffer.from <= buffer.to
  /\ pos \in 0..Total
  /\ fadeIn \in 0..FadeInBlocks
  /\ phase \in {"idle", "search", "forward", "fill", "done"}
  /\ backstep \in Nat \cup {-1}
  /\ asked \subseteq ReadOffset..(ReadOffset + Total - 1)
  /\ rest \subseteq asked /\ DOMAIN out = asked
  /\ answer.pos \in 0..Total
  /\ troubles \in 0..MaxTroubles

-----------------------------------------------------------------------------
(* The source reader.                                                      *)

\* SetCurrentPosition: the blocks it may land on; at the end there is none.
Landings(f) ==
  LET n == Smaller(f \div stream.size, Blocks) IN Larger(0, n - Early)..n

\* A block numbered by the reader's time only when there is no other before it.
Consumed ==
  LET from == IF buffer = NoBuffer THEN StartOf(block) ELSE buffer.to IN
  [from |-> from, to |-> from + StartOf(block + 1) - StartOf(block),
   first |-> StartOf(block), faded |-> landed]

\* ReadSample hands out a block ...
Block ==
  /\ block < Blocks
  /\ block' = block + 1
  /\ landed' = FALSE
  /\ UNCHANGED <<stream, troubles>>

\* ... or the stream is at its end, or the call goes wrong.
NoBlock ==
  \/ block = Blocks /\ UNCHANGED <<readerVars, troubles>>
  \/ /\ troubles < MaxTroubles
     /\ troubles' = troubles + 1
     /\ \/ UNCHANGED <<block, landed>>
        \/ block < Blocks /\ block' = block + 1 /\ landed' = FALSE
     /\ UNCHANGED stream

-----------------------------------------------------------------------------
(* Seeks of the source itself.                                             *)

\* The smallest position whose fade-in can be skipped: a static of the function,
\* so every source in the process uses the offset of the first.
MinValue == FadeInFrames + stream.firstOffset

\* A seek that leaves the buffer as it is.
SeekKeepingBuffer(f) ==
  LET skip == f >= MinValue IN
  /\ block' \in Landings(IF skip THEN f - FadeInFrames ELSE ReadOffset)
  /\ landed' = TRUE
  /\ fadeIn' = IF skip THEN FadeInBlocks ELSE 0
  /\ UNCHANGED <<stream, buffer>>

\* A seek right to the frame.
SeekWithoutFadeIn(f) ==
  /\ block' \in Landings(f)
  /\ landed' = TRUE
  /\ fadeIn' = 0
  /\ buffer' = NoBuffer
  /\ UNCHANGED stream

SeekInternal(f) ==
  LET skip == f >= MinValue IN
  /\ block' \in Landings(IF skip THEN f - FadeInFrames ELSE ReadOffset)
  /\ landed' = TRUE
  /\ fadeIn' = IF skip THEN FadeInBlocks ELSE 0
  /\ buffer' = NoBuffer
  /\ UNCHANGED stream

SeekRefused ==
  /\ troubles < MaxTroubles
  /\ troubles' = troubles + 1
  /\ UNCHANGED <<readerVars, buffer, fadeIn>>

\* The frames a seek moves by: those of the unsigned quotient.
Move(off) == FramesOfOffset(off * FrameSize, FrameSize, OffsetRange)

Seek(off, way) ==
  LET target == AbsolutePosition(pos, 0, Total, Move(off), way) IN
  /\ phase = "idle"
  /\ \/ target = pos /\ UNCHANGED <<readerVars, buffer, fadeIn, pos, troubles>>
     \/ target # pos /\ SeekInternal(target + ReadOffset)
                     /\ pos' = target /\ UNCHANGED troubles
     \/ target # pos /\ SeekRefused /\ UNCHANGED pos
  /\ answer' = [way |-> way, off |-> off, pos |-> pos']
  /\ got' = <<>>
  /\ UNCHANGED <<phase, backstep, callVars>>

-----------------------------------------------------------------------------
(* read: from the buffer what it has, the rest from the file.              *)

\* A copy that begins with the first frame of the block.
CopyFromFront(b, frames) ==
  /\ rest' = frames \ FramesOf(b)
  /\ out' = [f \in asked' |->
       IF f \in frames \cap FramesOf(b)
       THEN FrameAt(b, b.from + f - Min(frames \cap FramesOf(b)))
       ELSE IF f \in DOMAIN out THEN out[f] ELSE Silence]

\* readFromBuffer with the block b as the buffer.
CopyFrom(b, frames) ==
  /\ rest' = frames \ FramesOf(b)
  /\ out' = [f \in asked' |->
       IF f \in frames \cap FramesOf(b) THEN FrameAt(b, f)
       ELSE IF f \in DOMAIN out THEN out[f] ELSE Silence]

\* A read that does not stop at the end.
BeginUnclamped(n) ==
  /\ phase = "idle"
  /\ asked' = (pos + ReadOffset)..(pos + n - 1 + ReadOffset)
  /\ CopyFrom(buffer, asked')
  /\ phase' = IF rest' = {} THEN "done" ELSE "search"
  /\ backstep' = -1
  /\ UNCHANGED <<readerVars, buffer, pos, fadeIn, got, answer, troubles>>

BeginRead(n) ==
  /\ phase = "idle"
  /\ asked' = (pos + ReadOffset)..(Clamp(pos + n, 0, Total) - 1 + ReadOffset)
  /\ CopyFrom(buffer, asked')
  /\ phase' = IF rest' = {} THEN "done" ELSE "search"
  /\ backstep' = -1
  /\ UNCHANGED <<readerVars, buffer, pos, fadeIn, got, answer, troubles>>

Target == Min(rest)

\* searchAndRetrieveBlock and its helpers return no block, nor does the loop of
\* readFromFile find one: what is left of the range becomes silence.
GiveUp ==
  /\ phase' = "done"
  /\ UNCHANGED <<buffer, fadeIn, backstep, callVars>>

\* The block becomes the buffer, and the read goes on in it.
Use(b) ==
  /\ buffer' = b
  /\ UNCHANGED asked
  /\ CopyFrom(b, rest)
  /\ phase' = "fill"
  /\ UNCHANGED <<fadeIn, backstep>>

DiscardFadein ==
  /\ phase = "search" /\ fadeIn > 0
  /\ Block
  /\ fadeIn' = fadeIn - 1
  /\ UNCHANGED <<buffer, phase, backstep, callVars>>

\* The first block after the faded ones tells where the reader is.
FindsTarget ==
  /\ phase = "search" /\ fadeIn = 0
  /\ Target \in FramesOf(Consumed)
  /\ Block
  /\ Use(Consumed)

IsBeforeTarget ==
  /\ phase = "search" /\ fadeIn = 0
  /\ Target >= Consumed.to
  /\ Block
  /\ phase' = "forward"
  /\ UNCHANGED <<buffer, fadeIn, backstep, callVars>>

Corrected(step) == IF Target >= ReadOffset + step THEN Target - step ELSE ReadOffset

\* A search that always goes back as far as the first time.
StepsWithoutGrowth == IF backstep = -1 \/ Corrected(backstep) > ReadOffset THEN {0} ELSE {}

\* A search that goes back only once.
StepsOnce == IF backstep = -1 THEN {0} ELSE {}

\* The next step of a search: no step is made from the beginning of the stream.
Steps == IF backstep = -1 THEN {0}
         ELSE IF Corrected(backstep) > ReadOffset THEN {backstep + 2 * DefaultBlock}
         ELSE {}

\* The block is behind the target already.  The consumed block is lost in the seek.
IsBehindTarget ==
  /\ phase = "search" /\ fadeIn = 0
  /\ block < Blocks /\ Target < Consumed.from
  /\ \/ \E step \in Steps :
          /\ SeekInternal(Corrected(step))
          /\ backstep' = step
          /\ UNCHANGED <<phase, callVars, troubles>>
     \/ /\ Steps # {}
        /\ troubles < MaxTroubles /\ troubles' = troubles + 1
        /\ block' = block + 1 /\ landed' = FALSE /\ UNCHANGED stream
        /\ GiveUp
     \/ Steps = {} /\ Block /\ GiveUp

\* searchForwardAndRetrieveBlock: the blocks on the way do not become the buffer.
SearchForward ==
  /\ phase = "forward"
  /\ Block
  /\ IF Target \in FramesOf(Consumed) THEN Use(Consumed)
     ELSE UNCHANGED <<buffer, searchVars, callVars>>

\* The loop of readFromFile, up to the block with the last frame.
Filled == Max(asked) \in FramesOf(buffer)

FillOn ==
  /\ phase = "fill" /\ ~Filled
  /\ Block
  /\ Use(Consumed)

FillEnds ==
  /\ phase = "fill" /\ Filled
  /\ phase' = "done"
  /\ UNCHANGED <<readerVars, buffer, fadeIn, backstep, callVars, troubles>>

SearchFails ==
  /\ phase \in {"search", "forward"} \/ (phase = "fill" /\ ~Filled)
  /\ NoBlock
  /\ GiveUp

Internal ==
  /\ \/ DiscardFadein \/ FindsTarget \/ IsBeforeTarget \/ IsBehindTarget
     \/ SearchForward \/ FillOn \/ FillEnds \/ SearchFails
  /\ UNCHANGED <<pos, got, answer>>

Return ==
  /\ phase = "done"
  /\ got' = [i \in 1..Cardinality(asked) |->
       LET f == pos + ReadOffset + i - 1 IN IF f \in rest THEN Silence ELSE out[f]]
  /\ pos' = pos + Cardinality(asked)
  /\ phase' = "idle" /\ backstep' = -1
  /\ asked' = {} /\ rest' = {} /\ out' = <<>>
  /\ answer' = NoSeek
  /\ UNCHANGED <<readerVars, buffer, fadeIn, troubles>>

-----------------------------------------------------------------------------
Init ==
  /\ stream \in [size : BlockSizes, length : Lengths, firstOffset : FirstOffsets]
  /\ block \in IF ReadOffset = 0 THEN {0} ELSE Landings(ReadOffset)
  /\ landed = (ReadOffset # 0)
  /\ buffer = NoBuffer /\ pos = 0 /\ fadeIn = 0
  /\ phase = "idle" /\ backstep = -1
  /\ asked = {} /\ rest = {} /\ out = <<>>
  /\ got = <<>>
  /\ answer = NoSeek
  /\ troubles = 0

Next ==
  \/ Internal
  \/ Return
  \/ \E n \in Requests : BeginRead(n)
  \/ \E off \in Offsets, way \in Way : Seek(off, way)

Spec == Init /\ [][Next]_vars /\ WF_vars(Internal \/ Return)

-----------------------------------------------------------------------------
(* Correctness.                                                            *)

\* What is left of a range is one interval that ends with it, as the loop of
\* readFromFile takes for granted when it dereferences remaining.begin().
OneIntervalRemains ==
  /\ \A f \in rest, g \in asked : f < g => g \in rest
  /\ phase = "fill" /\ ~Filled => rest # {}

\* Two blocks are discarded after a jump of two of s_defaultBlockSize.  Longer ones
\* may take the reader from there behind the last block ...
EndFound == stream.length - FadeInBlocks * Larger(0, stream.size - DefaultBlock)

\* ... and behind the beginning, when another source's offset makes the jump look
\* possible there.  A read gives up on the frames before and leaves the reader behind
\* the block that told it: when that was the last one, the reads that go on from
\* there find nothing either.
BeginningFound ==
  LET discarded == ((ReadOffset - FadeInFrames) \div stream.size + FadeInBlocks) * stream.size IN
  CASE ReadOffset < MinValue -> 0
    [] ReadOffset >= MinValue /\ (discarded <= ReadOffset \/ discarded + stream.size < stream.length) -> discarded
    [] OTHER -> Larger(discarded, EndFound)

\* A read over a reader that works gives up on no frame but the first and the last
\* ones: a search that jumped too far back or not far enough ends in the block of
\* the target (searchAndRetrieveBlock and the two searches).
GivesUpOnlyAtTheEdges ==
  phase = "done" /\ rest # {} /\ troubles = 0 =>
    Target \notin BeginningFound..(EndFound - 1)

\* "To avoid this, when doing a seek we jump one block back of the target, then
\* discard it": no frame of a faded block is handed out, but for those of the block
\* the audio begins in, before which there is nothing (seekInternal,
\* discardFadeinBlock).
FadeInIsDiscarded ==
  \A i \in 1..Len(got) :
    got[i].faded => got[i].frame \div stream.size <= ReadOffset \div stream.size

\* Over a reader that works and a stream whose announced frames can be reached, the
\* source is a row of frames with a position (media_foundation_source::read, seek),
\* when a seek is asked for the frames its offset is taken for.
Device == INSTANCE FrameDevice WITH
  at <- pos,
  Offsets <- {Move(off) : off \in Offsets},
  answer <- [answer EXCEPT !.off = Move(@)],
  got <- [i \in 1..Len(got) |-> got[i].frame - ReadOffset],
  broken <- troubles > 0 \/ BeginningFound > ReadOffset \/ EndFound < Total + ReadOffset
ImplementsFrameDevice == Device!Spec

\* No read searches forever, in either direction.
ReadsReturn == phase # "idle" ~> phase = "idle"
=============================================================================
