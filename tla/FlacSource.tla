----------------------------- MODULE FlacSource -----------------------------
(***************************************************************************)
(* The FLAC source: it pulls one block after the other out of libFLAC and  *)
(* hands out the block's frames, keeping a position of its own beside the  *)
(* decoder's.  A frame is identified by its index.                         *)
(*                                                                         *)
(* The decoder is external.  It delivers a block through a callback; it    *)
(* ends when it has decoded the frames the header announces; and it is     *)
(* aborted when the read callback finds the file at its end, because that  *)
(* callback answers ABORT to the -1 the device returns there.  The call    *)
(* that meets the end fails when it was inside a block and goes well when  *)
(* it was looking for one; every later call does nothing, and goes well.   *)
(***************************************************************************)
EXTENDS Positioning, Sequences

CONSTANTS
  Total,      \* frames the STREAMINFO block announces
  Lengths,    \* frames a file may really have: fewer when it was cut off
  BlockSize,  \* frames of a block (constant: others are refused)
  Requests,   \* sizes of the reads, in frames
  MaxPos,     \* bound: an aborted decoder is read until the position is here
  Offsets     \* offsets of the seeks, in frames

FlacSourceAssumption ==
  /\ Total \in Nat \ {0}
  /\ Lengths \subseteq 0..Total
  /\ BlockSize \in Nat \ {0}
  /\ Requests \subseteq Nat
  /\ MaxPos \in Nat /\ MaxPos >= Total
  /\ Offsets \subseteq Int

Frames(first, last) == [i \in 1..(last - first + 1) |-> first + i - 1]

\* The frame behind the block that frame f is in.
BlockEnd(f) == Smaller(Total, (f \div BlockSize + 1) * BlockSize)

VARIABLES
  decodable,  \* frames of this file
  buffer,     \* m_buffer: the last block, as the callback left it
  offset,     \* m_buffer_offset, in frames
  available,  \* m_audio_block_available
  pos,        \* m_pos, in frames
  decoder,    \* state of the decoder: frames, ended, failing, aborted, stuck
  decoded,    \* the next frame it will decode
  reading,    \* whether a read is in progress
  want, out,  \* frames requested and delivered by it
  got, answer \* result of the last call, a read or a seek

decoderVars == <<decodable, decoder, decoded>>
blockVars   == <<buffer, offset, available>>
callVars    == <<reading, want, out>>
vars == <<blockVars, pos, decoderVars, callVars, got, answer>>

\* No seek since the last read.
NoSeek == [way |-> "none", off |-> 0, pos |-> 0]

\* A decoder that met the end of a file that was cut off.
GivenUp == decoder \in {"failing", "aborted", "stuck"}

\* The types, and: a block that is available is not used up.
TypeOK ==
  /\ decodable \in Lengths
  /\ buffer \in Seq(0..Total)
  /\ offset \in 0..Len(buffer) /\ (buffer # <<>> => offset < Len(buffer))
  /\ available \in BOOLEAN /\ (available => buffer # <<>>)
  /\ pos \in Nat /\ (decoder # "aborted" => pos <= Total)
  /\ decoder \in {"frames", "ended", "failing", "aborted", "stuck"}
  /\ decoded \in 0..Total
  /\ reading \in BOOLEAN
  /\ want \in Nat /\ Len(out) <= want
  /\ answer.pos \in Nat

Init ==
  /\ decodable \in Lengths
  /\ buffer = <<>> /\ offset = 0 /\ available = FALSE
  /\ pos = 0
  /\ decoder = "frames" /\ decoded = 0
  /\ reading = FALSE /\ want = 0 /\ out = <<>>
  /\ got = <<>>
  /\ answer = NoSeek

-----------------------------------------------------------------------------
(* read: a loop of decoding and copying.                                   *)

BeginRead(n) ==
  /\ ~reading
  /\ pos <= MaxPos
  /\ reading' = TRUE /\ want' = n /\ out' = <<>>
  /\ UNCHANGED <<blockVars, pos, decoderVars, got, answer>>

NeedsBlock == reading /\ Len(out) < want /\ ~available

\* process_single calls writeCallbackImpl with the next block ...
DecodeBlock ==
  /\ NeedsBlock
  /\ decoder = "frames" /\ decoded < Total /\ BlockEnd(decoded) <= decodable
  /\ buffer' = Frames(decoded, BlockEnd(decoded) - 1)
  /\ available' = TRUE
  /\ decoded' = BlockEnd(decoded)
  /\ UNCHANGED <<decodable, offset, pos, decoder, callVars, got, answer>>

\* ... or finds that all announced frames are decoded ...
DecodeEnd ==
  /\ NeedsBlock
  /\ decoder = "frames" /\ decoded = Total
  /\ decoder' = "ended"
  /\ UNCHANGED <<decodable, blockVars, pos, decoded, callVars, got, answer>>

\* ... or meets the end of the file, and the read callback aborts it.
DecodeAborts ==
  /\ NeedsBlock
  /\ decoder = "frames" /\ decoded < Total /\ BlockEnd(decoded) > decodable
  /\ decoder' = IF decoded = decodable THEN "aborted" ELSE "failing"
  /\ UNCHANGED <<decodable, blockVars, pos, decoded, callVars, got, answer>>

\* A copy that lets the offset run to the end of the block.
CopyWithoutReset ==
  LET count == Smaller(Len(buffer) - offset, want - Len(out)) IN
  /\ reading /\ Len(out) < want
  /\ available \/ decoder = "aborted"
  /\ out' = out \o SubSeq(buffer, offset + 1, offset + count)
  /\ offset' = offset + count
  /\ available' = (available /\ offset + count < Len(buffer))
  /\ UNCHANGED <<buffer, pos, decoderVars, reading, want, got, answer>>

\* samples_available: there is a block, or processing went well and did not come
\* to the end.  An aborted decoder processes nothing, and that goes well.
Copy ==
  LET count == Smaller(Len(buffer) - offset, want - Len(out))
      whole == offset + count = Len(buffer)
  IN
  /\ reading /\ Len(out) < want
  /\ available \/ decoder = "aborted"
  /\ out' = out \o SubSeq(buffer, offset + 1, offset + count)
  /\ offset' = IF whole THEN 0 ELSE offset + count
  /\ available' = (available /\ ~whole)
  /\ UNCHANGED <<buffer, pos, decoderVars, reading, want, got, answer>>

\* A read that goes on as long as the decoder can be called.
ReturnWhenFull ==
  /\ reading
  /\ Len(out) = want
  /\ pos' = pos + Len(out)
  /\ got' = out
  /\ reading' = FALSE /\ want' = 0 /\ out' = <<>>
  /\ answer' = NoSeek
  /\ UNCHANGED <<blockVars, decoderVars>>

\* Only the call of the decoder that met the end inside a block has failed.
Return ==
  /\ reading
  /\ Len(out) = want \/ (~available /\ decoder \in {"ended", "failing", "stuck"})
  /\ pos' = pos + Len(out)
  /\ got' = out
  /\ reading' = FALSE /\ want' = 0 /\ out' = <<>>
  /\ decoder' = IF decoder = "failing" THEN "aborted" ELSE decoder
  /\ answer' = NoSeek
  /\ UNCHANGED <<blockVars, decodable, decoded>>

-----------------------------------------------------------------------------
\* The decoder finds the frame: the callback gets what is left of its block from
\* that frame on.
SeekFinds(target) ==
  /\ decoder \in {"frames", "ended"}
  /\ target < Total /\ BlockEnd(target) <= decodable
  /\ buffer' = Frames(target, BlockEnd(target) - 1)
  /\ offset' = 0
  /\ available' = TRUE
  /\ decoder' = "frames"
  /\ decoded' = BlockEnd(target)
  /\ pos' = target
  /\ UNCHANGED decodable

\* It refuses a frame behind the last one, and a decoder that was given up ...
SeekRefused(target) ==
  /\ target >= Total \/ decoder \in {"aborted", "stuck"}
  /\ UNCHANGED <<blockVars, pos, decoderVars>>

\* ... or runs into the end of the file while it looks for the frame.
SeekFails(target) ==
  /\ decoder \in {"frames", "ended"}
  /\ target < Total /\ BlockEnd(target) > decodable
  /\ decoder' \in {"aborted", "stuck"}
  /\ UNCHANGED <<decodable, blockVars, pos, decoded>>

\* A seek whose position is set before it is known whether it worked.
SeekAnyway(off, way) ==
  LET target == AbsolutePosition(pos, 0, Total, off, way) IN
  /\ ~reading
  /\ IF target < Total /\ decoder \in {"frames", "ended"} /\ BlockEnd(target) <= decodable
     THEN SeekFinds(target)
     ELSE pos' = target /\ UNCHANGED <<blockVars, decoderVars>>
  /\ answer' = [way |-> way, off |-> off, pos |-> pos']
  /\ got' = <<>>
  /\ UNCHANGED callVars

Seek(off, way) ==
  LET target == AbsolutePosition(pos, 0, Total, off, way) IN
  /\ ~reading
  /\ SeekFinds(target) \/ SeekRefused(target) \/ SeekFails(target)
  /\ answer' = [way |-> way, off |-> off, pos |-> pos']
  /\ got' = <<>>
  /\ UNCHANGED callVars

-----------------------------------------------------------------------------
Internal == DecodeBlock \/ DecodeEnd \/ DecodeAborts \/ Copy \/ Return

Next ==
  \/ Internal
  \/ \E n \in Requests : BeginRead(n)
  \/ \E off \in Offsets, way \in Way : Seek(off, way)

Spec == Init /\ [][Next]_vars /\ WF_vars(Internal)

-----------------------------------------------------------------------------
(* Correctness.                                                            *)

\* Until the decoder is aborted, three things that are kept apart agree: the
\* position the source reports, the place in the block it hands out next, and the
\* frame the decoder will decode (m_pos, m_buffer_offset, m_decoder).
BufferIsAtPosition ==
  decoder # "aborted" =>
    /\ available => buffer[offset + 1] = pos + Len(out)
    /\ available => decoded = buffer[Len(buffer)] + 1
    /\ ~available /\ decoder = "frames" => decoded = pos + Len(out)
    /\ decoder = "ended" /\ ~available => pos + Len(out) = Total

\* Until the decoder is given up, the source behaves as a row of frames: reads
\* hand out what follows the position, and fewer frames only at the end
\* (flac_source::read and seek).
Device == INSTANCE FrameDevice WITH at <- pos, broken <- GivenUp
ImplementsFrameDevice == Device!Spec

\* No read runs forever, but for one over an aborted decoder that has no block to
\* hand out again: there the loop of flac_source::read copies nothing, and goes on.
ReadsReturn == reading ~> (~reading \/ (decoder = "aborted" /\ buffer = <<>>))
=============================================================================
