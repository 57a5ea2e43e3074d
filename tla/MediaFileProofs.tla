-------------------------- MODULE MediaFileProofs --------------------------
(***************************************************************************)
(* What holds of MediaFile for every build, file, and sequence of calls.   *)
(*                                                                         *)
(* A step of the whole is a step of the source that was opened, or leaves  *)
(* all sources alone (StepShape); each source keeps an invariant of its    *)
(* own, which holds before anything is opened.                             *)
(***************************************************************************)
EXTENDS MediaFile, SequenceTheorems, TLAPS

-----------------------------------------------------------------------------
(* The steps of the sources.                                               *)

Reads == Requests \cup {BufFrames}
Seeks == Offsets \cup {0}

FlacStep ==
  \/ Flac!Internal
  \/ \E n \in Reads : Flac!BeginRead(n)
  \/ \E off \in Seeks, way \in Way : Flac!Seek(off, way)

OggStep ==
  \/ Ogg!Internal
  \/ \E n \in Reads : Ogg!BeginRead(n)
  \/ \E off \in Seeks, way \in Way : Ogg!Seek(off, way)

CoreStep ==
  \/ Core!Return
  \/ \E n \in Reads : Core!BeginRead(n)
  \/ \E off \in Seeks, way \in Way : Core!Seek(off, way)
  \/ \E asked \in Asked, size \in Sizes : Core!ReadProc(asked, size)

AssetStep ==
  \/ Asset!CompareRound
  \/ \E n \in Reads : Asset!Read(n)
  \/ \E off \in Seeks, way \in Way : Asset!Seek(off, way)
  \/ Asset!Tell

SourceSteps ==
  \/ opened = "flac" /\ FlacStep
  \/ opened = "ogg" /\ OggStep
  \/ opened = "core audio" /\ CoreStep
  \/ opened = "asset" /\ AssetStep

LEMMA ReadIsSourceStep ==
  ASSUME NEW n \in Reads, BeginRead(n)
  PROVE  SourceSteps
BY DEF BeginRead, SourceSteps, FlacStep, OggStep, CoreStep, AssetStep

LEMMA SeekIsSourceStep ==
  ASSUME NEW off \in Seeks, NEW way \in Way, Seek(off, way)
  PROVE  SourceSteps
BY DEF Seek, SourceSteps, FlacStep, OggStep, CoreStep, AssetStep

LEMMA StepShape ==
  ASSUME [Next]_vars
  PROVE  \/ SourceSteps /\ opened' = opened
         \/ UNCHANGED sourceVars /\ (opened' = opened \/ opened = "no")
<1>1. CASE UNCHANGED vars
  BY <1>1 DEF vars, streamVars
<1>2. CASE OpenFile
  BY <1>2 DEF OpenFile
<1>3. CASE SourceStep(Internal)
  BY <1>3 DEF SourceStep, Internal, streamVars, SourceSteps, FlacStep, OggStep, CoreStep, AssetStep
<1>4. CASE SourceStep(CallBack)
  BY <1>4 DEF SourceStep, CallBack, streamVars, SourceSteps, CoreStep
<1>5. ASSUME NEW n \in Requests, Read(n)
      PROVE  SourceSteps /\ opened' = opened
  BY <1>5, ReadIsSourceStep DEF Read, SourceStep, streamVars, Reads
<1>6. ASSUME NEW off \in Offsets, NEW way \in Way, SeekStream(off, way)
      PROVE  SourceSteps /\ opened' = opened
  BY <1>6, SeekIsSourceStep DEF SeekStream, streamVars, Seeks
<1>7. CASE BeginCopy
  <2>1. Seek(0, "beg") /\ opened' = opened
    BY <1>7 DEF BeginCopy, streamVars
  <2>. QED
    BY <2>1, SeekIsSourceStep DEF Seeks, Way
<1>8. CASE CopyOn
  <2>1. opened' = opened
    BY <1>8 DEF CopyOn, streamVars
  <2>2. BeginRead(BufFrames) \/ UNCHANGED sourceVars
    BY <1>8 DEF CopyOn
  <2>. QED
    BY <2>1, <2>2, ReadIsSourceStep DEF Reads
<1>9. CASE Refuse \/ ClearState \/ CopyNothing \/ DropCopy
  BY <1>9 DEF Refuse, ClearState, CopyNothing, DropCopy, streamVars
<1>. QED
  BY <1>1, <1>2, <1>3, <1>4, <1>5, <1>6, <1>7, <1>8, <1>9 DEF Next

LEMMA Sizing ==
  /\ Total \in Nat \ {0}
  /\ Reads \subseteq Nat
  /\ Seeks \subseteq Int
BY SourcesAssumption, MediaFileAssumption DEF Reads, Seeks, Ogg!OggSourceAssumption

\* A seek ends inside the range it is given.
LEMMA SeekStaysInRange ==
  ASSUME NEW p \in Int, NEW last \in Nat, NEW off \in Int, NEW way \in Way
  PROVE  AbsolutePosition(p, 0, last, off, way) \in 0..last
BY DEF AbsolutePosition, AnchorOf, Clamp, Way

-----------------------------------------------------------------------------
(* Core Audio: the callback.                                               *)

\* The device is where a seek to the remembered position would put it.
CoreInv ==
  /\ device \in {"vector", "file"}
  /\ position \in Nat
  /\ deviceAt = Core!DeviceSeek(position)
  /\ Core!CallbackReadsWhereAsked

LEMMA InitCore == Core!Init => CoreInv
BY SourcesAssumption
   DEF CoreInv, Core!Init, Core!DeviceSeek, Core!DeviceReads, Core!CallbackReadsWhereAsked,
       Core!NoCall, Core!CoreAudioSourceAssumption, Core!Smaller

LEMMA CoreStepKeeps ==
  ASSUME CoreInv, CoreStep
  PROVE  CoreInv'
<1>. USE SourcesAssumption DEF CoreInv, Core!CoreAudioSourceAssumption
<1>1. CASE Core!Return
  BY <1>1 DEF Core!Return, Core!DeviceSeek, Core!DeviceReads, Core!CallbackReadsWhereAsked,
              Core!NoCall, Core!Smaller
<1>2. ASSUME NEW asked \in Asked, NEW size \in Sizes, Core!ReadProc(asked, size)
      PROVE  CoreInv'
  <2>. DEFINE from  == IF position = asked THEN deviceAt ELSE Core!DeviceSeek(asked)
              count == Core!DeviceReads(from, size)
  <2>1. asked \in Nat /\ size \in Nat /\ FileSize \in Nat
    OBVIOUS
  <2>2. /\ device' = device /\ deviceAt' = from + count /\ position' = asked + count
        /\ call' = [asked |-> asked, size |-> size, from |-> from, count |-> count]
    BY <1>2 DEF Core!ReadProc
  <2>3. from = Core!DeviceSeek(asked)
    OBVIOUS
  <2>4. from \in Nat /\ from <= asked /\ (from # asked => from = FileSize)
    BY <2>1, <2>3 DEF Core!DeviceSeek, Core!Smaller
  <2>5. /\ count \in Nat
        /\ count = Core!DeviceReads(asked, size)
        /\ count > 0 => from = asked /\ from + count <= FileSize
    BY <2>1, <2>4 DEF Core!DeviceReads, Core!Smaller
  <2>6. from + count = Core!DeviceSeek(asked + count)
    BY <2>1, <2>3, <2>4, <2>5 DEF Core!DeviceSeek, Core!Smaller
  <2>. HIDE DEF from, count
  <2>. QED
    BY <2>1, <2>2, <2>4, <2>5, <2>6 DEF Core!CallbackReadsWhereAsked, Core!DeviceSeek, Core!DeviceReads
<1>3. CASE \/ \E n \in Reads : Core!BeginRead(n)
           \/ \E off \in Seeks, way \in Way : Core!Seek(off, way)
  <2>1. UNCHANGED <<device, deviceAt, position, call>>
    BY <1>3 DEF Core!BeginRead, Core!Seek, Core!fileVars
  <2>. QED
    BY <2>1 DEF Core!DeviceSeek, Core!CallbackReadsWhereAsked, Core!DeviceReads
<1>. QED
  BY <1>1, <1>2, <1>3 DEF CoreStep

-----------------------------------------------------------------------------
(* OGG: the position and the holes.                                        *)

Consecutive(frames) == \A i \in 1..(Len(frames) - 1) : frames[i + 1] = frames[i] + 1

\* What a read has gathered is one stretch, which ends where the library is.
OggInv ==
  /\ gap \in Gaps /\ lost \in BOOLEAN
  /\ decoded \in 0..Total
  /\ pos \in Nat
  /\ reading \in BOOLEAN
  /\ want \in Nat
  /\ out \in Seq(Nat)
  /\ ~reading => out = <<>>
  /\ out # <<>> => decoded = out[Len(out)] + 1
  /\ Consecutive(out)
  /\ Ogg!HoleEndsTheRead
  /\ Ogg!LibraryIsAtPosition

LEMMA InitOgg == Ogg!Init => OggInv
<1>. SUFFICES ASSUME Ogg!Init PROVE OggInv
  OBVIOUS
<1>1. /\ gap \in Gaps /\ lost = FALSE /\ decoded = 0 /\ pos = 0
      /\ reading = FALSE /\ want = 0 /\ out = <<>> /\ got = <<>>
  BY DEF Ogg!Init
<1>2. lost \in BOOLEAN /\ reading \in BOOLEAN
  BY <1>1
<1>3. Consecutive(out) /\ Ogg!HoleEndsTheRead
  BY <1>1 DEF Consecutive, Ogg!HoleEndsTheRead
<1>4. Ogg!LibraryIsAtPosition
  BY <1>1 DEF Ogg!LibraryIsAtPosition
<1>. QED
  BY <1>1, <1>2, <1>3, <1>4, Sizing DEF OggInv

LEMMA GapInTotal ==
  ASSUME OggInv
  PROVE  gap[1] \in 0..Total /\ gap[2] \in 0..Total
BY SourcesAssumption DEF OggInv, Ogg!OggSourceAssumption

LEMMA OggDeliver ==
  ASSUME OggInv, Ogg!Deliver
  PROVE  OggInv'
<1>. USE Sizing
<1>1. PICK count \in 1..Ogg!Smaller(ChunkSize, want - Len(out)) :
        /\ decoded + count <= IF Ogg!Damaged /\ decoded < gap[1] THEN gap[1] ELSE Total
        /\ out' = out \o [i \in 1..count |-> decoded + i - 1]
        /\ decoded' = decoded + count
  BY DEF Ogg!Deliver
<1>2. ChunkSize \in Nat \ {0} /\ Len(out) \in Nat /\ want \in Nat /\ decoded \in Nat
  BY SourcesAssumption DEF OggInv, Ogg!OggSourceAssumption
<1>3. count \in Nat \ {0}
  BY <1>2 DEF Ogg!Smaller
<1>4. decoded' \in 0..Total
  BY <1>1, <1>2, <1>3, GapInTotal
<1>. DEFINE new == [i \in 1..count |-> decoded + i - 1]
<1>5. /\ new \in Seq(Nat) /\ Len(new) = count
      /\ \A i \in 1..count : new[i] = decoded + i - 1
  BY <1>2, <1>3
<1>. HIDE DEF new
<1>6. /\ out' \in Seq(Nat)
      /\ Len(out') = Len(out) + count
      /\ \A i \in 1..Len(out') :
           out'[i] = IF i <= Len(out) THEN out[i] ELSE decoded + (i - Len(out)) - 1
  BY <1>1, <1>2, <1>3, <1>5 DEF OggInv, new
<1>7. decoded' = out'[Len(out')] + 1
  BY <1>1, <1>2, <1>3, <1>6
<1>8. Consecutive(out')
  <2> SUFFICES ASSUME NEW i \in 1..(Len(out') - 1)
               PROVE  out'[i + 1] = out'[i] + 1
    BY DEF Consecutive
  <2>1. CASE i < Len(out)
    <3>1. i \in 1..(Len(out) - 1) /\ i + 1 \in 1..Len(out')
      BY <1>2, <1>3, <1>6, <2>1
    <3>2. out'[i] = out[i] /\ out'[i + 1] = out[i + 1]
      BY <1>2, <1>6, <2>1, <3>1
    <3>3. out[i + 1] = out[i] + 1
      BY <3>1 DEF OggInv, Consecutive
    <3>. QED
      BY <3>2, <3>3
  <2>2. CASE i = Len(out)
    <3>1. out # <<>> /\ i + 1 \in 1..Len(out') /\ i \in 1..Len(out')
      BY <1>2, <1>3, <1>6, <2>2
    <3>2. out'[i] = out[Len(out)]
      BY <1>2, <1>6, <2>2, <3>1
    <3>3. out'[i + 1] = decoded + ((i + 1) - Len(out)) - 1
      BY <1>2, <1>6, <2>2, <3>1
    <3>4. decoded = out[Len(out)] + 1
      BY <3>1 DEF OggInv
    <3>. QED
      BY <1>2, <2>2, <3>2, <3>3, <3>4
  <2>3. CASE i > Len(out)
    BY <1>2, <1>3, <1>6, <2>3
  <2>. QED
    BY <1>2, <2>1, <2>2, <2>3
<1>9. UNCHANGED <<gap, lost, pos, reading, want, got, answer>> /\ reading
  BY DEF Ogg!Deliver
<1>10. lost' \in BOOLEAN /\ reading' \in BOOLEAN /\ Ogg!HoleEndsTheRead'
  BY <1>9 DEF OggInv, Ogg!HoleEndsTheRead
<1>11. Ogg!LibraryIsAtPosition'
  <2>1. ~lost => decoded = pos + Len(out)
    BY DEF OggInv, Ogg!LibraryIsAtPosition
  <2>2. pos \in Nat /\ pos' = pos /\ lost' = lost
    BY <1>9 DEF OggInv
  <2>. QED
    BY <1>1, <1>2, <1>3, <1>6, <2>1, <2>2 DEF Ogg!LibraryIsAtPosition
<1>12. gap' \in Gaps /\ pos' \in Nat /\ want' \in Nat /\ Consecutive(out)'
  BY <1>8, <1>9 DEF OggInv, Consecutive
<1>. QED
  BY <1>4, <1>6, <1>7, <1>9, <1>10, <1>11, <1>12 DEF OggInv

LEMMA OggReturn ==
  ASSUME OggInv, Ogg!Return
  PROVE  OggInv'
<1>1. /\ UNCHANGED gap
      /\ pos' = pos + Len(out) /\ got' = out
      /\ reading' = FALSE /\ want' = 0 /\ out' = <<>>
  BY DEF Ogg!Return
<1>2. decoded' \in 0..Total /\ (~lost' => ~lost /\ decoded' = decoded)
  <2>1. CASE Ogg!CrossHole
    BY <2>1, GapInTotal DEF Ogg!CrossHole
  <2>2. CASE UNCHANGED <<lost, decoded>>
    BY <2>2 DEF OggInv
  <2>. QED
    BY <2>1, <2>2 DEF Ogg!Return, Ogg!EndOfLoop
<1>3. pos' \in Nat /\ Len(out) \in Nat
  BY <1>1 DEF OggInv
<1>4. ~lost' => decoded' = pos' + Len(out')
  BY <1>1, <1>2, <1>3 DEF OggInv, Ogg!LibraryIsAtPosition
<1>5. lost' \in BOOLEAN /\ reading' \in BOOLEAN
  BY <1>1 DEF OggInv, Ogg!Return, Ogg!EndOfLoop, Ogg!CrossHole
<1>6. Consecutive(out)' /\ Ogg!HoleEndsTheRead' /\ Ogg!LibraryIsAtPosition'
  BY <1>1, <1>4 DEF OggInv, Consecutive, Ogg!HoleEndsTheRead, Ogg!LibraryIsAtPosition
<1>. QED
  BY <1>1, <1>2, <1>3, <1>5, <1>6 DEF OggInv

LEMMA OggSeek ==
  ASSUME OggInv, NEW off \in Int, NEW way \in Way, Ogg!Seek(off, way)
  PROVE  OggInv'
<1>. DEFINE target == Ogg!AbsolutePosition(pos, 0, Total, off, way)
<1>1. target \in 0..Total
  BY Sizing DEF OggInv, Ogg!AbsolutePosition, Ogg!AnchorOf, Ogg!Clamp, Way
<1>. HIDE DEF target
<1>2. ~reading /\ out = <<>> /\ got' = <<>> /\ UNCHANGED <<gap, reading, want, out>>
  BY DEF OggInv, Ogg!Seek, Ogg!callVars
<1>3. /\ decoded' \in 0..Total
      /\ pos' \in Nat
      /\ ~lost' => decoded' = pos'
  <2>1. CASE Ogg!SeekFinds(target)
    <3>1. pos' = target /\ decoded' \in {gap[2], target}
      BY <2>1 DEF Ogg!SeekFinds
    <3>2. ~lost' => decoded' = target
      BY <2>1 DEF Ogg!SeekFinds
    <3>. QED
      BY <1>1, <3>1, <3>2, GapInTotal
  <2>2. CASE Ogg!SeekFails
    BY <2>2 DEF Ogg!SeekFails, OggInv
  <2>. QED
    BY <2>1, <2>2 DEF Ogg!Seek, target
<1>4. lost' \in BOOLEAN /\ reading' \in BOOLEAN
  BY <1>2 DEF OggInv, Ogg!Seek, Ogg!SeekFinds, Ogg!SeekFails
<1>5. Consecutive(out)' /\ Ogg!HoleEndsTheRead'
  BY <1>2 DEF Consecutive, Ogg!HoleEndsTheRead
<1>6. Ogg!LibraryIsAtPosition'
  <2>1. Len(out') = 0
    BY <1>2
  <2>2. \A p \in Nat : p + 0 = p
    OBVIOUS
  <2>. QED
    BY <1>3, <2>1, <2>2, Zenon DEF Ogg!LibraryIsAtPosition
<1>. QED
  BY <1>2, <1>3, <1>4, <1>5, <1>6 DEF OggInv

LEMMA OggStepKeeps ==
  ASSUME OggInv, OggStep
  PROVE  OggInv'
<1>1. ASSUME NEW n \in Reads, Ogg!BeginRead(n)
      PROVE  OggInv'
  <2>1. /\ UNCHANGED <<gap, lost, decoded, pos, got>>
        /\ ~reading /\ out = <<>>
        /\ reading' = TRUE /\ want' = n /\ out' = <<>>
    BY <1>1 DEF OggInv, Ogg!BeginRead, Ogg!libraryVars
  <2>. QED
    BY <2>1, Sizing DEF OggInv, Consecutive, Ogg!HoleEndsTheRead, Ogg!LibraryIsAtPosition
<1>. QED
  BY <1>1, OggDeliver, OggReturn, OggSeek, Sizing DEF OggStep, Ogg!Internal

-----------------------------------------------------------------------------
(* AVAssetReader: the position of the reader.                              *)

\* A reader that is exhausted has nothing left to deliver.
AssetInv ==
  /\ track \in Nat /\ trim \in {0, Leader}
  /\ examined \in Nat \cup {Asset!Done}
  /\ decoded \in Nat /\ pos \in Nat
  /\ examined = Asset!Done =>
       /\ pos \in 0..Larger(track, Total)
       /\ exhausted \in BOOLEAN
       /\ exhausted => decoded >= track
       /\ ~exhausted => decoded = pos

LEMMA AssetSizing ==
  /\ Leader \in Nat /\ Leader < Total
  /\ FrameSize \in Nat \ {0} /\ OffsetRange \in Nat \ {0}
  /\ Tracks \subseteq Nat
<1>1. /\ Leader \in Nat /\ Leader < Total
      /\ FrameSize \in Nat \ {0} /\ OffsetRange \in Nat /\ OffsetRange \div FrameSize > 4 * Total
      /\ Tracks \subseteq Nat
  BY SourcesAssumption DEF Asset!AssetReaderSourceAssumption
<1>2. \A k \in Nat \ {0} : 0 \div k = 0
  OBVIOUS
<1>3. OffsetRange # 0
  BY <1>1, <1>2, Sizing
<1>. QED
  BY <1>1, <1>3

LEMMA InitAsset == Asset!Init => AssetInv
<1>. SUFFICES ASSUME Asset!Init PROVE AssetInv
  OBVIOUS
<1>1. /\ track \in Nat /\ trim = 0 /\ examined \in {0, Asset!Done}
      /\ exhausted = FALSE /\ decoded = 0 /\ pos = 0
  BY AssetSizing DEF Asset!Init
<1>2. exhausted \in BOOLEAN
  BY <1>1
<1>. QED
  BY <1>1, <1>2, Sizing DEF AssetInv, Larger

\* A reader that was started delivers from where the position is.
LEMMA AssetStarted ==
  ASSUME NEW target \in Int, NEW skip \in Int
  PROVE  /\ Asset!Start(target, skip) \in 0..(Total - 1)
         /\ track \in Nat => Asset!Start(target, skip) \in 0..Larger(track, Total)
BY Sizing DEF Asset!Start, Asset!Clamp, Larger

LEMMA AssetCountsUp ==
  ASSUME NEW at \in Nat, NEW from \in Nat, NEW total \in Nat, NEW was, NEW size \in Nat, track \in Nat
  PROVE  Asset!ReadCount(at, from, total, was, size) \in Nat
<1>. DEFINE count == Asset!Delivered(from, size)
<1>1. count \in Nat /\ count <= size
  BY DEF Asset!Delivered, Asset!Smaller
<1>. HIDE DEF count
<1>2. count + Asset!Advance(at, total, count, size) \in Nat
  BY <1>1 DEF Asset!Advance, Asset!Smaller
<1>3. Asset!ReadCount(at, from, total, was, size) \in {count + 0, count + Asset!Advance(at, total, count, size)}
  BY DEF Asset!ReadCount, count
<1>. QED
  BY <1>1, <1>2, <1>3

\* Frames and silence together never pass the end.
LEMMA AssetCounts ==
  ASSUME AssetInv, Asset!Opened, NEW size \in Nat
  PROVE  LET count == Asset!Delivered(decoded, size)
             total == Asset!ReadCount(pos, decoded, Asset!NumFrames, exhausted, size)
         IN  /\ count \in Nat
             /\ pos + total \in 0..Larger(track, Total)
             /\ exhausted \/ Asset!Exhausts(decoded, size) => decoded + count >= track
             /\ ~(exhausted \/ Asset!Exhausts(decoded, size)) => decoded + count = pos + total
<1>. DEFINE count == Asset!Delivered(decoded, size)
            frames == Asset!NumFrames
<1>1. /\ decoded \in Nat /\ track \in Nat
      /\ pos \in 0..Larger(track, Total)
      /\ exhausted => decoded >= track
      /\ ~exhausted => decoded = pos
  BY DEF AssetInv, Asset!Opened
<1>2. frames \in 1..Total
  BY AssetSizing, Sizing DEF AssetInv, Asset!NumFrames
<1>3. /\ count \in Nat
      /\ decoded >= track => count = 0
      /\ decoded < track => decoded + count <= track
  BY <1>1 DEF Asset!Delivered, Asset!Smaller
<1>. HIDE DEF count, frames
<1>4. Asset!Exhausts(decoded, size) <=> decoded + count >= track
  BY DEF Asset!Exhausts, count
<1>5. ASSUME ~(exhausted \/ Asset!Exhausts(decoded, size))
      PROVE  /\ Asset!ReadCount(pos, decoded, frames, exhausted, size) = count
             /\ pos + count \in 0..Larger(track, Total)
  <2>1. Asset!ReadCount(pos, decoded, frames, exhausted, size) = count + 0
    BY <1>5 DEF Asset!ReadCount, count
  <2>2. decoded = pos /\ decoded + count < track
    BY <1>1, <1>3, <1>4, <1>5
  <2>. QED
    BY <1>1, <1>3, <2>1, <2>2, Sizing DEF Larger
<1>6. ASSUME exhausted \/ Asset!Exhausts(decoded, size)
      PROVE  /\ pos + Asset!ReadCount(pos, decoded, frames, exhausted, size) \in 0..Larger(track, Total)
             /\ decoded + count >= track
  <2>1. Asset!ReadCount(pos, decoded, frames, exhausted, size)
          = count + Asset!Advance(pos, frames, count, size)
    BY <1>6 DEF Asset!ReadCount, count
  <2>2. decoded + count >= track
    BY <1>1, <1>3, <1>4, <1>6
  <2>3. pos + count \in 0..Larger(track, Total) \/ frames > pos
    BY <1>1, <1>2, <1>3, Sizing DEF Larger
  <2>4. Asset!Advance(pos, frames, count, size)
          = IF frames > pos THEN IF frames - pos - count <= size - count
                                 THEN frames - pos - count ELSE size - count
            ELSE 0
    BY DEF Asset!Advance, Asset!Smaller
  <2>. QED
    BY <1>1, <1>2, <1>3, <2>1, <2>2, <2>3, <2>4, Sizing DEF Larger
<1>7. /\ pos + Asset!ReadCount(pos, decoded, frames, exhausted, size) \in 0..Larger(track, Total)
      /\ exhausted \/ Asset!Exhausts(decoded, size) => decoded + count >= track
  BY <1>5, <1>6
<1>8. ~(exhausted \/ Asset!Exhausts(decoded, size)) =>
        decoded + count = pos + Asset!ReadCount(pos, decoded, frames, exhausted, size)
  BY <1>1, <1>5
<1>. QED
  BY <1>3, <1>7, <1>8 DEF count, frames

\* A seek reports a position inside the frames announced.
LEMMA AssetTarget ==
  ASSUME AssetInv, NEW off \in Seeks, NEW way \in Way
  PROVE  Asset!AbsolutePosition(pos, 0, Asset!NumFrames,
           Asset!FramesOfOffset(off * FrameSize, FrameSize, OffsetRange), way) \in Nat
<1>. DEFINE frames == Asset!FramesOfOffset(off * FrameSize, FrameSize, OffsetRange)
<1>1. frames \in Int
  <2>1. off * FrameSize \in Int
    BY Sizing, AssetSizing
  <2>2. \A x \in Int, r \in Nat \ {0}, k \in Nat \ {0} : (x % r) \div k \in Int
    OBVIOUS
  <2>. QED
    BY <2>1, <2>2, AssetSizing DEF Asset!FramesOfOffset
<1>2. Asset!NumFrames \in Nat
  BY AssetSizing, Sizing DEF AssetInv, Asset!NumFrames
<1>. HIDE DEF frames
<1>3. Asset!AbsolutePosition(pos, 0, Asset!NumFrames, frames, way) \in Nat
  BY <1>1, <1>2 DEF AssetInv, Asset!AbsolutePosition, Asset!AnchorOf, Asset!Clamp, Way
<1>. QED
  BY <1>3 DEF frames

LEMMA AssetStepKeeps ==
  ASSUME AssetInv, AssetStep
  PROVE  AssetInv'
<1>1. CASE Asset!CompareRound
  <2>1. UNCHANGED track
    BY <1>1 DEF Asset!CompareRound, Asset!trackVars
  <2>2. ASSUME NEW skip \in {0, Leader}, Asset!Determined(skip)
        PROVE  AssetInv'
    <3>1. Asset!Start(0, skip) \in Nat /\ Asset!Start(0, skip) \in 0..Larger(track, Total)
      <4>1. 0 \in Int /\ skip \in Int /\ track \in Nat
        BY AssetSizing DEF AssetInv
      <4>2. Asset!Start(0, skip) \in 0..(Total - 1)
        BY <4>1, AssetStarted
      <4>. QED
        BY <4>1, <4>2, AssetStarted, Sizing
    <3>. QED
      BY <2>1, <2>2, <3>1 DEF AssetInv, Asset!Determined
  <2>3. ASSUME ~Asset!Opened, UNCHANGED trim,
               examined' = examined + Asset!ReadCount(pos, decoded, Total, exhausted, Leader),
               pos' = pos + Asset!ReadCount(pos, decoded, Total, exhausted, Leader),
               decoded' = decoded + Asset!Delivered(decoded, Leader)
        PROVE  AssetInv'
    <3>1. Asset!ReadCount(pos, decoded, Total, exhausted, Leader) \in Nat
      BY AssetCountsUp, AssetSizing, Sizing DEF AssetInv
    <3>2. Asset!Delivered(decoded, Leader) \in Nat
      BY AssetSizing DEF AssetInv, Asset!Delivered, Asset!Smaller
    <3>3. examined \in Nat
      BY <2>3 DEF AssetInv, Asset!Opened
    <3>4. examined' \in Nat /\ pos' \in Nat /\ decoded' \in Nat
      BY <2>3, <3>1, <3>2, <3>3 DEF AssetInv
    <3>5. examined' # Asset!Done
      BY <3>4 DEF Asset!Done
    <3>. QED
      BY <2>1, <2>3, <3>4, <3>5 DEF AssetInv
  <2>. QED
    BY <1>1, <2>2, <2>3 DEF Asset!CompareRound
<1>2. ASSUME NEW n \in Reads, Asset!Read(n)
      PROVE  AssetInv'
  <2>. DEFINE count == Asset!Delivered(decoded, n)
              total == Asset!ReadCount(pos, decoded, Asset!NumFrames, exhausted, n)
              ends  == exhausted \/ Asset!Exhausts(decoded, n)
  <2>1. /\ UNCHANGED <<track, trim, examined>> /\ Asset!Opened
        /\ pos' = pos + total /\ decoded' = decoded + count
    BY <1>2 DEF Asset!Read, Asset!trackVars
  <2>2. exhausted' = ends
    BY <1>2 DEF Asset!Read
  <2>3. ends \in BOOLEAN
    BY DEF Asset!Exhausts
  <2>4. /\ count \in Nat
        /\ pos + total \in 0..Larger(track, Total)
        /\ ends => decoded + count >= track
        /\ ~ends => decoded + count = pos + total
    BY <2>1, AssetCounts, Sizing
  <2>. HIDE DEF count, total, ends
  <2>5. decoded' \in Nat /\ pos' \in Nat
    BY <2>1, <2>4, Sizing DEF AssetInv, Larger
  <2>. QED
    BY <2>1, <2>2, <2>3, <2>4, <2>5 DEF AssetInv
<1>3. ASSUME NEW off \in Seeks, NEW way \in Way, Asset!Seek(off, way)
      PROVE  AssetInv'
  <2>. DEFINE frames == Asset!FramesOfOffset(off * FrameSize, FrameSize, OffsetRange)
              target == Asset!AbsolutePosition(pos, 0, Asset!NumFrames, frames, way)
              start  == Asset!Start(target, trim)
  <2>1. /\ UNCHANGED <<track, trim, examined>>
        /\ pos' = start /\ decoded' = start /\ exhausted' = FALSE
    BY <1>3 DEF Asset!Seek, Asset!trackVars
  <2>3. target \in Int /\ trim \in Int /\ track \in Nat
    BY AssetTarget, AssetSizing DEF AssetInv
  <2>. HIDE DEF target
  <2>4. start \in 0..(Total - 1) /\ start \in 0..Larger(track, Total)
    BY <2>3, AssetStarted
  <2>5. start \in Nat
    BY <2>4, Sizing
  <2>. HIDE DEF start
  <2>. QED
    BY <2>1, <2>4, <2>5 DEF AssetInv
<1>4. CASE Asset!Tell
  BY <1>4 DEF AssetInv, Asset!Tell, Asset!trackVars
<1>. QED
  BY <1>1, <1>2, <1>3, <1>4 DEF AssetStep

-----------------------------------------------------------------------------
(* FLAC: the block, the position and the decoder.                          *)

\* The block ends where the decoder is; what is left of it begins at the position.
FlacInv ==
  /\ decoder \in {"frames", "ended", "failing", "aborted", "stuck"}
  /\ available \in BOOLEAN /\ reading \in BOOLEAN
  /\ decoded \in 0..Total /\ pos \in Nat
  /\ buffer \in Seq(Int) /\ offset \in 0..Len(buffer)
  /\ out \in Seq(Int) /\ want \in Nat /\ Len(out) <= want
  /\ ~reading => out = <<>>
  /\ \A i \in 1..Len(buffer) : buffer[i] = decoded - Len(buffer) + i - 1
  /\ available => offset < Len(buffer)
  /\ decoder = "ended" => ~available /\ pos + Len(out) = Total
  /\ decoder # "aborted" /\ available => decoded - Len(buffer) + offset = pos + Len(out)
  /\ decoder = "frames" /\ ~available => offset = 0 /\ decoded = pos + Len(out)

LEMMA InitFlac == Flac!Init => FlacInv
<1>. SUFFICES ASSUME Flac!Init PROVE FlacInv
  OBVIOUS
<1>1. /\ buffer = <<>> /\ offset = 0 /\ available = FALSE /\ pos = 0
      /\ decoder = "frames" /\ decoded = 0
      /\ reading = FALSE /\ want = 0 /\ out = <<>>
  BY DEF Flac!Init
<1>2. available \in BOOLEAN /\ reading \in BOOLEAN
  BY <1>1
<1>. QED
  BY <1>1, <1>2, Sizing DEF FlacInv

LEMMA FlacAgrees == FlacInv => Flac!BufferIsAtPosition
<1>. SUFFICES ASSUME FlacInv, decoder # "aborted"
              PROVE  /\ available => buffer[offset + 1] = pos + Len(out)
                     /\ available => decoded = buffer[Len(buffer)] + 1
                     /\ ~available /\ decoder = "frames" => decoded = pos + Len(out)
                     /\ decoder = "ended" /\ ~available => pos + Len(out) = Total
  BY DEF Flac!BufferIsAtPosition
<1>1. ASSUME available
      PROVE  buffer[offset + 1] = pos + Len(out) /\ decoded = buffer[Len(buffer)] + 1
  <2>1. offset + 1 \in 1..Len(buffer) /\ Len(buffer) \in 1..Len(buffer)
    BY <1>1 DEF FlacInv
  <2>2. /\ buffer[offset + 1] = decoded - Len(buffer) + (offset + 1) - 1
        /\ buffer[Len(buffer)] = decoded - Len(buffer) + Len(buffer) - 1
    BY <2>1 DEF FlacInv
  <2>. QED
    BY <1>1, <2>1, <2>2, Sizing DEF FlacInv
<1>. QED
  BY <1>1 DEF FlacInv

\* A block holds at least the frame it is looked for.
LEMMA BlockEnds ==
  ASSUME NEW f \in Nat, f < Total
  PROVE  Flac!BlockEnd(f) \in (f + 1)..Total
<1>1. BlockSize \in Nat \ {0}
  BY SourcesAssumption DEF Flac!FlacSourceAssumption
<1>2. \A b \in Nat \ {0} : (f \div b) \in Nat /\ (f \div b) * b + b > f
  OBVIOUS
<1>3. \A q \in Nat, b \in Nat : (q + 1) * b = q * b + b
  OBVIOUS
<1>4. (f \div BlockSize + 1) * BlockSize > f
  BY <1>1, <1>2, <1>3
<1>5. (f \div BlockSize + 1) * BlockSize \in Int
  BY <1>1, <1>2
<1>. DEFINE e == (f \div BlockSize + 1) * BlockSize
<1>6. Flac!BlockEnd(f) = Flac!Smaller(Total, e)
  BY DEF Flac!BlockEnd
<1>. HIDE DEF e
<1>7. e \in Int /\ e > f
  BY <1>4, <1>5 DEF e
<1>. QED
  BY <1>6, <1>7, Sizing DEF Flac!Smaller

\* Decoding a block from frame f on, and what the buffer is then.
LEMMA BlockDecoded ==
  ASSUME NEW f \in Nat, f < Total
  PROVE  LET block == Flac!Frames(f, Flac!BlockEnd(f) - 1) IN
         /\ block \in Seq(Int)
         /\ Len(block) = Flac!BlockEnd(f) - f /\ Len(block) > 0
         /\ \A i \in 1..Len(block) : block[i] = Flac!BlockEnd(f) - Len(block) + i - 1
<1>. DEFINE e == Flac!BlockEnd(f)
            block == Flac!Frames(f, e - 1)
<1>1. e \in Int /\ e > f
  BY BlockEnds, Sizing
<1>. HIDE DEF e
<1>2. (e - 1) - f + 1 = e - f /\ e - f \in Nat
  BY <1>1
<1>3. block = [i \in 1..(e - f) |-> f + i - 1]
  BY <1>2 DEF Flac!Frames
<1>. HIDE DEF block
<1>4. /\ block \in Seq(Int) /\ Len(block) = e - f
      /\ \A i \in 1..(e - f) : block[i] = f + i - 1
  BY <1>1, <1>2, <1>3
<1>5. \A i \in 1..Len(block) : block[i] = e - Len(block) + i - 1
  BY <1>1, <1>4
<1>. QED
  BY <1>1, <1>4, <1>5 DEF block, e

LEMMA FlacDecodeBlock ==
  ASSUME FlacInv, Flac!DecodeBlock
  PROVE  FlacInv'
<1>. DEFINE e == Flac!BlockEnd(decoded)
<1>1. /\ buffer' = Flac!Frames(decoded, e - 1)
      /\ available' = TRUE /\ decoded' = e
      /\ UNCHANGED <<offset, pos, decoder, reading, want, out>>
      /\ decoder = "frames" /\ decoded < Total /\ ~available
  BY DEF Flac!DecodeBlock, Flac!NeedsBlock, Flac!callVars
<1>2. decoded \in Nat
  BY Sizing DEF FlacInv
<1>3. e \in 0..Total /\ e > decoded
  BY <1>1, <1>2, BlockEnds, Sizing
<1>4. /\ buffer' \in Seq(Int) /\ Len(buffer') = e - decoded /\ Len(buffer') > 0
      /\ \A i \in 1..Len(buffer') : buffer'[i] = e - Len(buffer') + i - 1
  BY <1>1, <1>2, BlockDecoded
<1>. HIDE DEF e
<1>5. offset = 0 /\ decoded = pos + Len(out)
  BY <1>1 DEF FlacInv
<1>6. e - Len(buffer') + offset = pos + Len(out)
  BY <1>2, <1>3, <1>4, <1>5, Sizing
<1>7. available' \in BOOLEAN /\ reading' \in BOOLEAN
  BY <1>1 DEF FlacInv
<1>. QED
  BY <1>1, <1>2, <1>3, <1>4, <1>5, <1>6, <1>7 DEF FlacInv

\* What a copy adds to the frames of the read.
LEMMA FlacCopied ==
  ASSUME FlacInv, Flac!Copy
  PROVE  LET count == Flac!Smaller(Len(buffer) - offset, want - Len(out)) IN
         /\ count \in Nat /\ offset + count <= Len(buffer) /\ Len(out) + count <= want
         /\ out' \in Seq(Int) /\ Len(out') = Len(out) + count
<1>. DEFINE count == Flac!Smaller(Len(buffer) - offset, want - Len(out))
            part  == SubSeq(buffer, offset + 1, offset + count)
<1>1. out' = out \o part /\ Len(out) < want
  BY DEF Flac!Copy
<1>2. /\ Len(buffer) \in Nat /\ offset \in 0..Len(buffer)
      /\ Len(out) \in Nat /\ want \in Nat /\ decoded \in Int /\ pos \in Nat
  BY Sizing DEF FlacInv
<1>3. count \in Nat /\ offset + count <= Len(buffer) /\ Len(out) + count <= want
  BY <1>1, <1>2 DEF Flac!Smaller
<1>. HIDE DEF count
<1>4. part \in Seq(Int) /\ Len(part) = count
  <2>1. \A i \in (offset + 1)..(offset + count) : buffer[i] \in Int
    BY <1>2, <1>3 DEF FlacInv
  <2>2. offset + 1 \in Int /\ offset + count \in Int
    BY <1>2, <1>3
  <2>3. /\ part \in Seq(Int)
        /\ Len(part) = IF offset + 1 <= offset + count
                       THEN (offset + count) - (offset + 1) + 1 ELSE 0
    BY <2>1, <2>2, SubSeqProperties
  <2>. HIDE DEF part
  <2>. QED
    BY <1>2, <1>3, <2>3
<1>. HIDE DEF part
<1>5. out' \in Seq(Int) /\ Len(out') = Len(out) + count
  <2>1. out \in Seq(Int)
    BY DEF FlacInv
  <2>. QED
    BY <1>1, <1>4, <2>1, ConcatProperties
<1>. QED
  BY <1>3, <1>5 DEF count

LEMMA FlacCopy ==
  ASSUME FlacInv, Flac!Copy
  PROVE  FlacInv'
<1>. DEFINE count == Flac!Smaller(Len(buffer) - offset, want - Len(out))
            whole == offset + count = Len(buffer)
<1>1. /\ offset' = IF whole THEN 0 ELSE offset + count
      /\ available' = (available /\ ~whole)
      /\ UNCHANGED <<buffer, pos, decoder, decoded, reading, want>>
      /\ reading /\ Len(out) < want /\ (available \/ decoder = "aborted")
  BY DEF Flac!Copy, Flac!decoderVars
<1>2. /\ Len(buffer) \in Nat /\ offset \in 0..Len(buffer)
      /\ Len(out) \in Nat /\ want \in Nat /\ decoded \in Int /\ pos \in Nat
  BY Sizing DEF FlacInv
<1>3. count \in Nat /\ offset + count <= Len(buffer) /\ Len(out) + count <= want
  BY FlacCopied
<1>. HIDE DEF count
<1>5. out' \in Seq(Int) /\ Len(out') = Len(out) + count
  BY FlacCopied DEF count
<1>6. available' \in BOOLEAN /\ reading' \in BOOLEAN
  BY <1>1 DEF FlacInv
<1>7. decoder # "aborted" => available /\ decoded - Len(buffer) + offset = pos + Len(out)
  BY <1>1 DEF FlacInv
<1>8. CASE whole
  <2>1. offset' = 0 /\ available' = FALSE
    BY <1>1, <1>8
  <2>2. decoder # "aborted" => decoder # "ended" /\ decoded = pos + Len(out')
    <3>1. offset + count = Len(buffer)
      BY <1>8
    <3>2. decoder # "aborted" => decoder # "ended"
      BY <1>7 DEF FlacInv
    <3>. QED
      BY <1>2, <1>3, <1>5, <1>7, <3>1, <3>2, SMTT(30)
  <2>. QED
    BY <1>1, <1>2, <1>3, <1>5, <1>6, <2>1, <2>2 DEF FlacInv
<1>9. CASE ~whole
  <2>1. offset' = offset + count /\ available' = available
    <3>1. available \in BOOLEAN
      BY DEF FlacInv
    <3>. QED
      BY <1>1, <1>9, <3>1
  <2>2. offset + count < Len(buffer)
    BY <1>2, <1>3, <1>9
  <2>3. decoder # "aborted" =>
          available /\ decoder # "ended" /\ decoded - Len(buffer) + offset' = pos + Len(out')
    <3>1. decoder # "aborted" => decoder # "ended"
      BY <1>7 DEF FlacInv
    <3>. HIDE DEF whole
    <3>. QED
      BY <1>2, <1>3, <1>5, <1>7, <2>1, <3>1
  <2>. HIDE DEF whole
  <2>. QED
    BY <1>1, <1>2, <1>3, <1>5, <1>6, <2>1, <2>2, <2>3 DEF FlacInv
<1>. QED
  BY <1>8, <1>9

LEMMA FlacReturn ==
  ASSUME FlacInv, Flac!Return
  PROVE  FlacInv'
<1>1. /\ pos' = pos + Len(out)
      /\ reading' = FALSE /\ want' = 0 /\ out' = <<>>
      /\ decoder' = IF decoder = "failing" THEN "aborted" ELSE decoder
      /\ UNCHANGED <<buffer, offset, available, decoded>>
  BY DEF Flac!Return, Flac!blockVars
<1>2. available' \in BOOLEAN /\ reading' \in BOOLEAN
  BY <1>1 DEF FlacInv
<1>3. pos' \in Nat /\ Len(out') = 0
  BY <1>1 DEF FlacInv
<1>4. decoder' # "aborted" => decoder' = decoder /\ decoder # "aborted"
  BY <1>1
<1>. QED
  BY <1>1, <1>2, <1>3, <1>4 DEF FlacInv

LEMMA FlacSeek ==
  ASSUME FlacInv, NEW off \in Int, NEW way \in Way, Flac!Seek(off, way)
  PROVE  FlacInv'
<1>. DEFINE target == Flac!AbsolutePosition(pos, 0, Total, off, way)
<1>1. target \in 0..Total
  BY Sizing DEF FlacInv, Flac!AbsolutePosition, Flac!AnchorOf, Flac!Clamp, Way
<1>. HIDE DEF target
<1>2. /\ ~reading /\ out = <<>> /\ UNCHANGED <<reading, want, out>>
      /\ Flac!SeekFinds(target) \/ Flac!SeekRefused(target) \/ Flac!SeekFails(target)
  BY DEF FlacInv, Flac!Seek, Flac!callVars, target
<1>3. reading' \in BOOLEAN
  BY <1>2 DEF FlacInv
<1>4. CASE Flac!SeekFinds(target)
  <2>. DEFINE e == Flac!BlockEnd(target)
  <2>1. /\ buffer' = Flac!Frames(target, e - 1) /\ offset' = 0 /\ available' = TRUE
        /\ decoder' = "frames" /\ decoded' = e /\ pos' = target /\ target < Total
    BY <1>4 DEF Flac!SeekFinds
  <2>2. target \in Nat /\ available' \in BOOLEAN
    BY <1>1, <2>1, Sizing
  <2>3. e \in 0..Total /\ e > target
    BY <2>1, <2>2, BlockEnds, Sizing
  <2>4. /\ buffer' \in Seq(Int) /\ Len(buffer') = e - target /\ Len(buffer') > 0
        /\ \A i \in 1..Len(buffer') : buffer'[i] = e - Len(buffer') + i - 1
    BY <2>1, <2>2, BlockDecoded
  <2>. HIDE DEF e
  <2>5. Len(out') = 0
    BY <1>2
  <2>6. e - Len(buffer') + 0 = target + 0
    BY <2>2, <2>3, <2>4, Sizing
  <2>. QED
    BY <1>2, <1>3, <2>1, <2>2, <2>3, <2>4, <2>5, <2>6 DEF FlacInv
<1>5. CASE Flac!SeekRefused(target)
  BY <1>2, <1>5 DEF FlacInv, Flac!SeekRefused, Flac!blockVars, Flac!decoderVars
<1>6. CASE Flac!SeekFails(target)
  <2>1. UNCHANGED <<buffer, offset, available, pos, decoded>> /\ decoder' \in {"aborted", "stuck"}
        /\ decoder \in {"frames", "ended"}
    BY <1>6 DEF Flac!SeekFails, Flac!blockVars
  <2>. QED
    BY <1>2, <2>1 DEF FlacInv
<1>. QED
  BY <1>2, <1>4, <1>5, <1>6

LEMMA FlacStepKeeps ==
  ASSUME FlacInv, FlacStep
  PROVE  FlacInv'
<1>1. ASSUME NEW n \in Reads, Flac!BeginRead(n)
      PROVE  FlacInv'
  <2>1. /\ UNCHANGED <<buffer, offset, available, pos, decoder, decoded>>
        /\ ~reading /\ out = <<>>
        /\ reading' = TRUE /\ want' = n /\ out' = <<>>
    BY <1>1 DEF FlacInv, Flac!BeginRead, Flac!blockVars, Flac!decoderVars
  <2>2. reading' \in BOOLEAN
    BY <2>1
  <2>. QED
    BY <2>1, <2>2, Sizing DEF FlacInv
<1>2. CASE Flac!DecodeEnd \/ Flac!DecodeAborts
  <2>1. /\ UNCHANGED <<buffer, offset, available, pos, decoded, reading, want, out>>
        /\ decoder = "frames" /\ ~available
        /\ \/ decoder' = "ended" /\ decoded = Total
           \/ decoder' \in {"aborted", "failing"}
    BY <1>2 DEF Flac!DecodeEnd, Flac!DecodeAborts, Flac!NeedsBlock, Flac!blockVars, Flac!callVars
  <2>. QED
    BY <2>1 DEF FlacInv
<1>. QED
  BY <1>1, <1>2, FlacDecodeBlock, FlacCopy, FlacReturn, FlacSeek, Sizing DEF FlacStep, Flac!Internal

-----------------------------------------------------------------------------
(* The stream, whichever its source is.                                    *)

\* Until one is opened every source is as it begins; then the one opened keeps its
\* invariant.
IInv ==
  /\ opened \in {"no", "flac"} => FlacInv
  /\ opened \in {"no", "ogg"} => OggInv
  /\ opened \in {"no", "core audio"} => CoreInv
  /\ opened \in {"no", "asset"} => AssetInv

LEMMA InitIInv == Init => IInv
<1>1. Init => Flac!Init /\ Ogg!Init /\ Core!Init /\ Asset!Init
  BY DEF Init
<1>. QED
  BY <1>1, InitFlac, InitOgg, InitCore, InitAsset DEF IInv

LEMMA NextIInv ==
  ASSUME IInv, [Next]_vars
  PROVE  IInv'
<1>1. CASE SourceSteps /\ opened' = opened
  BY <1>1, FlacStepKeeps, OggStepKeeps, CoreStepKeeps, AssetStepKeeps DEF IInv, SourceSteps
<1>2. CASE UNCHANGED sourceVars /\ (opened' = opened \/ opened = "no")
  <2>1. /\ UNCHANGED <<pos, decoded, reading, want, out, got, answer>>
        /\ UNCHANGED <<decodable, buffer, offset, available, decoder>>
        /\ UNCHANGED <<gap, lost>>
        /\ UNCHANGED <<damaged, device, deviceAt, position, call>>
        /\ UNCHANGED <<mp3, track, differs, examined, trim, exhausted>>
    BY <1>2 DEF sourceVars, callVars, flacVars, oggVars, coreVars, assetVars
  <2>2. FlacInv => FlacInv'
    BY <2>1 DEF FlacInv
  <2>3. OggInv => OggInv'
    BY <2>1 DEF OggInv, Consecutive, Ogg!HoleEndsTheRead, Ogg!LibraryIsAtPosition
  <2>4. CoreInv => CoreInv'
    BY <2>1 DEF CoreInv, Core!CallbackReadsWhereAsked, Core!DeviceSeek, Core!DeviceReads
  <2>5. AssetInv => AssetInv'
    BY <2>1 DEF AssetInv
  <2>. QED
    BY <1>2, <2>2, <2>3, <2>4, <2>5 DEF IInv
<1>. QED
  BY <1>1, <1>2, StepShape

LEMMA IInvAlways == Spec => []IInv
BY InitIInv, NextIInv, PTL DEF Spec

\* For every file and build: the positions that three sources keep beside those of
\* their decoders are right until frames are lost, the decoder aborted, or the track
\* exhausted (m_pos of flac_source and ogg_source, Impl::m_framePos).
THEOREM PositionsAlwaysAgree == Spec => []PositionsAgree
<1>1. AssetInv => Asset!ReaderIsAtPosition
  BY AssetSizing, Sizing
     DEF AssetInv, Asset!ReaderIsAtPosition, Asset!Opened, Asset!NumFrames, Asset!Larger, Larger
<1>2. OggInv => Ogg!LibraryIsAtPosition
  BY DEF OggInv
<1>3. IInv => PositionsAgree
  BY <1>1, <1>2, FlacAgrees DEF IInv, PositionsAgree
<1>. QED
  BY <1>3, IInvAlways, PTL

\* No read of an OGG file joins the frames on the two sides of a hole, wherever the
\* holes are and however libvorbis cuts its packets (the loop of ogg_source::read).
THEOREM HolesEndReads == Spec => []HoleEndsTheRead
<1>1. IInv => HoleEndsTheRead
  BY DEF IInv, OggInv, HoleEndsTheRead
<1>. QED
  BY <1>1, IInvAlways, PTL

\* The callback under Core Audio hands out the bytes of the position it is asked for,
\* whatever the system asks for and in whichever order, over a vector as over a file
\* (AudioFileReadProc leaves out the seek when it remembers that position).
THEOREM CallbacksReadWhereAsked == Spec => []CallbackReadsWhereAsked
<1>1. IInv => CallbackReadsWhereAsked
  BY DEF IInv, CoreInv, CallbackReadsWhereAsked
<1>. QED
  BY <1>1, IInvAlways, PTL

-----------------------------------------------------------------------------
(* Opening.                                                                *)

\* What a container opens is a source, or unsupported when the build has none.
LEMMA ContainerHasSource ==
  ASSUME NEW b \in Builds, NEW c, NEW stream
  PROVE  OpenContainer(b, c, stream) # "no"
<1>1. CASE c \in b.decodes
  <2>1. c \in Containers
    BY <1>1, MediaFileAssumption
  <2>. QED
    BY <2>1 DEF OpenContainer, SourceOf, SystemSource, Containers
<1>2. CASE c \notin b.decodes
  BY <1>2 DEF OpenContainer
<1>. QED
  BY <1>1, <1>2

LEMMA ReadableFileHasSource ==
  ASSUME NEW b \in Builds, NEW f, f.how = "url", CanRead(b, f)
  PROVE  Open(b, f) # "unsupported"
<1>. DEFINE c == CHOOSE c \in ContainersOf(b, f) : TRUE
<1>1. ~IsITunes(b, f) /\ c \in b.decodes
  BY DEF CanRead, ContainersOf
<1>2. c \in Containers
  BY <1>1, MediaFileAssumption
<1>3. Open(b, f) = OpenContainer(b, c, 0)
  BY <1>1 DEF Open
<1>. HIDE DEF c
<1>4. OpenContainer(b, c, 0) = SourceOf(b, c)
  BY <1>1 DEF OpenContainer
<1>5. SourceOf(b, c) # "unsupported"
  BY <1>2 DEF SourceOf, SystemSource, Containers
<1>. QED
  BY <1>3, <1>4, <1>5

\* In every build, a url that can_read_file promises to read is opened by a source, or
\* found malformed by one, and never refused as unsupported (iotools.cpp against the
\* constructors of ifstream).
THEOREM ReadableFilesOpen == Spec => []ReadableOpens
<1>. DEFINE Inv == ReadableOpens /\ (opened = "no" => build \in Builds)
<1>1. Init => Inv
  BY DEF Init, ReadableOpens
<1>2. Inv /\ [Next]_vars => Inv'
  <2>. SUFFICES ASSUME Inv, [Next]_vars PROVE Inv'
    OBVIOUS
  <2>1. CASE OpenFile
    <3>1. opened' # "no"
      <4>1. opened' = Open(build, request) \/ opened' = "malformed"
        BY <2>1 DEF OpenFile
      <4>2. Open(build, request) # "no"
        BY <2>1, ContainerHasSource DEF OpenFile, Open
      <4>. QED
        BY <4>1, <4>2
    <3>2. ASSUME opened' = "unsupported", request'.how = "url"
          PROVE  ~CanRead(build', request')
      <4>1. Open(build, request) = "unsupported" /\ build \in Builds
        BY <2>1, <3>2 DEF OpenFile
      <4>2. build' = build /\ request' = request
        BY <2>1, <3>2 DEF OpenFile
      <4>. QED
        BY <3>2, <4>1, <4>2, ReadableFileHasSource
    <3>. QED
      BY <3>1, <3>2 DEF ReadableOpens
  <2>2. CASE UNCHANGED streamVars
    BY <2>2 DEF streamVars, ReadableOpens, CanRead, ContainersOf, IsITunes
  <2>3. OpenFile \/ UNCHANGED streamVars
    BY DEF Next, Read, SourceStep, SeekStream, Refuse, ClearState, BeginCopy, CopyNothing, CopyOn,
           DropCopy, vars
  <2>. QED
    BY <2>1, <2>2, <2>3
<1>. QED
  BY <1>1, <1>2, PTL DEF Spec

-----------------------------------------------------------------------------
(* The types.                                                              *)

\* What the sources' invariants leave open.
FlacTyped ==
  /\ decodable \in Lengths
  /\ Len(buffer) <= decoded
  /\ buffer # <<>> => offset < Len(buffer)
  /\ decoder # "aborted" => pos + Len(out) <= Total
  /\ answer.pos \in Nat

OggTyped ==
  /\ lost => Ogg!Damaged
  /\ Len(out) <= want
  /\ answer.pos \in Nat

CoreTyped ==
  /\ damaged \in BOOLEAN
  /\ decoded \in 0..Total /\ pos \in 0..Total
  /\ reading \in BOOLEAN /\ want \in Nat /\ pos + want <= Total
  /\ ~reading => want = 0
  /\ answer.pos \in 0..Total

AssetTyped ==
  /\ mp3 \in BOOLEAN /\ track \in Tracks /\ differs \in 0..track
  /\ exhausted \in BOOLEAN
  /\ answer.pos \in Nat

StreamTyped ==
  /\ opened = "no" => build \in Builds
  /\ opened \in {"no", "unsupported", "malformed", "pcm", "media foundation"}
                  \cup {"flac", "ogg", "core audio", "asset"}
  /\ state \in {"good", "eof", "failed"}
  /\ copying \in {"no", "begun", "done", "empty"}

Typed ==
  /\ StreamTyped
  /\ opened \in {"no", "flac"} => FlacTyped
  /\ opened \in {"no", "ogg"} => OggTyped
  /\ opened \in {"no", "core audio"} => CoreTyped
  /\ opened \in {"no", "asset"} => AssetTyped

LEMMA InitTyped == Init => Typed
<1>. SUFFICES ASSUME Init PROVE Typed
  OBVIOUS
<1>1. Flac!Init /\ Ogg!Init /\ Core!Init /\ Asset!Init
  BY DEF Init
<1>2. FlacTyped
  BY <1>1, Sizing DEF Flac!Init, Flac!NoSeek, FlacTyped
<1>3. OggTyped
  BY <1>1 DEF Ogg!Init, Ogg!NoSeek, OggTyped
<1>4. CoreTyped
  <2>1. reading \in BOOLEAN
    BY <1>1 DEF Core!Init
  <2>. QED
    BY <1>1, <2>1, Sizing DEF Core!Init, Core!NoSeek, CoreTyped
<1>5. AssetTyped
  <2>1. exhausted \in BOOLEAN
    BY <1>1 DEF Asset!Init
  <2>2. differs \in 0..track
    BY <1>1, AssetSizing DEF Asset!Init, Asset!Smaller
  <2>. QED
    BY <1>1, <2>1, <2>2 DEF Asset!Init, Asset!NoSeek, AssetTyped
<1>6. StreamTyped
  BY DEF Init, StreamTyped
<1>. QED
  BY <1>2, <1>3, <1>4, <1>5, <1>6 DEF Typed

LEMMA FlacTypedStep ==
  ASSUME FlacInv, FlacTyped, FlacStep
  PROVE  FlacTyped'
<1>. USE Sizing
<1>1. ASSUME NEW n \in Reads, Flac!BeginRead(n)
      PROVE  FlacTyped'
  BY <1>1 DEF FlacInv, FlacTyped, Flac!BeginRead, Flac!blockVars, Flac!decoderVars
<1>2. CASE Flac!DecodeBlock
  <2>. DEFINE e == Flac!BlockEnd(decoded)
  <2>1. /\ decoder = "frames" /\ ~available /\ decoded < Total
        /\ buffer' = Flac!Frames(decoded, e - 1) /\ decoded' = e
        /\ UNCHANGED <<decodable, offset, pos, decoder, out, answer>>
    BY <1>2 DEF Flac!DecodeBlock, Flac!NeedsBlock, Flac!callVars
  <2>2. decoded \in Nat /\ offset = 0
    BY <2>1 DEF FlacInv
  <2>3. e \in 0..Total /\ e > decoded
    BY <2>1, <2>2, BlockEnds
  <2>4. Len(buffer') = e - decoded
    BY <2>1, <2>2, BlockDecoded
  <2>. HIDE DEF e
  <2>. QED
    BY <2>1, <2>2, <2>3, <2>4 DEF FlacTyped
<1>3. CASE Flac!DecodeEnd \/ Flac!DecodeAborts
  <2>1. /\ UNCHANGED <<decodable, buffer, offset, available, pos, decoded, out, answer>>
        /\ decoder = "frames"
    BY <1>3 DEF Flac!DecodeEnd, Flac!DecodeAborts, Flac!blockVars, Flac!callVars
  <2>. QED
    BY <2>1 DEF FlacTyped
<1>4. CASE Flac!Copy
  <2>1. FlacInv'
    BY FlacStepKeeps
  <2>2. PICK count \in Nat :
          /\ offset + count <= Len(buffer) /\ Len(out') = Len(out) + count
          /\ offset' = IF offset + count = Len(buffer) THEN 0 ELSE offset + count
    BY <1>4, FlacCopied DEF Flac!Copy
  <2>3. /\ UNCHANGED <<decodable, buffer, pos, decoder, decoded, answer>>
        /\ available \/ decoder = "aborted"
    BY <1>4 DEF Flac!Copy, Flac!decoderVars
  <2>4. buffer # <<>> => offset' < Len(buffer)
    BY <2>2 DEF FlacInv
  <2>5. ASSUME decoder # "aborted"
        PROVE  pos + Len(out') <= Total
    BY <2>1, <2>2, <2>3, <2>5 DEF FlacInv, FlacTyped
  <2>. QED
    BY <2>3, <2>4, <2>5 DEF FlacTyped
<1>5. CASE Flac!Return
  <2>1. /\ UNCHANGED <<decodable, buffer, offset, decoded>>
        /\ pos' = pos + Len(out) /\ out' = <<>> /\ answer' = Flac!NoSeek
        /\ decoder = "aborted" => decoder' = "aborted"
    BY <1>5 DEF Flac!Return, Flac!blockVars
  <2>. QED
    BY <2>1 DEF FlacInv, FlacTyped, Flac!NoSeek
<1>6. ASSUME NEW off \in Seeks, NEW way \in Way, Flac!Seek(off, way)
      PROVE  FlacTyped'
  <2>1. PICK target \in 0..Total :
          /\ Flac!SeekFinds(target) \/ Flac!SeekRefused(target) \/ Flac!SeekFails(target)
          /\ answer' = [way |-> way, off |-> off, pos |-> pos'] /\ UNCHANGED out /\ ~reading
    <3>. DEFINE target == Flac!AbsolutePosition(pos, 0, Total, off, way)
    <3>1. target \in 0..Total
      BY DEF FlacInv, Flac!AbsolutePosition, Flac!AnchorOf, Flac!Clamp, Way
    <3>2. /\ Flac!SeekFinds(target) \/ Flac!SeekRefused(target) \/ Flac!SeekFails(target)
          /\ answer' = [way |-> way, off |-> off, pos |-> pos'] /\ UNCHANGED out /\ ~reading
      BY <1>6 DEF Flac!Seek, Flac!callVars
    <3>. HIDE DEF target
    <3>. QED
      BY <3>1, <3>2
  <2>2. CASE Flac!SeekFinds(target)
    <3>. DEFINE e == Flac!BlockEnd(target)
    <3>1. /\ buffer' = Flac!Frames(target, e - 1) /\ offset' = 0 /\ decoded' = e /\ pos' = target
          /\ target < Total /\ UNCHANGED decodable
      BY <2>2 DEF Flac!SeekFinds
    <3>. HIDE DEF e
    <3>2. target \in Nat
      OBVIOUS
    <3>3. e \in 0..Total /\ e > target
      BY <3>1, <3>2, BlockEnds DEF e
    <3>4. Len(buffer') = e - target
      BY <3>1, <3>2, BlockDecoded DEF e
    <3>5. Len(out') = 0 /\ answer'.pos = pos'
      BY <2>1 DEF FlacInv
    <3>. QED
      BY <3>1, <3>2, <3>3, <3>4, <3>5 DEF FlacTyped
  <2>3. CASE Flac!SeekRefused(target) \/ Flac!SeekFails(target)
    <3>1. UNCHANGED <<decodable, buffer, offset, pos, decoded>> /\ (decoder = "aborted" => decoder' = "aborted")
      BY <2>3 DEF Flac!SeekRefused, Flac!SeekFails, Flac!blockVars, Flac!decoderVars
    <3>. QED
      BY <2>1, <3>1 DEF FlacInv, FlacTyped
  <2>. QED
    BY <2>1, <2>2, <2>3
<1>. QED
  BY <1>1, <1>2, <1>3, <1>4, <1>5, <1>6 DEF FlacStep, Flac!Internal

LEMMA OggTypedStep ==
  ASSUME OggInv, OggTyped, OggStep
  PROVE  OggTyped'
<1>. USE Sizing
<1>1. ASSUME NEW n \in Reads, Ogg!BeginRead(n)
      PROVE  OggTyped'
  BY <1>1 DEF OggTyped, Ogg!BeginRead, Ogg!libraryVars, Ogg!Damaged
<1>2. CASE Ogg!Deliver
  <2>1. PICK count \in 1..Ogg!Smaller(ChunkSize, want - Len(out)) :
          out' = out \o [i \in 1..count |-> decoded + i - 1]
    BY <1>2 DEF Ogg!Deliver
  <2>2. UNCHANGED <<gap, lost, want, answer>> /\ Len(out) < want
    BY <1>2 DEF Ogg!Deliver
  <2>3. count \in Nat /\ Len(out) + count <= want
    BY <2>2, SourcesAssumption DEF OggInv, Ogg!Smaller, Ogg!OggSourceAssumption
  <2>. DEFINE new == [i \in 1..count |-> decoded + i - 1]
  <2>4. new \in Seq(Int) /\ Len(new) = count
    BY <2>3 DEF OggInv
  <2>5. out \in Seq(Int)
    BY DEF OggInv
  <2>. HIDE DEF new
  <2>6. Len(out') = Len(out) + count
    BY <2>1, <2>4, <2>5, ConcatProperties DEF new
  <2>. QED
    BY <2>2, <2>3, <2>6 DEF OggTyped, Ogg!Damaged
<1>3. CASE Ogg!Return
  <2>1. /\ UNCHANGED gap /\ answer' = Ogg!NoSeek /\ want' = 0 /\ out' = <<>>
        /\ lost' = lost \/ Ogg!Damaged
    BY <1>3 DEF Ogg!Return, Ogg!EndOfLoop, Ogg!CrossHole, Ogg!AtHole
  <2>. QED
    BY <2>1 DEF OggTyped, Ogg!Damaged, Ogg!NoSeek
<1>4. ASSUME NEW off \in Seeks, NEW way \in Way, Ogg!Seek(off, way)
      PROVE  OggTyped'
  <2>1. /\ UNCHANGED <<gap, reading, want, out>>
        /\ answer'.pos = pos'
        /\ lost' => Ogg!Damaged
    BY <1>4 DEF Ogg!Seek, Ogg!SeekFinds, Ogg!SeekFails, Ogg!callVars
  <2>2. OggInv'
    BY OggStepKeeps
  <2>. QED
    BY <2>1, <2>2 DEF OggInv, OggTyped, Ogg!Damaged
<1>. QED
  BY <1>1, <1>2, <1>3, <1>4 DEF OggStep, Ogg!Internal

LEMMA CoreTypedStep ==
  ASSUME CoreInv, CoreTyped, CoreStep
  PROVE  CoreTyped'
<1>. USE Sizing DEF CoreTyped
<1>1. CASE Core!Return
  <2>1. /\ damaged' = damaged /\ answer' = Core!NoSeek /\ reading' = FALSE /\ want' = 0
        /\ decoded' <= Total
        /\ \/ pos' = pos + want /\ decoded' = decoded + want
           \/ \E count \in 0..(want - 1) : pos' = pos + count /\ decoded' = decoded + count
           \/ pos' = pos /\ decoded' \in 0..Total
    BY <1>1 DEF Core!Return, Core!Delivers
  <2>2. reading' \in BOOLEAN /\ damaged' \in BOOLEAN
    BY <2>1
  <2>3. pos' \in 0..Total /\ decoded' \in 0..Total
    BY <2>1
  <2>4. want' = 0 /\ answer'.pos = 0
    BY <2>1 DEF Core!NoSeek
  <2>5. 0 \in Nat /\ 0 \in 0..Total /\ \A p \in 0..Total : p + 0 <= Total
    OBVIOUS
  <2>6. want' \in Nat /\ pos' + want' <= Total /\ answer'.pos \in 0..Total
    BY <2>3, <2>4, <2>5, Zenon
  <2>. QED
    BY <2>2, <2>3, <2>4, <2>6
<1>2. ASSUME NEW asked \in Asked, NEW size \in Sizes, Core!ReadProc(asked, size)
      PROVE  CoreTyped'
  BY <1>2 DEF Core!ReadProc
<1>3. ASSUME NEW n \in Reads, Core!BeginRead(n)
      PROVE  CoreTyped'
  <2>1. /\ UNCHANGED <<damaged, decoded, pos, answer>>
        /\ reading' = TRUE /\ want' = Core!Smaller(n, Total - pos)
    BY <1>3 DEF Core!BeginRead
  <2>2. reading' \in BOOLEAN
    BY <2>1
  <2>. QED
    BY <2>1, <2>2 DEF Core!Smaller
<1>4. ASSUME NEW off \in Seeks, NEW way \in Way, Core!Seek(off, way)
      PROVE  CoreTyped'
  <2>. DEFINE target == Core!AbsolutePosition(pos, 0, Total, off, way)
  <2>1. target \in 0..Total
    BY DEF Core!AbsolutePosition, Core!AnchorOf, Core!Clamp, Way
  <2>. HIDE DEF target
  <2>2. /\ UNCHANGED <<damaged, reading, want>> /\ ~reading
        /\ answer'.pos = pos'
        /\ \/ pos' = target /\ decoded' = IF target = pos THEN decoded ELSE target
           \/ decoded' \in 0..Total /\ pos' = pos
    BY <1>4 DEF Core!Seek, target
  <2>3. damaged' \in BOOLEAN /\ reading' \in BOOLEAN
    BY <2>2
  <2>. QED
    BY <2>1, <2>2, <2>3
<1>. QED
  BY <1>1, <1>2, <1>3, <1>4 DEF CoreStep

LEMMA AssetTypedStep ==
  ASSUME AssetInv, AssetTyped, AssetStep
  PROVE  AssetTyped'
<1>. USE AssetSizing, Sizing
<1>1. UNCHANGED <<mp3, track, differs>>
  BY DEF AssetStep, Asset!CompareRound, Asset!Read, Asset!Tell, Asset!Seek, Asset!trackVars
<1>2. exhausted' \in BOOLEAN
  <2>1. \/ exhausted' = exhausted \/ exhausted' = FALSE
        \/ \E from \in {decoded}, size \in Reads \cup {Leader} :
             exhausted' = Asset!Exhausts(from, size) \/ exhausted' = (exhausted \/ Asset!Exhausts(from, size))
    BY DEF AssetStep, Asset!CompareRound, Asset!Determined, Asset!Read, Asset!Tell, Asset!Seek
  <2>2. \A from, size : Asset!Exhausts(from, size) \in BOOLEAN
    BY DEF Asset!Exhausts
  <2>. QED
    BY <2>1, <2>2 DEF AssetTyped
<1>3. answer'.pos \in Nat
  <2>1. CASE Asset!CompareRound
    BY <2>1 DEF Asset!CompareRound, AssetTyped
  <2>2. ASSUME NEW n \in Reads, Asset!Read(n)
        PROVE  answer'.pos \in Nat
    BY <2>2 DEF Asset!Read, Asset!NoSeek
  <2>3. CASE Asset!Tell
    BY <2>3 DEF Asset!Tell, AssetInv
  <2>4. ASSUME NEW off \in Seeks, NEW way \in Way, Asset!Seek(off, way)
        PROVE  answer'.pos \in Nat
    BY <2>4, AssetTarget DEF Asset!Seek
  <2>. QED
    BY <2>1, <2>2, <2>3, <2>4 DEF AssetStep
<1>. QED
  BY <1>1, <1>2, <1>3 DEF AssetTyped

\* What an opening answers.
LEMMA OpenAnswers ==
  ASSUME NEW b \in Builds, NEW f
  PROVE  Open(b, f) \in {"unsupported", "pcm", "media foundation", "flac", "ogg", "core audio", "asset"}
<1>1. ASSUME NEW c, NEW stream
      PROVE  OpenContainer(b, c, stream) \in {"unsupported", "pcm", "media foundation", "flac", "ogg", "core audio"}
  <2>1. c \in b.decodes => c \in Containers
    BY MediaFileAssumption
  <2>. QED
    BY <2>1 DEF OpenContainer, SourceOf, SystemSource, Containers
<1>. QED
  BY <1>1 DEF Open

LEMMA StreamTypedStep ==
  ASSUME StreamTyped, [Next]_vars
  PROVE  StreamTyped'
<1>1. CASE OpenFile
  <2>1. /\ opened' = Open(build, request) \/ opened' = "malformed"
        /\ copying' = copying /\ state' = state
        /\ build \in Builds
    BY <1>1 DEF OpenFile, copyVars, StreamTyped
  <2>. QED
    BY <2>1, OpenAnswers DEF StreamTyped
<1>2. \/ OpenFile
      \/ /\ UNCHANGED streamVars
         /\ copying' \in {copying, "no", "begun", "done", "empty"}
         /\ state' \in {state, "good", "eof", "failed"}
  BY DEF Next, Read, SourceStep, SeekStream, Refuse, ClearState, BeginCopy, CopyNothing, CopyOn,
         DropCopy, vars, streamVars, copyVars
<1>. QED
  BY <1>1, <1>2 DEF StreamTyped, streamVars

LEMMA TypedStep ==
  ASSUME IInv, Typed, [Next]_vars
  PROVE  Typed'
<1>1. StreamTyped'
  BY StreamTypedStep DEF Typed
<1>2. CASE SourceSteps /\ opened' = opened
  BY <1>1, <1>2, FlacTypedStep, OggTypedStep, CoreTypedStep, AssetTypedStep DEF IInv, Typed, SourceSteps
<1>3. CASE UNCHANGED sourceVars /\ (opened' = opened \/ opened = "no")
  <2>1. /\ UNCHANGED <<pos, decoded, reading, want, out, got, answer>>
        /\ UNCHANGED <<decodable, buffer, offset, available, decoder>>
        /\ UNCHANGED <<gap, lost>>
        /\ UNCHANGED <<damaged, device, deviceAt, position, call>>
        /\ UNCHANGED <<mp3, track, differs, examined, trim, exhausted>>
    BY <1>3 DEF sourceVars, callVars, flacVars, oggVars, coreVars, assetVars
  <2>2. FlacTyped => FlacTyped'
    BY <2>1 DEF FlacTyped
  <2>3. OggTyped => OggTyped'
    BY <2>1 DEF OggTyped, Ogg!Damaged
  <2>4. CoreTyped => CoreTyped'
    BY <2>1 DEF CoreTyped
  <2>5. AssetTyped => AssetTyped'
    BY <2>1 DEF AssetTyped
  <2>. QED
    BY <1>1, <1>3, <2>2, <2>3, <2>4, <2>5 DEF Typed
<1>. QED
  BY <1>2, <1>3, StepShape

LEMMA TypedIsTypeOK == IInv /\ Typed => TypeOK
<1>. SUFFICES ASSUME IInv, Typed PROVE TypeOK
  OBVIOUS
<1>. USE Sizing
<1>1. ASSUME FlacInv, FlacTyped
      PROVE  Flac!TypeOK
  <2>1. buffer \in Seq(0..Total)
    <3>1. \A i \in 1..Len(buffer) : buffer[i] \in 0..Total
      BY <1>1 DEF FlacInv, FlacTyped
    <3>2. buffer \in Seq(Int)
      BY <1>1 DEF FlacInv
    <3>. QED
      BY <3>1, <3>2
  <2>2. available => buffer # <<>>
    BY <1>1 DEF FlacInv
  <2>3. decoder # "aborted" => pos <= Total
    BY <1>1 DEF FlacInv, FlacTyped
  <2>. QED
    BY <1>1, <2>1, <2>2, <2>3 DEF FlacInv, FlacTyped, Flac!TypeOK
<1>2. ASSUME OggInv, OggTyped
      PROVE  Ogg!TypeOK
  BY <1>2 DEF OggInv, OggTyped, Ogg!TypeOK, Ogg!LibraryIsAtPosition
<1>3. ASSUME CoreInv, CoreTyped
      PROVE  Core!TypeOK
  <2>1. FileSize \in Nat
    BY SourcesAssumption DEF Core!CoreAudioSourceAssumption
  <2>2. deviceAt \in Nat /\ (device = "vector" => deviceAt <= FileSize)
    BY <1>3, <2>1 DEF CoreInv, Core!DeviceSeek, Core!Smaller
  <2>. QED
    BY <1>3, <2>2 DEF CoreInv, CoreTyped, Core!TypeOK
<1>4. ASSUME AssetInv, AssetTyped
      PROVE  Asset!TypeOK
  BY <1>4 DEF AssetInv, AssetTyped, Asset!TypeOK
<1>. QED
  BY <1>1, <1>2, <1>3, <1>4 DEF IInv, Typed, StreamTyped, TypeOK

\* Whichever source an opening picks keeps its types for every build, file, and
\* sequence of calls; among them, that a FLAC block is never used up and available,
\* that no read asks Core Audio for frames behind the last, and that positions stay
\* inside the sound until frames are lost or the decoder is aborted.
THEOREM TypeCorrect == Spec => []TypeOK
<1>1. IInv /\ Typed /\ [Next]_vars => Typed'
  BY TypedStep
<1>2. Spec => []Typed
  BY <1>1, InitTyped, IInvAlways, PTL DEF Spec
<1>. QED
  BY <1>2, TypedIsTypeOK, IInvAlways, PTL

(***************************************************************************)
(* That the sources of MediaFile implement FrameDevice: whichever one an   *)
(* opening picks, the layer above meets a row of frames with a position,   *)
(* until the source breaks. And that a copy of a sound file is whole.      *)
(***************************************************************************)

-----------------------------------------------------------------------------
(* What a read has gathered are the frames that follow the position.       *)

FlacRow ==
  /\ reading => want \in Reads
  /\ ~Flac!GivenUp => \A i \in 1..Len(out) : out[i] = pos + i - 1

OggRow ==
  /\ reading => want \in Reads /\ Len(out) <= want
  /\ \A i \in 1..Len(out) : out[i] = decoded - Len(out) + i - 1

\* The system is asked for no more than is left.
CoreRow ==
  /\ damaged \in BOOLEAN
  /\ pos \in 0..Total
  /\ reading => \E n \in Reads : want = Core!Smaller(n, Total - pos)
  /\ ~damaged => decoded = pos

-----------------------------------------------------------------------------
\* A seek of any source goes where one of the row goes.
LEMMA Targets ==
  ASSUME pos \in Nat, NEW off \in Int, NEW way \in Way
  PROVE  LET target == Device!Within(Device!From(way) + off) IN
         /\ Flac!AbsolutePosition(pos, 0, Total, off, way) = target
         /\ Ogg!AbsolutePosition(pos, 0, Total, off, way) = target
         /\ Core!AbsolutePosition(pos, 0, Total, off, way) = target
         /\ target \in 0..Total
<1>. USE Sizing
     DEF Flac!AbsolutePosition, Flac!AnchorOf, Flac!Clamp,
         Ogg!AbsolutePosition, Ogg!AnchorOf, Ogg!Clamp,
         Core!AbsolutePosition, Core!AnchorOf, Core!Clamp, Device!Within, Device!From
<1>1. CASE way = "beg"
  BY <1>1
<1>2. CASE way = "cur"
  BY <1>2
<1>3. CASE way = "end"
  BY <1>3
<1>. QED
  BY <1>1, <1>2, <1>3 DEF Way

-----------------------------------------------------------------------------
(* FLAC.                                                                   *)

\* Until the decoder is given up the read stays inside the row.
LEMMA FlacInside ==
  ASSUME FlacInv, ~Flac!GivenUp
  PROVE  /\ pos + Len(out) <= Total /\ pos \in Nat /\ Len(out) \in Nat
         /\ available => /\ offset + 1 \in 1..Len(buffer)
                         /\ decoded - Len(buffer) + offset = pos + Len(out)
         /\ ~available => offset = 0 \/ decoder = "ended"
<1>1. decoder \in {"frames", "ended"}
  BY DEF FlacInv, Flac!GivenUp
<1>2. /\ Len(buffer) \in Nat /\ offset \in 0..Len(buffer) /\ Len(out) \in Nat
      /\ decoded \in 0..Total /\ pos \in Nat
  BY DEF FlacInv
<1>3. CASE available
  BY <1>1, <1>2, <1>3, Sizing DEF FlacInv
<1>4. CASE ~available
  BY <1>1, <1>2, <1>4, Sizing DEF FlacInv
<1>. QED
  BY <1>3, <1>4

LEMMA FlacRowStep ==
  ASSUME FlacInv, FlacRow, FlacStep
  PROVE  FlacRow'
<1>1. ASSUME NEW n \in Reads, Flac!BeginRead(n)
      PROVE  FlacRow'
  BY <1>1 DEF Flac!BeginRead, FlacRow
<1>2. CASE Flac!DecodeBlock \/ Flac!DecodeEnd \/ Flac!DecodeAborts
  <2>1. UNCHANGED <<pos, reading, want, out>> /\ ~Flac!GivenUp
    BY <1>2 DEF Flac!DecodeBlock, Flac!DecodeEnd, Flac!DecodeAborts, Flac!callVars, Flac!GivenUp
  <2>. QED
    BY <2>1 DEF FlacRow
<1>3. CASE Flac!Copy
  <2>. DEFINE count == Flac!Smaller(Len(buffer) - offset, want - Len(out))
              part  == SubSeq(buffer, offset + 1, offset + count)
  <2>1. /\ out' = out \o part /\ Len(out) < want
        /\ UNCHANGED <<buffer, pos, decoder, decoded, reading, want>>
        /\ available \/ decoder = "aborted"
    BY <1>3 DEF Flac!Copy, Flac!decoderVars
  <2>2. /\ Len(buffer) \in Nat /\ offset \in 0..Len(buffer) /\ Len(out) \in Nat
        /\ want \in Nat /\ decoded \in Int /\ pos \in Nat
    BY Sizing DEF FlacInv
  <2>3. count \in Nat /\ offset + count <= Len(buffer)
    BY <2>1, <2>2 DEF Flac!Smaller
  <2>. HIDE DEF count
  <2>4. /\ part \in Seq(Int) /\ Len(part) = count
        /\ \A i \in 1..count : part[i] = buffer[offset + i]
    <3>1. /\ \A i \in (offset + 1)..(offset + count) : buffer[i] \in Int
          /\ offset + 1 \in Int /\ offset + count \in Int
      BY <2>2, <2>3 DEF FlacInv
    <3>2. /\ part \in Seq(Int)
          /\ Len(part) = IF offset + 1 <= offset + count
                         THEN (offset + count) - (offset + 1) + 1 ELSE 0
          /\ \A i \in 1..((offset + count) - (offset + 1) + 1) : part[i] = buffer[(offset + 1) + i - 1]
      BY <3>1, SubSeqProperties
    <3>. HIDE DEF part
    <3>3. (offset + count) - (offset + 1) + 1 = count
      BY <2>2, <2>3
    <3>4. \A i \in 1..count : (offset + 1) + i - 1 = offset + i
      BY <2>2, <2>3
    <3>. QED
      BY <2>2, <2>3, <3>2, <3>3, <3>4
  <2>. HIDE DEF part
  <2>5. /\ Len(out') = Len(out) + count
        /\ \A i \in 1..Len(out') : out'[i] = IF i <= Len(out) THEN out[i] ELSE part[i - Len(out)]
    <3>1. out \in Seq(Int)
      BY DEF FlacInv
    <3>2. /\ Len(out \o part) = Len(out) + Len(part)
          /\ \A i \in 1..(Len(out) + Len(part)) :
               (out \o part)[i] = IF i <= Len(out) THEN out[i] ELSE part[i - Len(out)]
      BY ONLY <2>4, <3>1, ConcatProperties
    <3>. QED
      BY <2>1, <2>4, <3>2
  <2>6. ASSUME ~Flac!GivenUp, NEW i \in 1..Len(out')
        PROVE  out'[i] = pos + i - 1
    <3>1. CASE i <= Len(out)
      <4>1. i \in 1..Len(out)
        BY <2>2, <2>3, <2>5, <3>1
      <4>. QED
        BY <2>5, <2>6, <3>1, <4>1 DEF FlacRow
    <3>2. CASE ~(i <= Len(out))
      <4>1. i - Len(out) \in 1..count
        BY <2>2, <2>3, <2>5, <3>2
      <4>2. out'[i] = buffer[offset + (i - Len(out))]
        BY <2>4, <2>5, <3>2, <4>1
      <4>3. offset + (i - Len(out)) \in 1..Len(buffer)
        BY <2>2, <2>3, <4>1
      <4>4. buffer[offset + (i - Len(out))] = decoded - Len(buffer) + (offset + (i - Len(out))) - 1
        BY <4>3 DEF FlacInv
      <4>5. available
        BY <2>1, <2>6 DEF Flac!GivenUp
      <4>6. decoded - Len(buffer) + offset = pos + Len(out)
        BY <2>6, <4>5, FlacInside
      <4>. QED
        BY <2>2, <4>2, <4>4, <4>6
    <3>. QED
      BY <3>1, <3>2
  <2>7. Flac!GivenUp' <=> Flac!GivenUp
    BY <2>1 DEF Flac!GivenUp
  <2>. QED
    BY <2>1, <2>6, <2>7 DEF FlacRow
<1>4. CASE Flac!Return
  BY <1>4 DEF Flac!Return, FlacRow
<1>5. ASSUME NEW off \in Seeks, NEW way \in Way, Flac!Seek(off, way)
      PROVE  FlacRow'
  <2>1. ~reading /\ out = <<>> /\ UNCHANGED <<reading, want, out>>
    BY <1>5 DEF Flac!Seek, Flac!callVars, FlacInv
  <2>. QED
    BY <2>1 DEF FlacRow
<1>. QED
  BY <1>1, <1>2, <1>3, <1>4, <1>5 DEF FlacStep, Flac!Internal

\* A read of FLAC is one of the row.
LEMMA FlacReturns ==
  ASSUME FlacInv, FlacRow, Flac!Return, ~Flac!GivenUp'
  PROVE  Device!Read(want) /\ want \in Reads /\ ~Flac!GivenUp
<1>1. ~Flac!GivenUp /\ reading /\ pos' = pos + Len(out) /\ got' = out /\ answer' = Device!NoSeek
  BY DEF Flac!Return, Flac!GivenUp, Flac!NoSeek, Device!NoSeek
<1>2. Len(out) = want \/ (~available /\ decoder = "ended")
  BY <1>1 DEF Flac!Return, Flac!GivenUp
<1>3. /\ pos + Len(out) <= Total /\ pos \in Nat /\ Len(out) \in Nat /\ Len(out) <= want /\ want \in Nat
  BY <1>1, FlacInside DEF FlacInv
<1>4. Len(out) = IF want <= Total - pos THEN want ELSE Total - pos
  <2>1. CASE Len(out) = want
    BY <1>3, <2>1, Sizing
  <2>2. CASE ~available /\ decoder = "ended"
    <3>1. pos + Len(out) = Total
      BY <2>2 DEF FlacInv
    <3>. QED
      BY <1>3, <3>1, Sizing
  <2>. QED
    BY <1>2, <2>1, <2>2
<1>5. out = [i \in 1..Len(out) |-> pos + i - 1]
  <2>1. \A i \in 1..Len(out) : out[i] = pos + i - 1
    BY <1>1 DEF FlacRow
  <2>2. out = [i \in 1..Len(out) |-> out[i]]
    BY DEF FlacInv
  <2>. QED
    BY <2>1, <2>2
<1>6. Device!Read(want)
  BY <1>1, <1>4, <1>5 DEF Device!Read
<1>. QED
  BY <1>1, <1>6 DEF FlacRow

\* Steps of a FLAC source, seen from above.
LEMMA FlacDevice ==
  ASSUME FlacInv, FlacRow, FlacStep, opened = "flac", opened' = "flac", 0 \in Offsets
  PROVE  Device!Next \/ (UNCHANGED <<pos, got, answer>> /\ Broken' = Broken)
<1>1. /\ Broken = Flac!GivenUp
      /\ Broken' = Flac!GivenUp'
  BY DEF Broken
<1>2. CASE Flac!GivenUp'
  BY <1>1, <1>2 DEF Device!Next
<1>3. CASE ~Flac!GivenUp' /\ Flac!Return
  BY <1>1, <1>3, FlacReturns DEF Device!Next, Reads
<1>4. ASSUME NEW off \in Seeks, NEW way \in Way, ~Flac!GivenUp', Flac!Seek(off, way)
      PROVE  Device!Next
  <2>. PICK target : target = Flac!AbsolutePosition(pos, 0, Total, off, way)
    OBVIOUS
  <2>1. /\ Flac!SeekFinds(target) \/ Flac!SeekRefused(target) \/ Flac!SeekFails(target)
        /\ got' = <<>> /\ answer' = [way |-> way, off |-> off, pos |-> pos']
    BY <1>4 DEF Flac!Seek
  <2>2. ~Flac!SeekFails(target)
    BY <1>4 DEF Flac!SeekFails, Flac!GivenUp
  <2>3. off \in Offsets /\ off \in Int /\ pos \in Nat
    BY Sizing DEF Seeks, FlacInv
  <2>4. target = Device!Within(Device!From(way) + off)
    BY <2>3, Targets
  <2>5. target \in 0..Total
    BY <2>3, Sizing DEF Flac!AbsolutePosition, Flac!AnchorOf, Flac!Clamp, Way
  <2>6. Device!Seek(off, way)
    <3>1. CASE Flac!SeekFinds(target)
      BY <2>1, <2>4, <3>1 DEF Flac!SeekFinds, Device!Seek
    <3>2. CASE Flac!SeekRefused(target)
      <4>1. pos' = pos /\ decoder' = decoder
        BY <3>2 DEF Flac!SeekRefused, Flac!decoderVars
      <4>2. ~Flac!GivenUp
        BY <1>4, <4>1 DEF Flac!GivenUp
      <4>3. target >= Total
        BY <3>2, <4>2 DEF Flac!SeekRefused, Flac!GivenUp
      <4>4. target = Total
        BY <2>5, <4>3, Sizing
      <4>. QED
        BY <1>1, <2>1, <2>4, <4>1, <4>2, <4>4 DEF Device!Seek
    <3>. QED
      BY <2>1, <2>2, <3>1, <3>2
  <2>. QED
    BY <1>1, <1>4, <2>3, <2>6 DEF Device!Next, Way
<1>5. CASE \/ \E n \in Reads : Flac!BeginRead(n)
           \/ Flac!DecodeBlock \/ Flac!DecodeEnd \/ Flac!Copy
  <2>1. UNCHANGED <<pos, got, answer>>
    BY <1>5 DEF Flac!BeginRead, Flac!DecodeBlock, Flac!DecodeEnd, Flac!Copy
  <2>2. Flac!GivenUp' <=> Flac!GivenUp
    BY <1>5 DEF Flac!BeginRead, Flac!DecodeBlock, Flac!DecodeEnd, Flac!Copy, Flac!decoderVars, Flac!GivenUp
  <2>3. Flac!GivenUp' = Flac!GivenUp
    BY <2>2 DEF Flac!GivenUp
  <2>. QED
    BY <1>1, <2>1, <2>3
<1>6. CASE Flac!DecodeAborts
  BY <1>2, <1>6 DEF Flac!DecodeAborts, Flac!GivenUp
<1>. QED
  BY <1>2, <1>3, <1>4, <1>5, <1>6 DEF FlacStep, Flac!Internal

-----------------------------------------------------------------------------
(* OGG.                                                                    *)

LEMMA OggRowStep ==
  ASSUME OggInv, OggRow, OggStep
  PROVE  OggRow'
<1>1. ASSUME NEW n \in Reads, Ogg!BeginRead(n)
      PROVE  OggRow'
  <2>1. reading' = TRUE /\ want' = n /\ out' = <<>> /\ n \in Nat
    BY <1>1, Sizing DEF Ogg!BeginRead
  <2>. QED
    BY <2>1 DEF OggRow
<1>2. CASE Ogg!Deliver
  <2>1. PICK count \in 1..Ogg!Smaller(ChunkSize, want - Len(out)) :
          /\ out' = out \o [i \in 1..count |-> decoded + i - 1]
          /\ decoded' = decoded + count
    BY <1>2 DEF Ogg!Deliver
  <2>2. /\ reading /\ UNCHANGED <<reading, want>> /\ want \in Nat /\ Len(out) \in Nat
        /\ decoded \in Nat /\ ChunkSize \in Nat \ {0}
    BY <1>2, SourcesAssumption, Sizing DEF Ogg!Deliver, OggInv, Ogg!OggSourceAssumption
  <2>3. count \in Nat \ {0} /\ Len(out) + count <= want
    BY <2>2 DEF Ogg!Smaller
  <2>. DEFINE new == [i \in 1..count |-> decoded + i - 1]
  <2>4. /\ new \in Seq(Nat) /\ Len(new) = count
        /\ \A i \in 1..count : new[i] = decoded + i - 1
    BY <2>2, <2>3
  <2>5. out' = out \o new
    BY <2>1
  <2>. HIDE DEF new
  <2>6. /\ Len(out') = Len(out) + count
        /\ \A i \in 1..(Len(out) + count) :
             out'[i] = IF i <= Len(out) THEN out[i] ELSE new[i - Len(out)]
    <3>1. out \in Seq(Nat)
      BY DEF OggInv
    <3>2. /\ Len(out \o new) = Len(out) + Len(new)
          /\ \A i \in 1..(Len(out) + Len(new)) :
               (out \o new)[i] = IF i <= Len(out) THEN out[i] ELSE new[i - Len(out)]
      BY ONLY <2>4, <3>1, ConcatProperties
    <3>. QED
      BY <2>4, <2>5, <3>2
  <2>7. ASSUME NEW i \in 1..(Len(out) + count)
        PROVE  out'[i] = decoded - Len(out) + i - 1
    <3>1. CASE i <= Len(out)
      <4>1. i \in 1..Len(out)
        BY <2>2, <3>1
      <4>. QED
        BY <2>6, <3>1, <4>1 DEF OggRow
    <3>2. CASE ~(i <= Len(out))
      <4>1. i - Len(out) \in 1..count
        BY <2>2, <2>3, <3>2
      <4>2. out'[i] = decoded + (i - Len(out)) - 1
        BY <2>4, <2>6, <3>2, <4>1
      <4>. QED
        BY <2>2, <4>2
    <3>. QED
      BY <3>1, <3>2
  <2>8. decoded' - Len(out') = decoded - Len(out)
    BY <2>1, <2>2, <2>3, <2>6
  <2>. QED
    BY <2>2, <2>3, <2>6, <2>7, <2>8 DEF OggRow
<1>3. CASE Ogg!Return
  BY <1>3 DEF Ogg!Return, OggRow
<1>4. ASSUME NEW off \in Seeks, NEW way \in Way, Ogg!Seek(off, way)
      PROVE  OggRow'
  <2>1. ~reading /\ out = <<>> /\ UNCHANGED <<reading, want, out>>
    BY <1>4 DEF Ogg!Seek, Ogg!callVars, OggInv
  <2>. QED
    BY <2>1 DEF OggRow
<1>. QED
  BY <1>1, <1>2, <1>3, <1>4 DEF OggStep, Ogg!Internal

\* A read of OGG that loses nothing is one of the row.
LEMMA OggReturns ==
  ASSUME OggInv, OggRow, Ogg!Return, ~lost'
  PROVE  Device!Read(want) /\ want \in Reads /\ ~lost
<1>1. ~Ogg!CrossHole /\ UNCHANGED <<lost, decoded>> /\ (Len(out) = want \/ decoded = Total)
  BY DEF Ogg!Return, Ogg!EndOfLoop, Ogg!CrossHole
<1>2. ~lost /\ reading /\ pos' = pos + Len(out) /\ got' = out /\ answer' = Device!NoSeek
  BY <1>1 DEF Ogg!Return, Ogg!NoSeek, Device!NoSeek
<1>3. /\ decoded = pos + Len(out) /\ decoded \in 0..Total /\ pos \in Nat
      /\ Len(out) \in Nat /\ Len(out) <= want /\ want \in Nat /\ want \in Reads
  BY <1>2 DEF OggInv, OggRow, Ogg!LibraryIsAtPosition
<1>4. Len(out) = IF want <= Total - pos THEN want ELSE Total - pos
  BY <1>1, <1>3, Sizing
<1>5. out = [i \in 1..Len(out) |-> pos + i - 1]
  <2>1. \A i \in 1..Len(out) : out[i] = pos + i - 1
    BY <1>3 DEF OggRow
  <2>2. out = [i \in 1..Len(out) |-> out[i]]
    BY DEF OggInv
  <2>. QED
    BY <2>1, <2>2
<1>6. Device!Read(want)
  BY <1>2, <1>4, <1>5 DEF Device!Read
<1>. QED
  BY <1>2, <1>3, <1>6

\* Steps of an OGG source, seen from above.
LEMMA OggDevice ==
  ASSUME OggInv, OggRow, OggStep, opened = "ogg", opened' = "ogg", 0 \in Offsets
  PROVE  Device!Next \/ (UNCHANGED <<pos, got, answer>> /\ Broken' = Broken)
<1>1. Broken = lost /\ Broken' = lost'
  BY DEF Broken
<1>2. CASE lost'
  BY <1>1, <1>2 DEF Device!Next
<1>3. CASE ~lost' /\ Ogg!Return
  BY <1>1, <1>3, OggReturns DEF Device!Next, Reads
<1>4. ASSUME NEW off \in Seeks, NEW way \in Way, ~lost', Ogg!Seek(off, way)
      PROVE  Device!Next
  <2>. PICK target : target = Ogg!AbsolutePosition(pos, 0, Total, off, way)
    OBVIOUS
  <2>1. /\ Ogg!SeekFinds(target) \/ Ogg!SeekFails
        /\ got' = <<>> /\ answer' = [way |-> way, off |-> off, pos |-> pos']
    BY <1>4 DEF Ogg!Seek
  <2>2. pos' = target
    BY <1>4, <2>1 DEF Ogg!SeekFinds, Ogg!SeekFails
  <2>3. off \in Offsets /\ off \in Int /\ pos \in Nat
    BY Sizing DEF Seeks, OggInv
  <2>4. target = Device!Within(Device!From(way) + off)
    BY <2>3, Targets
  <2>5. Device!Seek(off, way)
    BY <2>1, <2>2, <2>4 DEF Device!Seek
  <2>. QED
    BY <1>1, <1>4, <2>3, <2>5 DEF Device!Next, Way
<1>5. CASE (\E n \in Reads : Ogg!BeginRead(n)) \/ Ogg!Deliver
  BY <1>1, <1>5 DEF Ogg!BeginRead, Ogg!Deliver, Ogg!libraryVars
<1>. QED
  BY <1>2, <1>3, <1>4, <1>5 DEF OggStep, Ogg!Internal

-----------------------------------------------------------------------------
(* Core Audio.                                                             *)

LEMMA CoreInside == CoreRow => pos \in 0..Total /\ pos \in Nat
BY Sizing DEF CoreRow

\* What the system may hand out, and where a seek goes, is in the row.
LEMMA CoreRowStep ==
  ASSUME CoreRow, CoreStep
  PROVE  CoreRow'
<1>1. pos \in 0..Total /\ pos \in Nat
  BY CoreInside
<1>2. ASSUME NEW n \in Reads, Core!BeginRead(n)
      PROVE  CoreRow'
  <2>1. want' = Core!Smaller(n, Total - pos) /\ UNCHANGED <<pos, damaged, decoded>>
    BY <1>2 DEF Core!BeginRead
  <2>. QED
    BY <2>1 DEF CoreRow
<1>3. CASE Core!Return
  <2>1. PICK n \in Reads : want = Core!Smaller(n, Total - pos)
    BY <1>3 DEF Core!Return, CoreRow
  <2>2. want \in Nat /\ pos + want <= Total
    <3>1. n \in Nat
      BY Sizing
    <3>. QED
      BY <1>1, <2>1, <3>1, Sizing DEF Core!Smaller
  <2>3. ~reading' /\ damaged' = damaged
    BY <1>3 DEF Core!Return
  <2>4. pos' \in 0..Total /\ (~damaged => decoded' = pos')
    <3>1. CASE Core!Delivers(want)
      BY <1>1, <2>2, <3>1, Sizing DEF Core!Delivers, CoreRow
    <3>2. CASE damaged /\ \E count \in 0..(want - 1) : Core!Delivers(count)
      BY <1>1, <2>2, <3>2, Sizing DEF Core!Delivers
    <3>3. CASE damaged /\ UNCHANGED pos
      BY <1>1, <3>3
    <3>. QED
      BY <1>3, <3>1, <3>2, <3>3 DEF Core!Return
  <2>. QED
    BY <2>3, <2>4 DEF CoreRow
<1>4. ASSUME NEW off \in Seeks, NEW way \in Way, Core!Seek(off, way)
      PROVE  CoreRow'
  <2>. PICK target : target = Core!AbsolutePosition(pos, 0, Total, off, way)
    OBVIOUS
  <2>1. /\ ~reading /\ UNCHANGED <<damaged, reading>>
        /\ \/ pos' = target /\ decoded' = IF target = pos THEN decoded ELSE target
           \/ damaged /\ UNCHANGED pos
    BY <1>4 DEF Core!Seek
  <2>2. off \in Int
    BY Sizing
  <2>3. target \in 0..Total
    BY <1>1, <2>2, Targets
  <2>. QED
    BY <1>1, <2>1, <2>3 DEF CoreRow
<1>5. ASSUME NEW asked \in Asked, NEW size \in Sizes, Core!ReadProc(asked, size)
      PROVE  CoreRow'
  BY <1>5 DEF Core!ReadProc, CoreRow
<1>. QED
  BY <1>2, <1>3, <1>4, <1>5 DEF CoreStep

\* A read over Core Audio is one of the row.
LEMMA CoreReturns ==
  ASSUME CoreRow, Core!Return, ~damaged, NEW n, want = Core!Smaller(n, Total - pos)
  PROVE  Device!Read(n)
<1>1. Core!Delivers(want) /\ answer' = Device!NoSeek
  BY DEF Core!Return, Core!NoSeek, Device!NoSeek
<1>2. decoded = pos
  BY DEF CoreRow
<1>. QED
  BY <1>1, <1>2 DEF Core!Delivers, Core!Smaller, Device!Read

\* Steps of a source over Core Audio, seen from above.
LEMMA CoreDevice ==
  ASSUME CoreRow, CoreStep, opened = "core audio", opened' = "core audio", 0 \in Offsets
  PROVE  Device!Next \/ (UNCHANGED <<pos, got, answer>> /\ Broken' = Broken)
<1>0. pos \in Nat
  BY CoreInside
<1>1. Broken = damaged /\ Broken' = damaged' /\ damaged' = damaged
  BY DEF Broken, CoreStep, Core!Return, Core!BeginRead, Core!Seek, Core!ReadProc
<1>2. CASE damaged
  BY <1>1, <1>2 DEF Device!Next
<1>3. CASE ~damaged /\ Core!Return
  <2>1. PICK n \in Reads : want = Core!Smaller(n, Total - pos)
    BY <1>3 DEF Core!Return, CoreRow
  <2>. QED
    BY <1>1, <1>3, <2>1, CoreReturns DEF Device!Next, Reads
<1>4. ASSUME NEW off \in Seeks, NEW way \in Way, ~damaged, Core!Seek(off, way)
      PROVE  Device!Next
  <2>. DEFINE target == Core!AbsolutePosition(pos, 0, Total, off, way)
  <2>4. \/ pos' = target
        \/ damaged
    BY <1>4 DEF Core!Seek
  <2>5. answer' = [way |-> way, off |-> off, pos |-> pos']
    BY <1>4 DEF Core!Seek
  <2>6. got' = <<>>
    BY <1>4 DEF Core!Seek
  <2>1. /\ pos' = Core!AbsolutePosition(pos, 0, Total, off, way)
        /\ got' = <<>> /\ answer' = [way |-> way, off |-> off, pos |-> pos']
    BY <1>4, <2>4, <2>5, <2>6
  <2>7. off \in Offsets
    BY <1>4 DEF Seeks
  <2>8. off \in Int
    BY <1>4, Sizing
  <2>2. off \in Offsets /\ off \in Int /\ pos \in Nat
    BY <1>0, <2>7, <2>8
  <2>3. Device!Seek(off, way)
    BY <2>1, <2>2, Targets DEF Device!Seek
  <2>. QED
    BY <1>1, <1>4, <2>2, <2>3 DEF Device!Next, Way
<1>5. CASE \/ \E n \in Reads : Core!BeginRead(n)
           \/ \E asked \in Asked, size \in Sizes : Core!ReadProc(asked, size)
  BY <1>1, <1>5 DEF Core!BeginRead, Core!ReadProc
<1>. QED
  BY <1>2, <1>3, <1>4, <1>5 DEF CoreStep

-----------------------------------------------------------------------------
(* The stream, whichever its source is.                                    *)

Rows ==
  /\ opened \in {"no", "flac"} => FlacRow
  /\ opened \in {"no", "ogg"} => OggRow
  /\ opened \in {"no", "core audio"} => CoreRow
  /\ opened = "no" => ~lost

LEMMA InitRows == Init => Rows
<1>. SUFFICES ASSUME Init
              PROVE  Rows
  OBVIOUS
<1>1. Flac!Init /\ Ogg!Init /\ Core!Init
  BY DEF Init
<1>2. FlacRow /\ OggRow /\ CoreRow /\ ~lost
  BY <1>1, Sizing DEF FlacRow, OggRow, CoreRow, Flac!Init, Ogg!Init, Core!Init
<1>. QED
  BY <1>2 DEF Rows

\* A step of the whole, with what opening leaves alone.
LEMMA NextRows ==
  ASSUME IInv, Rows, [Next]_vars
  PROVE  Rows'
<1>1. CASE SourceSteps /\ opened' = opened
  BY <1>1, FlacRowStep, OggRowStep, CoreRowStep DEF IInv, Rows, SourceSteps
<1>2. CASE UNCHANGED sourceVars /\ (opened' = opened \/ opened = "no")
  <2>1. /\ UNCHANGED <<pos, decoded, reading, want, out, got, answer>>
        /\ UNCHANGED <<decoder, lost, damaged>>
    BY <1>2 DEF sourceVars, callVars, flacVars, oggVars, coreVars
  <2>2. (FlacRow => FlacRow') /\ (OggRow => OggRow') /\ (CoreRow => CoreRow')
    BY <2>1 DEF FlacRow, OggRow, CoreRow, Flac!GivenUp
  <2>. QED
    BY <1>2, <2>1, <2>2 DEF Rows
<1>. QED
  BY <1>1, <1>2, StepShape

LEMMA InitIsDevice == Init => Device!Init
<1>. SUFFICES ASSUME Init
              PROVE  Device!Init
  OBVIOUS
<1>1. pos = 0 /\ got = <<>> /\ answer = Device!NoSeek /\ opened = "no"
  BY DEF Init, Ogg!Init, Ogg!NoSeek, Device!NoSeek
<1>2. Broken = FALSE
  BY <1>1 DEF Broken
<1>. QED
  BY <1>1, <1>2 DEF Device!Init

LEMMA StepOfDevice ==
  ASSUME IInv, Rows, 0 \in Offsets, [Next]_vars
  PROVE  [Device!Next]_Device!vars
<1>. USE DEF Device!vars
<1>1. CASE SourceSteps /\ opened' = opened
  <2>1. CASE opened = "asset"
    BY <1>1, <2>1 DEF Broken, Device!Next
  <2>2. CASE opened = "flac" /\ FlacStep
    BY <1>1, <2>2, FlacDevice DEF IInv, Rows
  <2>3. CASE opened = "ogg" /\ OggStep
    BY <1>1, <2>3, OggDevice DEF IInv, Rows
  <2>4. CASE opened = "core audio" /\ CoreStep
    BY <1>1, <2>4, CoreDevice DEF IInv, Rows
  <2>. QED
    BY <1>1, <2>1, <2>2, <2>3, <2>4 DEF SourceSteps
<1>2. CASE UNCHANGED sourceVars /\ (opened' = opened \/ opened = "no")
  <2>1. /\ UNCHANGED <<pos, got, answer>> /\ UNCHANGED <<decoder, lost, damaged>>
    BY <1>2 DEF sourceVars, flacVars, oggVars, coreVars
  <2>2. CASE opened' = opened
    BY <2>1, <2>2 DEF Broken, Flac!GivenUp
  <2>3. CASE opened = "no"
    <3>1. Broken = FALSE
      BY <2>3 DEF Broken
    <3>2. CASE Broken'
      BY <3>2 DEF Device!Next
    <3>3. CASE ~Broken'
      <4>1. Broken' = FALSE
        <5>1. \/ Broken' = (decoder \in {"failing", "aborted", "stuck"})' \/ Broken' = FALSE
              \/ Broken' = lost' \/ Broken' = damaged' \/ Broken' = TRUE
          BY DEF Broken, Flac!GivenUp
        <5>2. lost \in BOOLEAN /\ damaged \in BOOLEAN
          BY <2>3 DEF IInv, OggInv, Rows, CoreRow
        <5>3. lost' \in BOOLEAN
          BY <2>1, <5>2
        <5>4. damaged' \in BOOLEAN
          BY <2>1, <5>2
        <5>. QED
          BY <3>3, <5>1, <5>3, <5>4
      <4>. QED
        BY <2>1, <3>1, <4>1
    <3>. QED
      BY <3>2, <3>3
  <2>. QED
    BY <1>2, <2>2, <2>3
<1>. QED
  BY <1>1, <1>2, StepShape

\* Whichever file is opened in whichever build, every read hands out the frames that
\* follow the position, fewer only at the end, and a seek goes where it is told or is
\* refused at the very end, until the decoder gives up, frames are lost, or the file is
\* damaged (flac_source, ogg_source and core_audio_source: read and seek).
THEOREM SourcesAreRowsOfFrames ==
  ASSUME 0 \in Offsets
  PROVE  Spec => ImplementsFrameDevice
<1>1. 0 \in Offsets
  OBVIOUS
<1>2. IInv /\ Rows /\ [Next]_vars => [Device!Next]_Device!vars
  BY <1>1, StepOfDevice
<1>3. Spec => []Rows
  BY InitRows, NextRows, IInvAlways, PTL DEF Spec
<1>. QED
  BY <1>2, <1>3, InitIsDevice, IInvAlways, PTL DEF Spec, ImplementsFrameDevice, Device!Spec

-----------------------------------------------------------------------------
(* Copies.  The source of a sound file never breaks, so a copy gathers the *)
(* row from its first frame on.                                            *)

Row(n) == [i \in 1..n |-> i - 1]

LEMMA RowIs ==
  ASSUME NEW s \in Seq(Int), NEW n \in Nat, Len(s) = n, \A i \in 1..n : s[i] = i - 1
  PROVE  s = Row(n)
<1>1. s = [i \in 1..Len(s) |-> s[i]]
  OBVIOUS
<1>. QED
  BY <1>1 DEF Row

\* One read of the copy.
LEMMA CopyGrows ==
  ASSUME pos \in 0..Total, copied = Row(pos), Device!Read(BufFrames), copied' = copied \o got'
  PROVE  /\ pos' \in 0..Total
         /\ copied' = Row(pos')
         /\ AtEnd' => pos' = Total
<1>. DEFINE count == IF BufFrames <= Total - pos THEN BufFrames ELSE Total - pos
            new   == [i \in 1..count |-> pos + i - 1]
<1>1. BufFrames \in Nat \ {0} /\ Total \in Nat /\ pos \in Nat
  BY Sizing, MediaFileAssumption
<1>2. got' = new /\ pos' = pos + count
  BY DEF Device!Read
<1>3. count \in Nat /\ pos + count <= Total /\ (count = 0 => pos = Total)
  BY <1>1
<1>. HIDE DEF count
<1>4. /\ new \in Seq(Int) /\ Len(new) = count /\ \A i \in 1..count : new[i] = pos + i - 1
      /\ Row(pos) \in Seq(Int) /\ Len(Row(pos)) = pos /\ \A i \in 1..pos : Row(pos)[i] = i - 1
  BY <1>1, <1>3 DEF Row
<1>. HIDE DEF new
<1>5. /\ Row(pos) \o new \in Seq(Int)
      /\ Len(Row(pos) \o new) = pos + count
      /\ \A i \in 1..(pos + count) : (Row(pos) \o new)[i] = IF i <= pos THEN Row(pos)[i] ELSE new[i - pos]
  <2>1. /\ Row(pos) \o new \in Seq(Int)
        /\ Len(Row(pos) \o new) = Len(Row(pos)) + Len(new)
        /\ \A i \in 1..(Len(Row(pos)) + Len(new)) :
             (Row(pos) \o new)[i] = IF i <= Len(Row(pos)) THEN Row(pos)[i] ELSE new[i - Len(Row(pos))]
    BY ONLY <1>4, ConcatProperties
  <2>. QED
    BY <1>4, <2>1
<1>6. \A i \in 1..(pos + count) : (Row(pos) \o new)[i] = i - 1
  BY <1>1, <1>3, <1>4, <1>5
<1>7. Row(pos) \o new = [i \in 1..(pos + count) |-> i - 1]
  <2>1. pos + count \in Nat
    BY <1>1, <1>3
  <2>. QED
    BY <1>5, <1>6, <2>1, RowIs DEF Row
<1>8. copied' = Row(pos')
  BY <1>2, <1>7 DEF Row
<1>9. ASSUME got' = <<>>
      PROVE  pos' = Total
  <2>1. count = 0
    BY <1>2, <1>4, <1>9
  <2>. QED
    BY <1>1, <1>2, <1>3, <2>1
<1>. QED
  BY <1>1, <1>2, <1>3, <1>8, <1>9 DEF AtEnd

-----------------------------------------------------------------------------
(* A sound file stays so, and its source does not break.                   *)

Unbroken ==
  /\ opened \in {"no", "flac"} /\ decodable = Total => decoder \in {"frames", "ended"}
  /\ opened \in {"no", "ogg"} /\ lost => Ogg!Damaged

LEMMA FlacStaysSound ==
  ASSUME FlacInv, FlacStep, decodable = Total, decoder \in {"frames", "ended"}
  PROVE  decoder' \in {"frames", "ended"}
<1>1. decoded \in 0..Total /\ pos \in Nat
  BY DEF FlacInv
<1>2. ~Flac!DecodeAborts
  <2>. SUFFICES ASSUME decoded < Total
                PROVE  ~(Flac!BlockEnd(decoded) > decodable)
    BY DEF Flac!DecodeAborts
  <2>1. Flac!BlockEnd(decoded) \in (decoded + 1)..Total
    BY <1>1, BlockEnds, Sizing
  <2>. QED
    BY <1>1, <2>1, Sizing
<1>3. CASE Flac!Internal
  BY <1>2, <1>3
     DEF Flac!Internal, Flac!DecodeBlock, Flac!DecodeEnd, Flac!Copy, Flac!Return, Flac!decoderVars
<1>4. ASSUME NEW n \in Reads, Flac!BeginRead(n)
      PROVE  decoder' = decoder
  BY <1>4 DEF Flac!BeginRead, Flac!decoderVars
<1>5. ASSUME NEW off \in Seeks, NEW way \in Way, Flac!Seek(off, way)
      PROVE  decoder' \in {"frames", "ended"}
  <2>. PICK target : target = Flac!AbsolutePosition(pos, 0, Total, off, way)
    OBVIOUS
  <2>1. Flac!SeekFinds(target) \/ Flac!SeekRefused(target) \/ Flac!SeekFails(target)
    BY <1>5 DEF Flac!Seek
  <2>2. off \in Int
    BY Sizing
  <2>3. target \in 0..Total
    BY <1>1, <2>2, Targets
  <2>4. ~Flac!SeekFails(target)
    <3>. SUFFICES ASSUME target < Total
                  PROVE  ~(Flac!BlockEnd(target) > decodable)
      BY DEF Flac!SeekFails
    <3>1. Flac!BlockEnd(target) \in (target + 1)..Total
      BY <2>3, BlockEnds, Sizing
    <3>. QED
      BY <2>3, <3>1, Sizing
  <2>. QED
    BY <2>1, <2>4 DEF Flac!SeekFinds, Flac!SeekRefused, Flac!decoderVars
<1>. QED
  BY <1>3, <1>4, <1>5 DEF FlacStep

LEMMA OggStaysSound ==
  ASSUME OggStep, ~Ogg!Damaged, ~lost
  PROVE  ~lost'
<1>1. ~Ogg!AtHole
  BY DEF Ogg!AtHole
<1>2. CASE Ogg!Internal \/ \E n \in Reads : Ogg!BeginRead(n)
  BY <1>1, <1>2
     DEF Ogg!Internal, Ogg!Deliver, Ogg!Return, Ogg!EndOfLoop, Ogg!CrossHole, Ogg!BeginRead, Ogg!libraryVars
<1>3. ASSUME NEW off \in Seeks, NEW way \in Way, Ogg!Seek(off, way)
      PROVE  ~lost'
  <2>. PICK target : target = Ogg!AbsolutePosition(pos, 0, Total, off, way)
    OBVIOUS
  <2>1. Ogg!SeekFinds(target) \/ Ogg!SeekFails
    BY <1>3 DEF Ogg!Seek
  <2>. QED
    BY <2>1 DEF Ogg!SeekFinds, Ogg!SeekFails
<1>. QED
  BY <1>2, <1>3 DEF OggStep

\* What a file has does not change.
LEMMA FilesStay ==
  /\ FlacStep => decodable' = decodable
  /\ OggStep => gap' = gap
  /\ CoreStep => damaged' = damaged
  /\ AssetStep /\ Asset!Opened => Asset!Opened' /\ track' = track /\ trim' = trim
<1>1. FlacStep => decodable' = decodable
  BY DEF FlacStep, Flac!Internal, Flac!DecodeBlock, Flac!DecodeEnd, Flac!DecodeAborts, Flac!Copy,
         Flac!Return, Flac!BeginRead, Flac!Seek, Flac!SeekFinds, Flac!SeekRefused, Flac!SeekFails,
         Flac!decoderVars
<1>2. OggStep => gap' = gap
  BY DEF OggStep, Ogg!Internal, Ogg!Deliver, Ogg!Return, Ogg!BeginRead, Ogg!Seek, Ogg!libraryVars
<1>3. CoreStep => damaged' = damaged
  BY DEF CoreStep, Core!Return, Core!BeginRead, Core!Seek, Core!ReadProc
<1>4. AssetStep /\ Asset!Opened => Asset!Opened' /\ track' = track /\ trim' = trim
  BY DEF AssetStep, Asset!CompareRound, Asset!Read, Asset!Seek, Asset!Tell, Asset!Opened, Asset!trackVars
<1>. QED
  BY <1>1, <1>2, <1>3, <1>4

-----------------------------------------------------------------------------
(* The copy.                                                               *)

\* As long as it goes on it has the frames in front of the position, and the source
\* is asked for a buffer's worth.
Gathered ==
  /\ pos \in 0..Total
  /\ copied = Row(pos)
  /\ ~reading /\ AtEnd => pos = Total
  /\ reading =>
       CASE opened = "core audio" -> want = Core!Smaller(BufFrames, Total - pos)
         [] OTHER -> want = BufFrames
  /\ opened = "asset" => decoded = pos

Copying ==
  /\ copying \in {"no", "begun", "done", "empty"}
  /\ copying \in {"no", "empty"} => copied = <<>>
  /\ copying \in {"begun", "done"} => opened \in {"flac", "ogg", "core audio", "asset"}
  /\ copying \in {"begun", "done"} /\ opened = "asset" => Asset!Opened
  /\ copying = "begun" /\ Sound => Gathered
  /\ CopyHoldsAllFrames

\* What is not needed before a file is opened.
LEMMA SoundStays ==
  ASSUME opened \in {"flac", "ogg", "core audio", "asset"}, opened' = opened,
         opened = "asset" => Asset!Opened,
         SourceSteps \/ UNCHANGED sourceVars
  PROVE  /\ Sound' <=> Sound
         /\ opened = "asset" => Asset!Opened'
<1>1. CASE UNCHANGED sourceVars
  BY <1>1 DEF sourceVars, flacVars, oggVars, coreVars, assetVars, Sound, Ogg!Damaged, Asset!Opened
<1>2. CASE opened = "flac" /\ FlacStep
  BY <1>2, FilesStay DEF Sound
<1>3. CASE opened = "ogg" /\ OggStep
  <2>1. Sound = ~Ogg!Damaged /\ Sound' = ~Ogg!Damaged'
    BY <1>3 DEF Sound
  <2>2. gap' = gap
    BY <1>3, FilesStay
  <2>. QED
    BY <1>3, <2>1, <2>2 DEF Ogg!Damaged
<1>4. CASE opened = "core audio" /\ CoreStep
  <2>1. Sound = ~damaged /\ Sound' = ~damaged'
    BY <1>4 DEF Sound
  <2>2. damaged' = damaged
    BY <1>4, FilesStay
  <2>. QED
    BY <1>4, <2>1, <2>2
<1>5. CASE opened = "asset" /\ AssetStep
  BY <1>5, FilesStay DEF Sound
<1>. QED
  BY <1>1, <1>2, <1>3, <1>4, <1>5 DEF SourceSteps

\* A step inside a read leaves what was gathered alone, ...
LEMMA InsideRead ==
  ASSUME Gathered, opened' = opened, reading,
         UNCHANGED <<pos, reading, want, got, answer, copied>>, opened # "asset"
  PROVE  Gathered'
BY DEF Gathered, AtEnd

\* ... a read that returns adds the frames that follow, ...
LEMMA ReadReturns ==
  ASSUME Gathered, opened' = opened, Device!Read(BufFrames), copied' = copied \o got',
         ~reading', opened = "asset" => decoded' = pos'
  PROVE  Gathered'
<1>1. pos \in 0..Total /\ copied = Row(pos)
  BY DEF Gathered
<1>2. pos' \in 0..Total /\ copied' = Row(pos') /\ (AtEnd' => pos' = Total)
  BY <1>1, CopyGrows
<1>. QED
  BY <1>2 DEF Gathered, Row

\* ... and one that begins asks for a buffer's worth.
LEMMA ReadBegins ==
  ASSUME Gathered, opened' = opened, reading', UNCHANGED <<pos, copied, got, answer>>,
         opened # "asset",
         IF opened = "core audio" THEN want' = Core!Smaller(BufFrames, Total - pos)
                                  ELSE want' = BufFrames
  PROVE  Gathered'
<1>1. CASE opened = "core audio"
  BY <1>1 DEF Gathered
<1>2. CASE opened # "core audio"
  BY <1>2 DEF Gathered
<1>. QED
  BY <1>1, <1>2

\* A sound track is read as a row.
LEMMA AssetReads ==
  ASSUME AssetInv, Asset!Read(BufFrames), track = Total, trim = 0, decoded = pos, pos \in 0..Total
  PROVE  Device!Read(BufFrames) /\ decoded' = pos'
<1>1. BufFrames \in Nat \ {0} /\ Total \in Nat /\ pos \in Nat
  BY Sizing, MediaFileAssumption
<1>. DEFINE count == Asset!Delivered(pos, BufFrames)
            total == Asset!ReadCount(pos, decoded, Asset!NumFrames, exhausted, BufFrames)
<1>2. count = IF BufFrames <= Total - pos THEN BufFrames ELSE Total - pos
  BY <1>1 DEF Asset!Delivered, Asset!Smaller
<1>3. /\ count \in Nat /\ count <= BufFrames /\ pos + count <= Total
      /\ count < BufFrames => pos + count = Total
  BY <1>1, <1>2
<1>4. Asset!NumFrames = Total
  BY <1>1 DEF Asset!NumFrames
<1>. HIDE DEF count
<1>5. total = count
  <2>1. Asset!Advance(pos, Total, count, BufFrames) = 0
    BY <1>1, <1>3 DEF Asset!Advance, Asset!Smaller
  <2>. QED
    BY <1>1, <1>3, <1>4, <2>1 DEF Asset!ReadCount, count
<1>6. /\ got' = [i \in 1..total |-> IF i <= count THEN decoded + i - 1 ELSE Asset!Silence]
      /\ pos' = pos + total /\ decoded' = decoded + count /\ answer' = Device!NoSeek
  BY DEF Asset!Read, Asset!NoSeek, Device!NoSeek, count
<1>7. got' = [i \in 1..count |-> pos + i - 1]
  BY <1>3, <1>5, <1>6
<1>. QED
  BY <1>2, <1>5, <1>6, <1>7 DEF Device!Read

\* The steps inside a read of the copy, ...
LEMMA CopyInside ==
  ASSUME IInv, Rows, Unbroken, Gathered, copying = "begun", Sound,
         opened \in {"flac", "ogg", "core audio", "asset"}, opened = "asset" => Asset!Opened,
         SourceStep(Internal) \/ SourceStep(CallBack)
  PROVE  Gathered'
<1>1. /\ copied' = IF Returns THEN copied \o got' ELSE copied
      /\ opened' = opened
  BY DEF SourceStep, streamVars
<1>2. CASE opened = "flac"
  <2>1. Flac!Internal
    BY <1>2 DEF SourceStep, Internal, CallBack
  <2>2. /\ FlacInv /\ FlacRow /\ decoder \in {"frames", "ended"} /\ decodable = Total
    BY <1>2 DEF IInv, Rows, Unbroken, Sound
  <2>3. CASE Flac!Return
    <3>1. reading /\ ~reading' /\ copied' = copied \o got'
      BY <1>1, <2>3 DEF Flac!Return, Returns
    <3>2. ~Flac!GivenUp'
      BY <2>1, <2>2, FlacStaysSound DEF Flac!GivenUp, FlacStep
    <3>3. Device!Read(want)
      BY <2>2, <2>3, <3>2, FlacReturns
    <3>4. want = BufFrames
      BY <1>2, <3>1 DEF Gathered
    <3>. QED
      BY <1>1, <1>2, <3>1, <3>3, <3>4, ReadReturns
  <2>4. CASE ~Flac!Return
    <3>1. reading /\ UNCHANGED <<pos, reading, want, got, answer>>
      BY <2>1, <2>4
         DEF Flac!Internal, Flac!DecodeBlock, Flac!DecodeEnd, Flac!DecodeAborts, Flac!Copy,
             Flac!NeedsBlock, Flac!callVars
    <3>2. copied' = copied
      BY <1>1, <1>2, <3>1 DEF Returns
    <3>. QED
      BY <1>1, <1>2, <3>1, <3>2, InsideRead
  <2>. QED
    BY <2>3, <2>4
<1>3. CASE opened = "ogg"
  <2>1. Ogg!Internal
    BY <1>3 DEF SourceStep, Internal, CallBack
  <2>2. OggInv /\ OggRow /\ ~lost /\ ~Ogg!Damaged
    BY <1>3 DEF IInv, Rows, Unbroken, Sound
  <2>3. CASE Ogg!Return
    <3>1. reading /\ ~reading' /\ copied' = copied \o got'
      BY <1>1, <2>3 DEF Ogg!Return, Returns
    <3>2. ~lost'
      BY <2>1, <2>2, OggStaysSound DEF OggStep
    <3>3. Device!Read(want)
      BY <2>2, <2>3, <3>2, OggReturns
    <3>4. want = BufFrames
      BY <1>3, <3>1 DEF Gathered
    <3>. QED
      BY <1>1, <1>3, <3>1, <3>3, <3>4, ReadReturns
  <2>4. CASE Ogg!Deliver
    <3>1. reading /\ UNCHANGED <<pos, reading, want, got, answer>>
      BY <2>4 DEF Ogg!Deliver
    <3>2. copied' = copied
      BY <1>1, <1>3, <3>1 DEF Returns
    <3>. QED
      BY <1>1, <1>3, <3>1, <3>2, InsideRead
  <2>. QED
    BY <2>1, <2>3, <2>4 DEF Ogg!Internal
<1>4. CASE opened = "core audio"
  <2>1. CoreRow /\ ~damaged
    BY <1>4 DEF Rows, Sound
  <2>2. CASE Core!Return
    <3>1. reading /\ ~reading' /\ copied' = copied \o got'
      BY <1>1, <2>2 DEF Core!Return, Returns
    <3>2. want = Core!Smaller(BufFrames, Total - pos)
      BY <1>4, <3>1 DEF Gathered
    <3>3. Device!Read(BufFrames)
      BY <2>1, <2>2, <3>2, CoreReturns
    <3>. QED
      BY <1>1, <1>4, <3>1, <3>3, ReadReturns
  <2>3. ASSUME NEW asked \in Asked, NEW size \in Sizes, Core!ReadProc(asked, size)
        PROVE  Gathered'
    <3>1. reading /\ UNCHANGED <<pos, reading, want, got, answer>>
      BY <2>3 DEF Core!ReadProc
    <3>2. copied' = copied
      BY <1>1, <1>4, <3>1 DEF Returns
    <3>. QED
      BY <1>1, <1>4, <3>1, <3>2, InsideRead
  <2>4. Core!Return \/ \E asked \in Asked, size \in Sizes : Core!ReadProc(asked, size)
    BY <1>4 DEF SourceStep, Internal, CallBack
  <2>. QED
    BY <2>2, <2>3, <2>4
<1>5. CASE opened = "asset"
  <2>1. Asset!CompareRound
    BY <1>5 DEF SourceStep, Internal, CallBack
  <2>. QED
    BY <1>5, <2>1 DEF Asset!CompareRound
<1>. QED
  BY <1>2, <1>3, <1>4, <1>5

\* ... and those that begin one.
LEMMA CopyReads ==
  ASSUME IInv, Gathered, Sound, ~reading,
         opened \in {"flac", "ogg", "core audio", "asset"}, opened' = opened,
         BeginRead(BufFrames), copied' = IF Returns THEN copied \o got' ELSE copied
  PROVE  Gathered'
<1>1. CASE opened = "asset"
  <2>1. Asset!Read(BufFrames) /\ Asset!Opened
    BY <1>1 DEF BeginRead, Asset!Read
  <2>2. copied' = copied \o got'
    BY <1>1, <2>1 DEF Returns, Asset!Read
  <2>3. AssetInv /\ track = Total /\ trim = 0 /\ decoded = pos /\ pos \in 0..Total
    BY <1>1 DEF IInv, Sound, Gathered
  <2>4. Device!Read(BufFrames) /\ decoded' = pos'
    BY <2>1, <2>3, AssetReads
  <2>5. ~reading'
    BY <1>1 DEF BeginRead, callVars
  <2>. QED
    BY <2>2, <2>4, <2>5, ReadReturns
<1>2. CASE opened \in {"flac", "ogg"}
  <2>1. reading' = TRUE /\ want' = BufFrames /\ UNCHANGED <<pos, got, answer>>
    BY <1>2 DEF BeginRead, Flac!BeginRead, Ogg!BeginRead
  <2>2. copied' = copied
    BY <1>2, <2>1 DEF Returns
  <2>. QED
    BY <1>2, <2>1, <2>2, ReadBegins
<1>3. CASE opened = "core audio"
  <2>1. reading' = TRUE /\ want' = Core!Smaller(BufFrames, Total - pos) /\ UNCHANGED <<pos, got, answer>>
    BY <1>3 DEF BeginRead, Core!BeginRead
  <2>2. copied' = copied
    BY <1>3, <2>1 DEF Returns
  <2>. QED
    BY <1>3, <2>1, <2>2, ReadBegins
<1>. QED
  BY <1>1, <1>2, <1>3

\* A copy starts at the first frame.
LEMMA CopyBegins ==
  ASSUME IInv, Unbroken, Rows, Sound, copied = <<>>, BeginCopy
  PROVE  Gathered'
<1>1. /\ Seek(0, "beg") /\ opened' = opened /\ copied' = copied /\ ~reading
  BY DEF BeginCopy, streamVars
<1>2. Total \in Nat \ {0} /\ "beg" \in Way /\ 0 \in Int
  BY Sizing DEF Way
<1>3. opened \in {"flac", "ogg", "core audio", "asset"}
  BY <1>1 DEF Seek
<1>4. ASSUME NEW p
      PROVE  /\ Flac!AbsolutePosition(p, 0, Total, 0, "beg") = 0
             /\ Ogg!AbsolutePosition(p, 0, Total, 0, "beg") = 0
             /\ Core!AbsolutePosition(p, 0, Total, 0, "beg") = 0
             /\ Asset!AbsolutePosition(p, 0, Total, 0, "beg") = 0
  BY <1>2
     DEF Flac!AbsolutePosition, Flac!AnchorOf, Flac!Clamp, Ogg!AbsolutePosition, Ogg!AnchorOf, Ogg!Clamp,
         Core!AbsolutePosition, Core!AnchorOf, Core!Clamp,
         Asset!AbsolutePosition, Asset!AnchorOf, Asset!Clamp
<1>5. /\ pos' = 0 /\ answer'.way = "beg" /\ ~reading'
      /\ opened = "asset" => decoded' = 0
  <2>1. CASE opened = "flac"
    <3>1. Flac!Seek(0, "beg")
      BY <1>1, <2>1 DEF Seek
    <3>2. /\ Flac!SeekFinds(0) \/ Flac!SeekRefused(0) \/ Flac!SeekFails(0)
          /\ answer' = [way |-> "beg", off |-> 0, pos |-> pos'] /\ reading' = reading
      BY <1>4, <3>1 DEF Flac!Seek, Flac!callVars
    <3>3. decoder \in {"frames", "ended"} /\ decodable = Total
      BY <2>1 DEF Unbroken, Sound
    <3>4. Flac!BlockEnd(0) \in (0 + 1)..Total
      BY <1>2, BlockEnds
    <3>5. Flac!SeekFinds(0)
      BY <1>2, <3>2, <3>3, <3>4 DEF Flac!SeekRefused, Flac!SeekFails
    <3>. QED
      BY <1>1, <2>1, <3>2, <3>5 DEF Flac!SeekFinds
  <2>2. CASE opened = "ogg"
    <3>1. Ogg!Seek(0, "beg") /\ ~Ogg!Damaged
      BY <1>1, <2>2 DEF Seek, Sound
    <3>2. /\ Ogg!SeekFinds(0)
          /\ answer' = [way |-> "beg", off |-> 0, pos |-> pos'] /\ reading' = reading
      BY <1>4, <3>1 DEF Ogg!Seek, Ogg!SeekFails, Ogg!callVars
    <3>. QED
      BY <1>1, <2>2, <3>2 DEF Ogg!SeekFinds
  <2>3. CASE opened = "core audio"
    <3>1. Core!Seek(0, "beg") /\ ~damaged
      BY <1>1, <2>3 DEF Seek, Sound
    <3>2. /\ pos' = 0
          /\ answer' = [way |-> "beg", off |-> 0, pos |-> pos'] /\ reading' = reading
      BY <1>4, <3>1 DEF Core!Seek
    <3>. QED
      BY <1>1, <2>3, <3>2
  <2>4. CASE opened = "asset"
    <3>1. Asset!Seek(0, "beg") /\ trim = 0 /\ reading' = reading
      BY <1>1, <2>4 DEF Seek, Sound, callVars
    <3>2. Asset!NumFrames = Total
      BY <1>2, <3>1 DEF Asset!NumFrames
    <3>3. Asset!FramesOfOffset(0 * FrameSize, FrameSize, OffsetRange) = 0
      <4>1. FrameSize \in Nat \ {0} /\ OffsetRange \in Nat \ {0}
        BY AssetSizing
      <4>2. \A b, r \in Nat \ {0} : (0 * b) % r = 0 /\ 0 \div b = 0
        OBVIOUS
      <4>. QED
        BY <4>1, <4>2 DEF Asset!FramesOfOffset
    <3>4. Asset!Start(0, 0) = 0
      BY <1>2 DEF Asset!Start, Asset!Clamp
    <3>5. /\ pos' = Asset!Start(0, 0) /\ decoded' = Asset!Start(0, 0)
          /\ answer' = [way |-> "beg", off |-> 0, pos |-> 0]
      BY <1>4, <3>1, <3>2, <3>3 DEF Asset!Seek
    <3>. QED
      BY <1>1, <2>4, <3>1, <3>4, <3>5
  <2>. QED
    BY <1>3, <2>1, <2>2, <2>3, <2>4
<1>6. pos' \in 0..Total /\ copied' = Row(pos')
  BY <1>1, <1>2, <1>5 DEF Row
<1>7. ~AtEnd'
  BY <1>5 DEF AtEnd, Asset!NoSeek
<1>8. opened = "asset" => decoded' = pos'
  BY <1>5
<1>. QED
  BY <1>1, <1>5, <1>6, <1>7, <1>8 DEF Gathered, Row

LEMMA UnbrokenInit == Init => Unbroken
<1>. SUFFICES ASSUME Init PROVE Unbroken
  OBVIOUS
<1>1. decoder = "frames" /\ ~lost
  BY DEF Init, Flac!Init, Ogg!Init
<1>. QED
  BY <1>1 DEF Unbroken

LEMMA UnbrokenStep ==
  ASSUME IInv, Unbroken, [Next]_vars
  PROVE  Unbroken'
<1>1. CASE UNCHANGED sourceVars /\ (opened' = opened \/ opened = "no")
  BY <1>1 DEF sourceVars, flacVars, oggVars, Unbroken, Ogg!Damaged
<1>2. CASE SourceSteps /\ opened' = opened
  <2>1. CASE opened = "flac" /\ FlacStep
    BY <1>2, <2>1, FlacStaysSound, FilesStay DEF IInv, Unbroken
  <2>2. CASE opened = "ogg" /\ OggStep
    <3>1. gap' = gap
      BY <2>2, FilesStay
    <3>2. Ogg!Damaged' <=> Ogg!Damaged
      BY <3>1 DEF Ogg!Damaged
    <3>3. lost' => Ogg!Damaged
      BY <2>2, OggStaysSound DEF Unbroken
    <3>. QED
      BY <1>2, <2>2, <3>2, <3>3 DEF Unbroken
  <2>3. CASE opened \in {"core audio", "asset"}
    BY <1>2, <2>3 DEF Unbroken
  <2>. QED
    BY <1>2, <2>1, <2>2, <2>3 DEF SourceSteps
<1>. QED
  BY <1>1, <1>2, StepShape

LEMMA CopyingInit == Init => Copying
<1>. SUFFICES ASSUME Init PROVE Copying
  OBVIOUS
<1>1. copying = "no" /\ copied = <<>>
  BY DEF Init
<1>. QED
  BY <1>1 DEF Copying, CopyHoldsAllFrames

LEMMA CopyingStep ==
  ASSUME IInv, Rows, Unbroken, Copying, [Next]_vars
  PROVE  Copying'
<1>. DEFINE kinds == {"flac", "ogg", "core audio", "asset"}
<1>1. ASSUME copying' \in {"no", "empty"}, copied' = <<>>
      PROVE  Copying'
  BY <1>1 DEF Copying, CopyHoldsAllFrames
<1>2. ASSUME copying \in {"begun", "done"}, opened' = opened, SourceSteps \/ UNCHANGED sourceVars
      PROVE  /\ opened \in kinds /\ (opened = "asset" => Asset!Opened) /\ opened' \in kinds
             /\ Sound' <=> Sound
             /\ opened' = "asset" => Asset!Opened'
  BY <1>2, SoundStays DEF Copying
<1>3. CASE OpenFile
  <2>1. copying \in {"no", "empty"} /\ copied = <<>>
    BY <1>3 DEF OpenFile, Copying
  <2>. QED
    BY <1>1, <1>3, <2>1 DEF OpenFile, copyVars
<1>4. CASE SourceStep(Internal) \/ SourceStep(CallBack)
  <2>1. /\ copying' = copying /\ opened' = opened
        /\ copying # "begun" => copied' = copied
    BY <1>4 DEF SourceStep, streamVars
  <2>2. SourceSteps
    BY <1>4 DEF SourceStep, Internal, CallBack, SourceSteps, FlacStep, OggStep, CoreStep, AssetStep
  <2>3. CASE copying \in {"no", "empty"}
    BY <1>1, <2>1, <2>3 DEF Copying
  <2>4. CASE copying = "begun"
    <3>1. Sound => Gathered'
      BY <1>2, <1>4, <2>1, <2>2, <2>4, CopyInside DEF Copying
    <3>. QED
      BY <1>2, <2>1, <2>2, <2>4, <3>1 DEF Copying, CopyHoldsAllFrames
  <2>5. CASE copying = "done"
    BY <1>2, <2>1, <2>2, <2>5 DEF Copying, CopyHoldsAllFrames
  <2>. QED
    BY <2>3, <2>4, <2>5 DEF Copying
<1>5. CASE \E n \in Requests : Read(n)
  BY <1>1, <1>5 DEF Read, SourceStep, Copying
<1>6. CASE \E off \in Offsets, way \in Way : SeekStream(off, way)
  BY <1>1, <1>6 DEF SeekStream, copyVars, Copying
<1>7. CASE BeginCopy
  <2>1. /\ copying = "no" /\ copying' = "begun" /\ copied = <<>>
        /\ Seek(0, "beg") /\ opened' = opened
    BY <1>7 DEF BeginCopy, Copying, streamVars
  <2>2. opened \in kinds /\ (opened = "asset" => Asset!Opened)
    BY <2>1 DEF Seek, Asset!Seek, Asset!Tell
  <2>3. SourceSteps
    BY <2>1, SeekIsSourceStep DEF Seeks, Way
  <2>4. (Sound' <=> Sound) /\ (opened = "asset" => Asset!Opened')
    BY <2>1, <2>2, <2>3, SoundStays
  <2>5. Sound => Gathered'
    BY <1>7, <2>1, CopyBegins
  <2>. QED
    BY <2>1, <2>2, <2>4, <2>5 DEF Copying, CopyHoldsAllFrames
<1>8. CASE CopyOn
  <2>1. copying = "begun" /\ ~reading /\ opened' = opened
    BY <1>8 DEF CopyOn, streamVars
  <2>2. CASE AtEnd
    <3>1. copying' = "done" /\ copied' = copied /\ UNCHANGED sourceVars
      BY <1>8, <2>2 DEF CopyOn
    <3>2. Sound => copied = [i \in 1..Total |-> i - 1]
      BY <2>1, <2>2 DEF Copying, Gathered, Row
    <3>. QED
      BY <1>2, <2>1, <3>1, <3>2 DEF Copying, CopyHoldsAllFrames
  <2>3. CASE ~AtEnd
    <3>1. /\ BeginRead(BufFrames) /\ copying' = "begun"
          /\ copied' = IF Returns THEN copied \o got' ELSE copied
      BY <1>8, <2>1, <2>3 DEF CopyOn
    <3>2. SourceSteps
      BY <3>1, ReadIsSourceStep DEF Reads
    <3>3. Sound => Gathered'
      BY <1>2, <2>1, <3>1, <3>2, CopyReads DEF Copying
    <3>. QED
      BY <1>2, <2>1, <3>1, <3>2, <3>3 DEF Copying, CopyHoldsAllFrames
  <2>. QED
    BY <2>2, <2>3
<1>9. CASE Refuse \/ ClearState \/ CopyNothing \/ DropCopy
  BY <1>1, <1>9 DEF Refuse, ClearState, CopyNothing, DropCopy, Idle, copyVars, Copying
<1>10. CASE UNCHANGED vars
  <2>1. opened' = opened /\ UNCHANGED sourceVars /\ UNCHANGED <<copying, copied>>
    BY <1>10 DEF vars, streamVars, copyVars
  <2>2. CASE copying \in {"no", "empty"}
    BY <1>1, <2>1, <2>2 DEF Copying
  <2>3. CASE copying \in {"begun", "done"}
    <3>1. Gathered => Gathered'
      BY <2>1 DEF sourceVars, callVars, Gathered, Row, AtEnd
    <3>. QED
      BY <1>2, <2>1, <2>3, <3>1 DEF Copying, CopyHoldsAllFrames
  <2>. QED
    BY <2>2, <2>3 DEF Copying
<1>. QED
  BY <1>3, <1>4, <1>5, <1>6, <1>7, <1>8, <1>9, <1>10 DEF Next

\* A copy of a stream that is good has every frame of a sound file once and in order,
\* for every kind of source, every size of its blocks and of the buffer, and wherever
\* the stream was when it was copied; the stream is good again after any read that met
\* the end, when it was sought or cleared.  A stream that is not good is not copied:
\* the copy is empty (the constructors of ifvectorstream and ivectorstream).
THEOREM CopiesAreWhole == Spec => []CopyHoldsAllFrames
<1>1. Spec => []Rows
  BY InitRows, NextRows, IInvAlways, PTL DEF Spec
<1>2. Spec => []Unbroken
  BY UnbrokenInit, UnbrokenStep, IInvAlways, PTL DEF Spec
<1>3. Spec => []Copying
  BY <1>1, <1>2, CopyingInit, CopyingStep, IInvAlways, PTL DEF Spec
<1>4. Copying => CopyHoldsAllFrames
  BY DEF Copying
<1>. QED
  BY <1>3, <1>4, PTL
=============================================================================
