-------------------------- MODULE CoreAudioSource --------------------------
(***************************************************************************)
(* The source over Core Audio (mp3 and mp4 on Apple's systems).  One call  *)
(* of the system fills a request; to do so it calls back for bytes of the  *)
(* file, each time with the position it wants them from, and the callback  *)
(* seeks the device only when the position it remembers is another.        *)
(*                                                                         *)
(* The system is external: which bytes it asks for is its own affair.  In  *)
(* a damaged file its calls fail or deliver fewer frames, and nobody knows *)
(* where its decoder is then.  The device is a vector, which keeps a seek  *)
(* inside its bytes, or a file, which does not.                            *)
(***************************************************************************)
EXTENDS Positioning, Sequences

CONSTANTS
  Total,     \* kExtAudioFileProperty_FileLengthFrames
  FileSize,  \* bytes of the file
  Asked,     \* positions the system asks for
  Sizes,     \* numbers of bytes it asks for
  Requests,  \* sizes of the reads, in frames
  Offsets    \* offsets of the seeks, in frames

CoreAudioSourceAssumption ==
  /\ Total \in Nat \ {0}
  /\ FileSize \in Nat
  /\ Asked \subseteq Nat
  /\ Sizes \subseteq Nat
  /\ Requests \subseteq Nat
  /\ Offsets \subseteq Int

VARIABLES
  damaged,      \* whether the file is damaged
  device,       \* what holds it: vector, file
  deviceAt,     \* position of the device
  position,     \* ClientData::position
  call,         \* the last callback: position and number asked for, bytes delivered
  decoded,      \* the frame the system hands out next
  pos,          \* m_pos, in frames
  reading,      \* whether a read is in progress
  want,         \* frames it asks the system for
  got, answer   \* result of the last call, a read or a seek

fileVars == <<device, deviceAt, position, call>>
vars == <<damaged, fileVars, decoded, pos, reading, want, got, answer>>

\* No seek since the last read, no callback in this one.
NoSeek == [way |-> "none", off |-> 0, pos |-> 0]
NoCall == [asked |-> 0, size |-> 0, from |-> 0, count |-> 0]

TypeOK ==
  /\ damaged \in BOOLEAN /\ device \in {"vector", "file"}
  /\ deviceAt \in Nat /\ position \in Nat /\ (device = "vector" => deviceAt <= FileSize)
  /\ decoded \in 0..Total /\ pos \in 0..Total
  /\ reading \in BOOLEAN /\ want \in Nat /\ pos + want <= Total
  /\ answer.pos \in 0..Total

\* ClientData's constructor seeks to the end, for the size.
Init ==
  /\ damaged \in BOOLEAN /\ device \in {"vector", "file"}
  /\ deviceAt = FileSize /\ position = FileSize /\ call = NoCall
  /\ decoded = 0 /\ pos = 0
  /\ reading = FALSE /\ want = 0
  /\ got = <<>> /\ answer = NoSeek

-----------------------------------------------------------------------------
(* The callback, which the system calls to get bytes of the file.          *)

DeviceSeek(p) == IF device = "vector" THEN Smaller(p, FileSize) ELSE p
DeviceReads(from, size) == IF from >= FileSize THEN 0 ELSE Smaller(size, FileSize - from)

\* A callback that forgets to count what it read.
ReadProcWithoutCount(asked, size) ==
  LET from  == IF position = asked THEN deviceAt ELSE DeviceSeek(asked)
      count == DeviceReads(from, size)
  IN
  /\ reading /\ want > 0
  /\ deviceAt' = from + count
  /\ position' = asked
  /\ call' = [asked |-> asked, size |-> size, from |-> from, count |-> count]
  /\ UNCHANGED <<damaged, device, decoded, pos, reading, want, got, answer>>

ReadProc(asked, size) ==
  LET from  == IF position = asked THEN deviceAt ELSE DeviceSeek(asked)
      count == DeviceReads(from, size)
  IN
  /\ reading /\ want > 0
  /\ deviceAt' = from + count
  /\ position' = asked + count
  /\ call' = [asked |-> asked, size |-> size, from |-> from, count |-> count]
  /\ UNCHANGED <<damaged, device, decoded, pos, reading, want, got, answer>>

-----------------------------------------------------------------------------
\* At the end, or for no bytes, the system is not called.
BeginRead(n) ==
  /\ ~reading
  /\ reading' = TRUE
  /\ want' = Smaller(n, Total - pos)
  /\ UNCHANGED <<damaged, fileVars, decoded, pos, got, answer>>

Delivers(count) ==
  /\ got' = [i \in 1..count |-> decoded + i - 1]
  /\ pos' = pos + count
  /\ decoded' = decoded + count

\* A sound file fills the request.  In a damaged one the system delivers less, or
\* fails: then nothing is read, whatever was decoded.
Return ==
  /\ reading
  /\ \/ Delivers(want)
     \/ /\ damaged /\ want > 0
        /\ \/ \E count \in 0..(want - 1) : decoded + count <= Total /\ Delivers(count)
           \/ decoded' \in 0..Total /\ got' = <<>> /\ UNCHANGED pos
  /\ decoded' <= Total
  /\ answer' = NoSeek
  /\ reading' = FALSE /\ want' = 0
  /\ call' = NoCall
  /\ UNCHANGED <<damaged, device, deviceAt, position>>

\* The system is asked to seek only when the position changes.
Seek(off, way) ==
  LET target == AbsolutePosition(pos, 0, Total, off, way) IN
  /\ ~reading
  /\ \/ pos' = target /\ decoded' = IF target = pos THEN decoded ELSE target
     \/ damaged /\ target # pos /\ decoded' \in 0..Total /\ UNCHANGED pos
  /\ answer' = [way |-> way, off |-> off, pos |-> pos']
  /\ got' = <<>>
  /\ UNCHANGED <<damaged, fileVars, reading, want>>

-----------------------------------------------------------------------------
Next ==
  \/ Return
  \/ \E n \in Requests : BeginRead(n)
  \/ \E off \in Offsets, way \in Way : Seek(off, way)
  \/ \E asked \in Asked, size \in Sizes : ReadProc(asked, size)

Spec == Init /\ [][Next]_vars /\ WF_vars(Return)

-----------------------------------------------------------------------------
(* Correctness.                                                            *)

\* The callback delivers the bytes of the position it is asked for, all there are:
\* the position it remembers, whose seek it leaves out, is where the device is
\* (AudioFileReadProc, ClientData::position).
CallbackReadsWhereAsked ==
  /\ call.count = DeviceReads(call.asked, call.size)
  /\ call.count > 0 => call.from = call.asked
=============================================================================
