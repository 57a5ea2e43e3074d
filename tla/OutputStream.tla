---------------------------- MODULE OutputStream ----------------------------
(***************************************************************************)
(* audio::ofstream over a WAV or AIFF sink: the put area of the buffer,    *)
(* the sink that writes a header with placeholder sizes first and patches  *)
(* them when it is closed, and the file below.                             *)
(*                                                                         *)
(* The file is a sequence of cells, one per byte: a fixed header byte, a   *)
(* byte of one of the patched fields, or the k-th PCM byte the client      *)
(* handed over.  The process may be killed between any two steps; a write  *)
(* may put part of its bytes into the file and throw, as the file          *)
(* descriptor does when write(2) is short.                                 *)
(***************************************************************************)
EXTENDS Positioning, Sequences

CONSTANTS
  Formats,       \* the containers to write: a subset of {"wav", "aiff"}
  BytesPerFrame,
  BufFrames,     \* frames of the buffer (4096 in make_stream_buffer)
  SizeBits,      \* width of the size fields (32)
  MaxPos,        \* the largest stream position
  WriteSizes,    \* sizes of the client's writes, in bytes
  MaxBytes,      \* bound on the bytes handed over
  MaxFaults      \* bound on the short writes of the device

ASSUME OutputStreamAssumption ==
  /\ Formats # {} /\ Formats \subseteq {"wav", "aiff"}
  /\ BytesPerFrame \in Nat \ {0}
  /\ BufFrames \in Nat \ {0}
  /\ SizeBits \in Nat /\ 2^SizeBits > 0
  /\ MaxBytes \in Nat /\ MaxFaults \in Nat
  /\ WriteSizes \subseteq Nat
  /\ MaxPos \in Nat /\ MaxPos > 58 + MaxBytes + MaxFaults * (BufFrames * BytesPerFrame)

BufBytes  == BufFrames * BytesPerFrame
Uint32(x) == x % 2^SizeBits

Cell(field, value, part) == [field |-> field, value |-> value, part |-> part]
PcmCells(ids)            == [i \in DOMAIN ids |-> Cell("pcm", ids[i], 0)]
FieldCells(field, value) == [k \in 1..4 |-> Cell(field, value, k)]

\* write_wav_header: RIFF, size, WAVE, fmt (8 + 16), data, size.
\* write_aiff_header: FORM, size, AIFC, COMM (8 + 22), SSND (8 + 8).
HeaderLen(f) == IF f = "wav" THEN 44 ELSE 58

\* Where the header has the fields that close comes back to.
Placeholders(f) ==
  IF f = "wav"
  THEN {[at |-> 4, field |-> "whole"], [at |-> 40, field |-> "data"]}
  ELSE {[at |-> 4, field |-> "whole"], [at |-> 22, field |-> "frames"], [at |-> 46, field |-> "data"]}

\* Patches that take the header for sound, and that miss the data size by its id.
PatchesOfWholeFile(f, fileSize) ==
  IF f = "wav"
  THEN << [at |-> 4,  field |-> "whole",  value |-> Uint32(fileSize - 8)],
          [at |-> 40, field |-> "data",   value |-> Uint32(fileSize)] >>
  ELSE << [at |-> 4,  field |-> "whole",  value |-> Uint32(fileSize - 8)],
          [at |-> 22, field |-> "frames", value |-> Uint32(fileSize) \div BytesPerFrame],
          [at |-> 46, field |-> "data",   value |-> Uint32(fileSize + 8)] >>

PatchesMisplaced(f, fileSize) ==
  LET pcm == Uint32(fileSize - HeaderLen(f)) IN
  << [at |-> 4, field |-> "whole", value |-> Uint32(fileSize - 8)],
     [at |-> HeaderLen(f) - 8, field |-> "data", value |-> pcm] >>

\* Patches that forget the 8 bytes in front of AIFF's sound.
PatchesWithoutOffset(f, fileSize) ==
  LET pcm == Uint32(fileSize - HeaderLen(f)) IN
  IF f = "wav"
  THEN << [at |-> 4,  field |-> "whole",  value |-> Uint32(fileSize - 8)],
          [at |-> 40, field |-> "data",   value |-> pcm] >>
  ELSE << [at |-> 4,  field |-> "whole",  value |-> Uint32(fileSize - 8)],
          [at |-> 22, field |-> "frames", value |-> pcm \div BytesPerFrame],
          [at |-> 46, field |-> "data",   value |-> pcm] >>

\* What close_wav and close_aiff write, and where, in this order.  fileSize is
\* the 32-bit result of their tell().
Patches(f, fileSize) ==
  LET pcm == Uint32(fileSize - HeaderLen(f)) IN
  IF f = "wav"
  THEN << [at |-> 4,  field |-> "whole",  value |-> Uint32(fileSize - 8)],
          [at |-> 40, field |-> "data",   value |-> pcm] >>
  ELSE << [at |-> 4,  field |-> "whole",  value |-> Uint32(fileSize - 8)],
          [at |-> 22, field |-> "frames", value |-> pcm \div BytesPerFrame],
          [at |-> 46, field |-> "data",   value |-> Uint32(pcm + 8)] >>

\* The header as the constructor writes it: zero in every field patched later.
Header(f) ==
  [i \in 1..HeaderLen(f) |->
     LET here == {p \in Placeholders(f) : i \in (p.at + 1)..(p.at + 4)} IN
     IF here = {} THEN Cell("fixed", i, 0)
     ELSE LET p == CHOOSE p \in here : TRUE IN Cell(p.field, 0, i - p.at)]

\* write at offset p: over what is there, then past the end.
Overwrite(cells, p, new) ==
  SubSeq(cells, 1, p) \o new \o SubSeq(cells, p + Len(new) + 1, Len(cells))

-----------------------------------------------------------------------------
VARIABLES
  format,
  file,     \* the cells in the file
  pos,      \* position of the file descriptor
  view,     \* m_beg of the subview
  buf,      \* the put area
  todo,     \* bytes of the write call in progress not yet stored
  handed,   \* how many bytes the client has handed over
  fail, bad,
  phase,    \* creating, open, synced, patching, closed; refused, broken, killed
  patches,  \* fields the close has still to write
  faults    \* short writes so far

vars == <<format, file, pos, view, buf, todo, handed, fail, bad, phase, patches, faults>>

Good == ~fail /\ ~bad
Over == phase \in {"closed", "refused", "broken", "killed"}

Pcm == SubSeq(file, HeaderLen(format) + 1, Len(file))

Init ==
  /\ format \in Formats
  /\ file = <<>> /\ pos = 0 /\ view = 0
  /\ buf = <<>> /\ todo = <<>> /\ handed = 0
  /\ fail = FALSE /\ bad = FALSE
  /\ phase = "creating"
  /\ patches = <<>> /\ faults = 0

\* subview_sink: where it writes to, and what its seek moves to.
SinkSeek(p, v, off, way) == AbsolutePosition(p, v, MaxPos, off, way)

\* The device takes all of the cells ...
DeviceTakes(at, cells) ==
  /\ file' = Overwrite(file, at, cells)
  /\ pos' = at + Len(cells)
  /\ UNCHANGED faults

\* ... or m of them, and throws.
DeviceThrows(at, cells) ==
  /\ faults < MaxFaults
  /\ faults' = faults + 1
  /\ \E m \in 0..(Len(cells) - 1) :
       /\ file' = Overwrite(file, at, SubSeq(cells, 1, m))
       /\ pos' = at + m

-----------------------------------------------------------------------------
\* wav_sink / aiff_sink: the header goes to the file at once, then the view
\* begins behind it.  A throwing device leaves no stream, but part of a file.
Create ==
  /\ phase = "creating"
  /\ \/ /\ DeviceTakes(pos, Header(format))
        /\ view' = SinkSeek(pos', view, 0, "cur")
        /\ phase' = "open"
     \/ /\ DeviceThrows(pos, Header(format))
        /\ phase' = "refused"
        /\ UNCHANGED view
  /\ UNCHANGED <<format, buf, todo, handed, fail, bad, patches>>

\* ostream::write, and operator<< once per sample.
Write(n) ==
  /\ phase = "open" /\ todo = <<>>
  /\ Good
  /\ handed + n <= MaxBytes
  /\ todo' = [i \in 1..n |-> handed + i]
  /\ handed' = handed + n
  /\ UNCHANGED <<format, file, pos, view, buf, fail, bad, phase, patches, faults>>

\* The sentry of a stream that has failed refuses.
RefuseWrite ==
  /\ phase = "open" /\ todo = <<>>
  /\ ~Good
  /\ fail' = TRUE
  /\ UNCHANGED <<format, file, pos, view, buf, todo, handed, bad, phase, patches, faults>>

\* Storing the whole call however little room the put area has.
StoreAll ==
  /\ phase = "open"
  /\ todo # <<>>
  /\ buf' = buf \o todo
  /\ todo' = <<>>
  /\ UNCHANGED <<format, file, pos, view, handed, fail, bad, phase, patches, faults>>

Store ==
  LET m == Smaller(Len(todo), BufBytes - Len(buf)) IN
  /\ phase = "open"
  /\ m > 0
  /\ buf' = buf \o SubSeq(todo, 1, m)
  /\ todo' = SubSeq(todo, m + 1, Len(todo))
  /\ UNCHANGED <<format, file, pos, view, handed, fail, bad, phase, patches, faults>>

\* overflow: a full buffer goes to the sink.  When that throws, ostream::write
\* sets badbit, the rest of the call is given up and the buffer stays as it was.
Overflow ==
  /\ phase = "open"
  /\ todo # <<>> /\ Len(buf) = BufBytes
  /\ LET at == SinkSeek(pos, view, 0, "cur") IN
     \/ DeviceTakes(at, PcmCells(buf)) /\ buf' = <<>> /\ UNCHANGED <<todo, bad>>
     \/ DeviceThrows(at, PcmCells(buf)) /\ bad' = TRUE /\ todo' = <<>> /\ UNCHANGED buf
  /\ UNCHANGED <<format, view, handed, fail, phase, patches>>

\* A sync that writes nothing.
SyncNothing == UNCHANGED <<file, pos, faults>>

\* sync(): the buffer goes out; an exception is turned into a result that
\* neither tellp nor close looks at.
Sync ==
  LET at == SinkSeek(pos, view, 0, "cur") IN
  \/ buf = <<>> /\ UNCHANGED <<file, pos, faults>>
  \/ buf # <<>> /\ DeviceTakes(at, PcmCells(buf))
  \/ buf # <<>> /\ DeviceThrows(at, PcmCells(buf))

\* tellp: the buffer is synced and then emptied, whatever became of it.
Tellp ==
  /\ phase = "open" /\ todo = <<>>
  /\ Good
  /\ Sync
  /\ buf' = <<>>
  /\ UNCHANGED <<format, view, todo, handed, fail, bad, phase, patches>>

Clear ==
  /\ phase = "open" /\ todo = <<>>
  /\ fail' = FALSE /\ bad' = FALSE
  /\ UNCHANGED <<format, file, pos, view, buf, todo, handed, phase, patches, faults>>

\* The destructor closes the buffer, which syncs it ...
CloseSync ==
  /\ phase = "open" /\ todo = <<>>
  /\ Sync
  /\ buf' = <<>>
  /\ phase' = "synced"
  /\ UNCHANGED <<format, view, todo, handed, fail, bad, patches>>

\* ... and closes the sink: the view is opened to the whole file, its size taken,
CloseSink ==
  /\ phase = "synced"
  /\ view' = 0
  /\ pos' = SinkSeek(pos, view', 0, "cur")
  /\ patches' = Patches(format, Uint32(pos'))
  /\ phase' = "patching"
  /\ UNCHANGED <<format, file, buf, todo, handed, fail, bad, faults>>

\* and each field written by a seek and a write.  An exception ends the close
\* there; the destructor swallows it.
PatchField ==
  /\ phase = "patching" /\ patches # <<>>
  /\ LET at    == SinkSeek(pos, view, Head(patches).at, "beg")
         cells == FieldCells(Head(patches).field, Head(patches).value)
     IN  \/ DeviceTakes(at, cells) /\ patches' = Tail(patches) /\ UNCHANGED phase
         \/ DeviceThrows(at, cells) /\ patches' = <<>> /\ phase' = "broken"
  /\ UNCHANGED <<format, view, buf, todo, handed, fail, bad>>

CloseFile ==
  /\ phase = "patching" /\ patches = <<>>
  /\ phase' = "closed"
  /\ UNCHANGED <<format, file, pos, view, buf, todo, handed, fail, bad, patches, faults>>

\* The process dies; what was written stays.  The header is written field by
\* field, so any beginning of it may be there.
Kill ==
  /\ ~Over
  /\ phase' = "killed"
  /\ IF phase = "creating"
     THEN \E m \in 0..HeaderLen(format) : file' = SubSeq(Header(format), 1, m)
     ELSE UNCHANGED file
  /\ UNCHANGED <<format, pos, view, buf, todo, handed, fail, bad, patches, faults>>

Next ==
  \/ Create
  \/ \E n \in WriteSizes : Write(n)
  \/ RefuseWrite
  \/ Store \/ Overflow
  \/ Tellp
  \/ Clear
  \/ CloseSync \/ CloseSink \/ PatchField \/ CloseFile
  \/ Kill

Spec == Init /\ [][Next]_vars

-----------------------------------------------------------------------------
TypeOK ==
  /\ format \in Formats
  /\ pos \in 0..MaxPos /\ view \in {0, HeaderLen(format)}
  /\ Len(buf) <= BufBytes
  /\ handed \in 0..MaxBytes
  /\ phase \in {"creating", "open", "synced", "patching", "closed", "refused", "broken", "killed"}
  /\ fail \in BOOLEAN /\ bad \in BOOLEAN /\ faults \in 0..MaxFaults

\* What the field announces at most: a torn field holds part of a larger value.
Announced(name) ==
  LET cells == {i \in DOMAIN file : file[i].field = name} IN
  IF cells = {} THEN 0
  ELSE CHOOSE v \in {file[i].value : i \in cells} : \A i \in cells : file[i].value <= v

Fits == Len(file) < 2^SizeBits

\* As long as the device worked, every byte handed over is in exactly one place,
\* in the order it was handed over: in the file, in the buffer, or in the call.
EveryByteOnce ==
  faults = 0 /\ phase # "creating" =>
    [i \in DOMAIN Pcm |-> Pcm[i].value] \o buf \o todo = [i \in 1..handed |-> i]

\* Whenever the process dies, and whatever the device refused, a reader of the
\* file is never promised PCM data that is not there.
NothingAnnouncedThatIsMissing ==
  Fits =>
    /\ Announced("data") <= Len(Pcm) + (IF format = "aiff" THEN 8 ELSE 0)
    /\ Announced("frames") * BytesPerFrame <= Len(Pcm)
    /\ Announced("whole") <= Larger(Len(file) - 8, 0)

\* A close that came to its end leaves sizes that describe the file, even when
\* writes failed before it.
ClosedFileIsConsistent ==
  phase = "closed" /\ Fits =>
    /\ Announced("whole") = Len(file) - 8
    /\ Announced("data") = Len(Pcm) + (IF format = "aiff" THEN 8 ELSE 0)
    /\ format = "aiff" => Announced("frames") = Len(Pcm) \div BytesPerFrame

\* The sizes are the last thing written: data does not change behind them, and
\* the bytes around the fields are never touched.
SizesComeLast ==
  [][/\ Announced("whole") # 0 => Pcm' = Pcm
     /\ \A i \in DOMAIN file : file[i].field = "fixed" => file'[i] = file[i]]_vars
=============================================================================
