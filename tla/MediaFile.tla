----------------------------- MODULE MediaFile -----------------------------
(***************************************************************************)
(* A media file from the request that opens it to the copy in memory a     *)
(* client makes of it: ifstream picks the source by the container, the     *)
(* client reads and seeks it, and ifvectorstream and ivectorstream take    *)
(* all its frames over, if nothing is wrong with the stream.               *)
(*                                                                         *)
(* A source is picked, never tried: the extension of the url or the caller *)
(* names the container, and the build has a source for it or has not.  The *)
(* sources modelled here are those that decode; WAV, AIFF and Windows'     *)
(* Media Foundation have models of their own.                              *)
(***************************************************************************)
EXTENDS Positioning, Sequences

CONSTANTS
  Builds,    \* builds of the library: its system, and the containers it decodes
  Files,     \* requests to open a file
  BufFrames, \* frames of the stream's buffer, which is what a copy reads at a time
  Total, Requests, Offsets, MaxPos,                    \* of every source
  Lengths, BlockSize,                                  \* of FLAC
  Gaps, ChunkSize,                                     \* of OGG
  FileSize, Asked, Sizes,                              \* of Core Audio
  Tracks, Leader, Examined, FrameSize, OffsetRange     \* of AVAssetReader

Containers == {"aiff", "flac", "mp3", "mp4", "ogg", "wav", "wma"}

ASSUME MediaFileAssumption ==
  /\ \A b \in Builds : b.system \in {"linux", "mac", "ios", "windows"} /\ b.decodes \subseteq Containers
  /\ \A f \in Files : f.how \in {"url", "file", "vector", "custom"}
  /\ BufFrames \in Nat \ {0}

VARIABLES
  build,       \* the build that answers the request, ...
  request,     \* ... until it is answered, or for good when it is refused
  opened,      \* no, unsupported, malformed, or the source the stream has
  state,       \* of the stream: good, eof (the end was met), failed (failbit or badbit)
  copying,     \* whether a client copies the stream: no, begun, done, empty
  copied,      \* the frames it has got
  pos, decoded, reading, want, out, got, answer,       \* of the source
  decodable, buffer, offset, available, decoder,       \* of FLAC
  gap, lost,                                           \* of OGG
  damaged, device, deviceAt, position, call,           \* of Core Audio
  mp3, track, differs, examined, trim, exhausted       \* of AVAssetReader

Flac  == INSTANCE FlacSource
Ogg   == INSTANCE OggSource
Core  == INSTANCE CoreAudioSource
Asset == INSTANCE AssetReaderSource WITH Duration <- Total

ASSUME SourcesAssumption ==
  /\ Flac!FlacSourceAssumption
  /\ Ogg!OggSourceAssumption
  /\ Core!CoreAudioSourceAssumption
  /\ Asset!AssetReaderSourceAssumption

flacVars   == <<decodable, buffer, offset, available, decoder>>
oggVars    == <<gap, lost>>
coreVars   == <<damaged, device, deviceAt, position, call>>
assetVars  == <<mp3, track, differs, examined, trim, exhausted>>
callVars   == <<reading, want, out>>
sourceVars == <<pos, decoded, callVars, got, answer, flacVars, oggVars, coreVars, assetVars>>
streamVars == <<build, request, opened>>
copyVars   == <<copying, copied>>
vars == <<streamVars, state, copyVars, sourceVars>>

NoRequest == [how |-> "none"]
NoBuild == [system |-> "any", decodes |-> {}]

-----------------------------------------------------------------------------
(* The tables of iotools.cpp and the constructors of ifstream.             *)

\* ifstream_supported_formats: the extensions, in lower case, of each container.
Extensions == [aiff |-> {"aif", "aiff", "aifc"}, flac |-> {"flac"}, mp3 |-> {"mp3"},
               mp4 |-> {"mp4", "m4a"}, ogg |-> {"ogg"}, wav |-> {"wav", "wave"}, wma |-> {"wma"}]

\* A url of the iTunes library names no file, and has no extension.
IsITunes(b, f) == b.system = "ios" /\ f.itunes

\* The extension counts only of a file that is there.
ContainersOf(b, f) ==
  {c \in b.decodes : ~IsITunes(b, f) /\ f.regular /\ f.extension \in Extensions[c]}

\* can_read_file
CanRead(b, f) == ContainersOf(b, f) # {}

\* os_source: what stands for mp3, mp4 and wma on this system.
SystemSource(b) == IF b.system = "windows" THEN "media foundation" ELSE "core audio"

SourceOf(b, c) ==
  CASE c \in {"aiff", "wav"} -> "pcm"
    [] c \in {"mp3", "mp4", "wma"} -> SystemSource(b)
    [] OTHER -> c

\* Only an mp4 file has streams beside its first.
OpenContainer(b, c, stream) ==
  IF c \notin b.decodes \/ (c # "mp4" /\ stream # 0) THEN "unsupported" ELSE SourceOf(b, c)

\* An opening that knows the tables of a build without mp4.
OpenUnlikeTheTable(b, f) ==
  IF f.how = "url" /\ IsITunes(b, f) THEN "asset"
  ELSE IF f.how # "url" THEN OpenContainer(b, f.container, f.stream)
  ELSE IF ~CanRead(b, f) THEN "unsupported"
  ELSE OpenContainer([b EXCEPT !.decodes = @ \ {"mp4"}], CHOOSE c \in ContainersOf(b, f) : TRUE, 0)

\* The constructors: a url is looked up; a file, a vector and a custom backend come
\* with the container their caller names.
Open(b, f) ==
  IF f.how = "url" /\ IsITunes(b, f) THEN "asset"
  ELSE IF f.how # "url" THEN OpenContainer(b, f.container, f.stream)
  ELSE IF ~CanRead(b, f) THEN "unsupported"
  ELSE OpenContainer(b, CHOOSE c \in ContainersOf(b, f) : TRUE, 0)

-----------------------------------------------------------------------------
\* Every file a request may mean; what is not of its source's kind is left out.
Init ==
  /\ build \in Builds /\ request \in Files
  /\ opened = "no" /\ state = "good"
  /\ copying = "no" /\ copied = <<>>
  /\ Flac!Init /\ Ogg!Init /\ Core!Init /\ Asset!Init
  /\ Open(build, request) # "flac" => decodable = Total
  /\ Open(build, request) # "ogg" => ~Ogg!Damaged
  /\ IF Open(build, request) = "core audio"
     THEN device = IF request.how = "vector" THEN "vector" ELSE "file"
     ELSE ~damaged /\ device = "file"
  /\ Open(build, request) # "asset" => mp3 = FALSE /\ track = Total /\ differs = Total

\* The source's constructor may throw; the request lives as long as the opening.
OpenFile ==
  /\ opened = "no"
  /\ \/ opened' = Open(build, request)
     \/ Open(build, request) # "unsupported" /\ opened' = "malformed"
  /\ IF opened' \in {"unsupported", "malformed"}
     THEN UNCHANGED <<build, request>>
     ELSE build' = NoBuild /\ request' = NoRequest
  /\ UNCHANGED <<state, copyVars, sourceVars>>

-----------------------------------------------------------------------------
(* The source of the stream, whichever it is.                              *)

BeginRead(n) ==
  \/ /\ opened = "flac" /\ Flac!BeginRead(n)
     /\ UNCHANGED <<oggVars, coreVars, assetVars>>
  \/ /\ opened = "ogg" /\ Ogg!BeginRead(n)
     /\ UNCHANGED <<flacVars, coreVars, assetVars>>
  \/ /\ opened = "core audio" /\ Core!BeginRead(n)
     /\ UNCHANGED <<out, flacVars, oggVars, assetVars>>
  \/ /\ opened = "asset" /\ Asset!Read(n)
     /\ UNCHANGED <<callVars, flacVars, oggVars, coreVars>>

Seek(off, way) ==
  \/ /\ opened = "flac" /\ Flac!Seek(off, way)
     /\ UNCHANGED <<oggVars, coreVars, assetVars>>
  \/ /\ opened = "ogg" /\ Ogg!Seek(off, way)
     /\ UNCHANGED <<flacVars, coreVars, assetVars>>
  \/ /\ opened = "core audio" /\ Core!Seek(off, way)
     /\ UNCHANGED <<out, flacVars, oggVars, assetVars>>
  \/ /\ opened = "asset" /\ (Asset!Seek(off, way) \/ (off = 0 /\ way = "cur" /\ Asset!Tell))
     /\ UNCHANGED <<callVars, flacVars, oggVars, coreVars>>

\* What the source does by itself until a call returns.
Internal ==
  \/ /\ opened = "flac" /\ Flac!Internal
     /\ UNCHANGED <<oggVars, coreVars, assetVars>>
  \/ /\ opened = "ogg" /\ Ogg!Internal
     /\ UNCHANGED <<flacVars, coreVars, assetVars>>
  \/ /\ opened = "core audio" /\ Core!Return
     /\ UNCHANGED <<out, flacVars, oggVars, assetVars>>
  \/ /\ opened = "asset" /\ Asset!CompareRound
     /\ UNCHANGED <<callVars, flacVars, oggVars, coreVars>>

CallBack ==
  /\ opened = "core audio"
  /\ \E asked \in Asked, size \in Sizes : Core!ReadProc(asked, size)
  /\ UNCHANGED <<out, flacVars, oggVars, assetVars>>

Returns ==
  \/ reading /\ ~reading'
  \/ opened = "asset" /\ Asset!Opened /\ answer' = Asset!NoSeek

\* A step of the source.  What a read of the copy returns is added to it.  One of the
\* client that gets nothing sets eofbit, and failbit but for a range that was filled in
\* part before; the copy reads the buffer, not the stream, and sets nothing.
SourceStep(step) ==
  /\ step
  /\ copied' = IF copying = "begun" /\ Returns THEN copied \o got' ELSE copied
  /\ state' \in IF copying = "no" /\ Returns /\ got' = <<>> THEN {"eof", "failed"} ELSE {state}
  /\ UNCHANGED <<streamVars, copying>>

-----------------------------------------------------------------------------
(* What the client asks of the stream.                                     *)

Idle == opened \in {"flac", "ogg", "core audio", "asset"} /\ copying = "no" /\ ~reading

\* A range does not look at eofbit.
Read(n) ==
  /\ copying = "no" /\ state # "failed"
  /\ SourceStep(BeginRead(n))

\* seekg takes eofbit back; a stream that failed does not seek.
SeekStream(off, way) ==
  /\ copying = "no" /\ state # "failed"
  /\ Seek(off, way)
  /\ state' = "good"
  /\ UNCHANGED <<streamVars, copyVars>>

\* At the end a read into memory, or a tellg, is refused and sets failbit.
Refuse ==
  /\ Idle /\ state = "eof"
  /\ state' = "failed"
  /\ UNCHANGED <<streamVars, copyVars, sourceVars>>

\* clear
ClearState ==
  /\ Idle /\ state # "good"
  /\ state' = "good"
  /\ UNCHANGED <<streamVars, copyVars, sourceVars>>

-----------------------------------------------------------------------------
(* The copy: from the first frame until a read returns nothing.            *)

\* Bound: when the seek of the copy fails and it begins where the stream is, its reads
\* begin below MaxPos all the same.  Only lost frames take a position behind Total.
Room == opened = "ogg" => pos + Total <= MaxPos

\* A copy that takes the frames from where the stream is.
BeginCopyHere ==
  /\ copying = "no" /\ ~reading /\ state = "good" /\ Room
  /\ Seek(0, "cur")
  /\ copying' = "begun"
  /\ UNCHANGED <<streamVars, state, copied>>

BeginCopy ==
  /\ copying = "no" /\ ~reading /\ state = "good" /\ Room
  /\ Seek(0, "beg")
  /\ copying' = "begun"
  /\ UNCHANGED <<streamVars, state, copied>>

\* The copy of a stream that is not good is an empty one, and bad.
CopyNothing ==
  /\ Idle /\ state # "good"
  /\ copying' = "empty"
  /\ UNCHANGED <<streamVars, state, copied, sourceVars>>

\* The last call was a read, and it returned nothing.
AtEnd == got = <<>> /\ answer = Asset!NoSeek

\* A copy that goes on as long as something is announced.
CopyAnnounced ==
  /\ copying = "begun" /\ ~reading
  /\ IF Len(copied) >= Total
     THEN copying' = "done" /\ UNCHANGED <<copied, sourceVars>>
     ELSE /\ BeginRead(BufFrames)
          /\ copied' = IF Returns THEN copied \o got' ELSE copied
          /\ UNCHANGED copying
  /\ UNCHANGED <<streamVars, state>>

CopyOn ==
  /\ copying = "begun" /\ ~reading
  /\ IF AtEnd
     THEN copying' = "done" /\ UNCHANGED <<copied, sourceVars>>
     ELSE /\ BeginRead(BufFrames)
          /\ copied' = IF Returns THEN copied \o got' ELSE copied
          /\ UNCHANGED copying
  /\ UNCHANGED <<streamVars, state>>

\* The client lets go of the copy.
DropCopy ==
  /\ copying \in {"done", "empty"}
  /\ copying' = "no" /\ copied' = <<>>
  /\ UNCHANGED <<streamVars, state, sourceVars>>

-----------------------------------------------------------------------------
Next ==
  \/ OpenFile
  \/ SourceStep(Internal) \/ SourceStep(CallBack)
  \/ \E n \in Requests : Read(n)
  \/ \E off \in Offsets, way \in Way : SeekStream(off, way)
  \/ Refuse \/ ClearState
  \/ BeginCopy \/ CopyNothing \/ CopyOn \/ DropCopy

Spec == Init /\ [][Next]_vars /\ WF_vars(SourceStep(Internal)) /\ WF_vars(CopyOn)

-----------------------------------------------------------------------------
(* Correctness.                                                            *)

\* The types of the source the stream has.
TypeOK ==
  /\ opened \in {"no", "unsupported", "malformed", "pcm", "media foundation"}
                  \cup {"flac", "ogg", "core audio", "asset"}
  /\ state \in {"good", "eof", "failed"}
  /\ copying \in {"no", "begun", "done", "empty"}
  /\ opened = "flac" => Flac!TypeOK
  /\ opened = "ogg" => Ogg!TypeOK
  /\ opened = "core audio" => Core!TypeOK
  /\ opened = "asset" => Asset!TypeOK

\* A file can_read_file promises to read is never refused as one of an unsupported
\* kind: the tables and the constructors agree, in every build (iotools.cpp).
ReadableOpens ==
  opened = "unsupported" /\ request.how = "url" => ~CanRead(build, request)

\* A file that is what its header says.
Sound ==
  CASE opened = "flac" -> decodable = Total
    [] opened = "ogg" -> ~Ogg!Damaged
    [] opened = "core audio" -> ~damaged
    [] opened = "asset" -> track = Total /\ trim = 0
    [] OTHER -> FALSE

\* A copy in memory of a stream that is good holds every frame of a sound file, in
\* order, once, wherever the stream was: before its end, at it, or behind lost frames.
\* Nothing is said of the copy of one that is not good, as after a read that met the
\* end, which is empty (ifvectorstream, ivectorstream).
CopyHoldsAllFrames ==
  copying = "done" /\ Sound => copied = [i \in 1..Total |-> i - 1]

\* A copy ends, but for one of a FLAC file whose decoder was aborted: it hands out
\* its last block for ever.
CopiesEnd ==
  copying = "begun" ~> (copying # "begun" \/ (opened = "flac" /\ decoder = "aborted"))

\* Three sources keep a position beside their decoder's; the two agree as long as
\* no frame was lost.
PositionsAgree ==
  /\ opened = "flac" => Flac!BufferIsAtPosition
  /\ opened = "ogg" => Ogg!LibraryIsAtPosition
  /\ opened = "asset" => Asset!ReaderIsAtPosition

HoleEndsTheRead == opened = "ogg" => Ogg!HoleEndsTheRead

CallbackReadsWhereAsked == opened = "core audio" => Core!CallbackReadsWhereAsked

\* Whichever source was picked, the stream layer above it meets the same device: a
\* row of frames, until the decoder gives up, loses frames, or the file is damaged.
\* The reader of iTunes tracks is none: its position counts frames left out.
Broken ==
  CASE opened = "flac" -> Flac!GivenUp
    [] opened = "ogg" -> lost
    [] opened = "core audio" -> damaged
    [] opened = "asset" -> TRUE
    [] OTHER -> FALSE

Device == INSTANCE FrameDevice WITH
  Requests <- Requests \cup {BufFrames}, at <- pos, broken <- Broken
ImplementsFrameDevice == Device!Spec

\* No read runs forever, but for one over an aborted FLAC decoder.
ReadsReturn ==
  reading ~> (~reading \/ (opened = "flac" /\ decoder = "aborted" /\ buffer = <<>>))

\* Opening an mp3 of the iTunes library ends, but for a short one whose readers do
\* not differ.
OpeningEnds ==
  opened = "asset" /\ ~Asset!Opened ~>
    (Asset!Opened \/ (differs = track /\ Larger(track, Total) < Examined * Leader))
=============================================================================
