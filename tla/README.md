# A specification of ni-media's audio streams

ni-media reads and writes audio files through streams that look like those of
the standard library: `audio::ifstream` decodes a file to interleaved PCM,
`audio::ofstream` encodes PCM into a file. Between the client and the bytes lie
a stream buffer, a codec specific *device* (a source or a sink), and a device
that knows where the bytes are. This directory models those layers in TLA+,
checks them with TLC on small instances, and proves some of their properties
with TLAPS for all sizes.

Paths below are relative to the repository; `A/` stands for
`audiostream/src/ni/media`, `I/` for `audiostream/inc/ni/media`, `P/` for
`pcm/inc/ni/media/pcm`.

## The system

    client
      |  read, >>, seekg, tellg, clear        write, <<, tellp, clear, close
    istream / ostream      state bits, sentries     (I/audio/istream.h, ostream.h)
      |
    stream_buffer          get / put area           (A/iostreams/stream_buffer.h, boost)
      |  read(n), seek(off, way)              write(n), seek, close
    codec source / sink    header, view or decoder  (A/audio/wav, aiff, flac, ogg, os)
      |
    subview, container, custom device, file         (A/iostreams/device)

One thread uses a stream at a time. What is hard is not concurrency between
clients but *several ideas of one position*: the file descriptor's, the view's,
the get area's, the decoder's, the one a client is told. Each layer keeps its
own, moves the one below, and must stay right across refills, short reads,
small seeks, exceptions, truncated files and decoders that give up. On the
writing side the order of writes matters: the header is written before the data
and corrected after it, and the process can die, or the device fail, anywhere.
One back end is called by several threads at once: the byte stream through which
Media Foundation reads a file.

| component | state | operations | what makes it correct |
|---|---|---|---|
| position arithmetic (`I/iostreams/positioning.h`) | none | `absolute_position` | a seek ends inside its range |
| subview (`A/iostreams/device/subview.h`) | `m_beg`, `m_end`, the base's position | read, write, seek, set_view | nothing outside the view is read; positions count from its beginning |
| stream buffer (`A/iostreams/stream_buffer.h`) | get / put area | underflow, overflow, sync, seek | read-ahead and put-back are invisible |
| `istream` (`I/audio/istream.h`, `A/audio/istream.cpp`) | eof, fail, bad, gcount | read, `>>`, seekg, tellg, clear | behaves as a row of bytes with a position; a range is padded only behind the data; calls return |
| `ostream`, `ofstream` | fail, bad | write, `<<`, tellp, clear, close | every byte once and in order |
| WAV / AIFF source | the walk's offset and what it found; the view | open, read, seek | complete files open, on their sound data; opening ends |
| WAV / AIFF sink | the view | create, write, seek, close | sizes never announce what is missing; a closed file is consistent |
| FLAC source (`A/audio/flac/flac_source.h`) | block, offset in it, position, decoder | read, seek, decoder callbacks | a row of frames; the three positions agree |
| OGG source (`A/audio/ogg/ogg_source.h`) | position, decoder | read, seek | a row of frames; frames on the two sides of a hole are never joined |
| Core Audio source (`A/audio/os/mac`) | position, the system's decoder, the position the callback remembers | read, seek, callback | a row of frames; the callback reads where it is asked to |
| Media Foundation source (`A/audio/os/win`) | decoder, rest of a block, positions | read, seek, search | a row of frames; searches end |
| AVAssetReader source (`A/audio/os/ios`) | position, reader, what is trimmed | open, read, seek | opening ends; the position is the reader's until it is exhausted |
| Media Foundation byte stream | mutex, position of the file, references of results | read, asynchronous read, seek, position calls | calls are atomic; a result lives as long as its read needs it |
| container device, vector streams | container, position | read, write, seek; copying a stream | a copy of a good stream holds every frame, and ends |
| opening (`ifstream.cpp`, `iotools.cpp`, `source_impl.h`) | none | choice of container and source | what can be read can be opened |
| PCM conversion, iteration, copy (`P`) | two iterators | convert, read, write, copy | samples keep their level; no byte beside them is written |
| stream information, 80-bit floats | none | pure functions | exact where the formats allow it |

`PROJECT.json` lists every component with what is modelled of it, and the
hazards of the code line by line with the properties that would catch them.

## Modules

| module | models | state and actions |
|---|---|---|
| `Positioning` | `absolute_position` | operators only |
| `PcmSource` | the subview over a file, `wav_source::read`, `aiff_source::read` | operators from the descriptor's position to the result of a read and the new position |
| `SampleStream` | *abstract*: what `istream` promises | a position in a row of bytes, three state bits; one step per call |
| `InputStream` | `istream` over the buffer over `PcmSource` | descriptor, get area, state bits, the call in progress; a refill, a copy, a return, an exception are steps of their own |
| `OutputStream` | `ofstream` over the buffer over a WAV or AIFF sink over a file | file as a row of cells, descriptor, view, put area, rest of the call, phase; store, overflow, sync and each patched field are steps |
| `HeaderWalk` | `readWavHeader`, `readAiffHeader`, the constructors' views | the walk's offset and pass, what it found; an action per kind of chunk |
| `Reopen` | `OutputStream` and `HeaderWalk` composed over the file | the reader starts when the writer is gone |
| `FrameDevice` | *abstract*: what the buffer expects of a decoding source | position, last answer, whether it is broken |
| `FlacSource` | `flac_source` over libFLAC | block, offset, `m_pos`, decoder; begin, decode, end, abort, copy, return, seek |
| `MediaFoundationSource` | `media_foundation_source` over the system's source reader | buffered block and the frames it is taken for, position, blocks to discard, where a search is; an action per block consumed and per seek |
| `OggSource` | `ogg_source` over libvorbis | position, the library's frame, lost frames; a call that delivers, the call that ends the loop, seeks that find or fail |
| `CoreAudioSource` | `core_audio_source` and `AudioFileReadProc` | position, decoder, the device and the position the callback remembers; a read is its begin, any number of callbacks, its return |
| `AssetReaderSource` | `avassetreader_source` over AVAssetReader | the reader's frame, position, trimmed frames; one action per round of the comparison that opens an mp3, `Read`, `Tell`, `Seek` |
| `MediaFile` | the tables of `iotools.cpp`, `ifstream`'s constructors, `ifvectorstream` and `ivectorstream` copying a stream; composes the four sources above | the request, what it opened, the stream's state bits, the copy; `OpenFile`, the steps of the source, the client's `Read`, `SeekStream`, `ClearState` and what the sentry refuses (`Refuse`), `BeginCopy`, `CopyNothing`, `CopyOn`, `DropCopy` |
| `AtomicByteStream` | *abstract*: what Media Foundation expects of a byte stream | a position and, per thread, the answer of a call; each call takes effect in one step |
| `ByteStream` | `SyncronousByteStream`, `ReadResult` | device, mutex, per thread the stage of its call and the references to its result; lock, the parts of a call, return, and the queue of results are steps |
| `PcmConversion` | `convert_to`, `storage`, `intermediate`, read and write of a sample | operators only |
| `PcmCopy` | `pcm::copy` of two ranges over `dispatch` and the iterators | two iterators, two rows of bytes; `Dispatch`, `CopySample`, `Finish` |
| `InputStreamProofs`, `OutputStreamProofs`, `HeaderWalkProofs`, `MediaFileProofs`, `MediaFoundationProofs`, `ByteStreamProofs`, `PcmCopyProofs` | theorems about the modules of these names, with their inductive invariants; the refinements of `SampleStream`, `FrameDevice` and `AtomicByteStream` among them | |
| `ReopenProofs` | theorems about writer and reader together; extends `OutputStreamProofs` | |
| `MC*` | instances for TLC and properties quoted from the documentation | |

Data is reduced to what the properties tell apart. A byte of PCM is its offset
in the file (or its number in the order it was handed over), so "the right
byte" is an equation. A header byte is fixed or part of a named field. A chunk
is an id, a length and what its body describes. A frame of a decoder is its
index. A sample is the level it stands for, in units so small that every format
has whole ones.

Operators named for a mistake (`ReadUnbounded`, `SeekAnyway`,
`NoTagWithoutRewind`, ...) stand before the definition they vary. No
specification uses them; with one in place of the definition, the property
`PROJECT.json` pairs it with must fail, which shows the property is about
that line of the code.

### Correspondence with the code

* `InputStream`: `pos` is the descriptor's offset, `area`/`next` are `eback`
  .. `egptr` and `gptr`. `Fill` is boost's `underflow` (put-back of four
  bytes, then one read of the source). `operator>>(Range)` ignores eofbit on
  entry and copies whole samples; `istream::read` goes through the sentry and
  copies bytes; `Seekg` has the three cases of a failed stream, a seek inside
  the get area, and a seek of the device. `FillThrows` is the exception of the
  file descriptor, caught by `istream::read` and let through by `operator>>`.
* `OutputStream`: `Create` writes the header and lays the view; `Overflow`,
  `Sync` go through `subview_sink::write`, which re-seeks first. `CloseSync`,
  `CloseSink`, `PatchField`, `CloseFile` are the destructor of the buffer and
  `close_wav` / `close_aiff`. `DeviceThrows` is a short `write(2)`: a prefix
  is in the file and the call throws. `Kill` is the death of the process.
* `HeaderWalk`: `pos` is the walk's `currentOffset` (kept modulo `2^SizeBits`),
  `pass` the two loops of AIFF. The format tag's fields become the bytes of a
  frame, 0 for those the reader refuses, and whether the format is extensible,
  which decides how much of a long `fmt ` chunk must be there (`FormatNeeds`).
* `FlacSource`: `DecodeBlock`, `DecodeEnd` and `DecodeAborts` are the outcomes
  of `process_single` in `samples_available`. libFLAC is external and modelled
  from its interface: it ends after the announced frames, and the `ABORT` that
  `readCallbackImpl` answers at the end of a truncated file leaves it aborted
  for good.

* `MediaFoundationSource`: every step of a read consumes one block, as
  `consumeBlock` does, or gets none. `rest` is the interval set `remaining`;
  `phase` tells `searchAndRetrieveBlock` (`search`, with `backstep` -1, or that of
  `searchBackwardAndRetrieveBlock`), `searchForwardAndRetrieveBlock` (`forward`)
  and the loop of `readFromFile` (`fill`) apart. `MinValue` is the function's
  static, so the read offset in it is given, not this source's. The reader is
  external: it lands on the block asked for or one before, and may fail.

* `OggSource`: `Deliver` is a call of `ov_read` that returns frames, `EndOfLoop`
  the one that does not, for one of three reasons: a hole (`CrossHole`), a request
  that is filled (the code calls again for no bytes), the end. A hole at the very
  edge of a request is crossed by that last call, so it is told to nobody.
* `CoreAudioSource`: `ReadProc` is the callback, with any position and size the
  system may ask for; `DeviceSeek` and `DeviceReads` are `container_device` or
  a file descriptor, which differ behind the end.
* `AssetReaderSource`: `CompareRound` is one turn of the loop in `create_impl`;
  while it lasts the variables are those of its precise reader. `ReadCount` is
  the arithmetic of `Impl::read`, which both readers and the source share.
* `MediaFile`: `Init` has every build and request; the request is forgotten when
  it is answered, so that the states after it depend on the source only. The
  record of a build says which switches of `CMakeLists.txt` are on, for the tables
  and the constructors alike; files of one build that were compiled with different
  options are not represented. `state` are the bits a copy asks for (`other.good()`):
  a read that gets nothing sets them, a seek takes eofbit back, a read or `tellg` at
  the end makes a failure of it, `clear` takes all back. `InputStream` has them in
  full; here it is left open which of them a read sets. The copy of a stream that is
  not good is made by `CopyNothing`. `CopyOn` reads a buffer's worth, as
  `istreambuf_iterator` does through `underflow`, and so leaves the bits alone.
  `Room` is a bound: a copy of an OGG stream that has lost frames begins where twelve
  frames (`MaxPos`) leave it room, since its seek may fail.
* `ByteStream`: `Lock` is the `lock_guard`, `TakeEffect` what a call does before
  it goes out of scope. `CreateResult` is `BeginRead` up to
  `MFCreateAsyncResult` with the references it leaves, `Invoke` the rest: the queue
  takes the result, with a reference of its own, or refuses it, or there is none.
  A refused one is `lost` and not followed when the thread begins its next read.
  `KeepResult` is a callback that ends its read later. The system gives a result
  back with `Drop`.
* `PcmConversion`: `SignCast`, `ShiftCast`, `RoundCast`, `ConvertTo` have the names of
  the code, and widths are in bytes as there. A byte has `Base` values, 256 on a real
  machine, and a float the digits of three bytes, 24 there: `Units` are what its last
  digit may stand for, each twice the next, and `UnitOf` is that of a number;
  `RoundToFloat` is the rounding of every float operation that is not
  exact. The one property that judges them, `SamplesAreNear`, decodes the bytes
  with an operator of its own (`Level`).

## Runs

| run | instance | shows |
|---|---|---|
| `input_frames` | 4 stereo frames of 16 bits, buffer of 2 frames, put-back 4, requests and seeks up to 5 frames, a file with a trailing chunk, device may fail | the buffered stream implements `SampleStream`; the next byte is the told one; nothing outside the data; calls return |
| `input_truncated` | requests and seeks of up to 5 single samples, the file ends inside the last frame | positions drift off whole frames, yet a call delivers one stretch of the file, and calls return |
| `header` | all files of up to 3 chunks of 11 kinds for WAV and 10 for AIFF, padded or not, whole or cut, 9-bit offsets | complete files open, exactly on their sound data; opening ends |
| `reopen` | 2-byte frames, buffer of 2 frames, writes of 1, 3, 6 bytes, up to 10 bytes, 2 short writes, size fields of 8 bits; then a reader | every byte once; sizes never promise what is missing; a finished close is consistent; sizes come last; a closed file reads back; an interrupted one opens only on frames it has |
| `output_tellp` | the same, with 6-bit sizes | *violation*, see below |
| `media_file` | builds for Linux, macOS, iOS and Windows; urls (regular or not, iTunes or not), vectors, files and custom backends; 5 frames; FLAC files that hold 0, 3 or 5 of them in blocks of 2; OGG with frames 2 and 3 lost or none; Core Audio over a file or a vector of 2 bytes; tracks of 4, 5 and 7 frames behind a leader of 2 or none; reads of 1, 4 and 7, all seeks up to one frame beyond the ends, state bits set and cleared, copies through a buffer of 2, positions up to 12 | the four sources implement `FrameDevice` as far as their decoders allow; their positions agree; holes end reads; the callback reads where asked; readable files open; copies of good streams are whole, and copies end; openings and reads end |
| `byte_stream` | 2 threads, a file of 2 bytes, reads of 2 bytes, seeks forward and back, positions up to 3 | calls are atomic (`AtomicByteStream` is implemented); results that were queued are freed once, in time, those the queue refused never; a call that holds the mutex returns |
| `pcm_copy` | 18 formats to 18 formats through 4 types, bytes of 4 values, floats of the digits of three bytes, 18 levels, ranges of 1 to 3 samples, either the shorter | samples are exact where every type on the way can hold them, rounded down between integers, within the coarsest unit and never wrapped elsewhere; only the destination's bytes are written |
| `flac_end`, `flac_truncated` | 5 frames; 2 or 3 of 5 frames | *violations*, see below |
| `media_foundation` | 9 frames behind a read offset of 5, default block 2, real blocks of 2 or 3, a stream that ends soon behind the read offset, one cut short, an exact and a longer one, this source the first to seek or not, reads of 1 and 7, all seeks, 1 failure of the reader | searches end and reach every frame but those at the edges that the two constants of the code make unreachable; no faded block is heard; what remains of a range is one interval; the source implements `FrameDevice` where its frames are reachable |
| `media_foundation_seek` | real blocks of 3, exact stream, no failures | *violation*, see below |

**Why the bounds are enough.** The input runs have more frames than the buffer
holds and requests larger than the buffer and than the file, so a request meets
no, one and two refills, an end inside the buffer and an end at its edge; the
file goes on behind the data, so reading too far is visible. The put-back area
is smaller than a buffer. Writes do not divide the buffer or a frame, so the
buffer overflows inside calls and the last frame may be incomplete. The size
fields of `reopen` have 8 bits, which every length of the instance fits; in
`output_tellp` they have 6, and lengths behind AIFF's header do not. Three chunks
are enough for one before, between and behind the two that matter, in all orders.

Three FLAC blocks, the last one short, allow reads over two block borders; a file
that holds 3 of 5 frames is cut inside a block, one that holds none fails at the
first. The hole of the OGG file has frames on both sides, so reads end before it,
at its edge and behind it. The Core Audio file is a byte longer than the shortest
read and shorter than the longest, so the callback meets its end inside a read, at
its edge and behind it. The tracks of the iOS reader are shorter than announced,
as long, and longer, and the leader is longer than a read of one frame. Copies
need three buffers.

Most Media Foundation streams have at least four blocks, so that two can be
discarded with one before and one behind; the shortest has three, so that discarding
leads behind its last. There are blocks of the default size and longer ones, and
one failure at any call, after which reads and seeks go on.
Two threads are enough to interleave every two calls of the byte stream; each may
have a read whose result is still kept while it makes the next call. What three
threads could add is covered by the proofs, which are for any number.

The widths of `pcm_copy` are not those of the code, but the relations between
them are: integers have one to four bytes, and a float has as many digits as three
bytes and lies in four. The proofs are for bytes of any even number of values from
four on. The levels are all where something changes: the ends of
the range, the zero, the ties of every rounding and their neighbours.

Deadlock is not checked in the runs of `OutputStream`, `Reopen`, `HeaderWalk`,
`MediaFile` and `PcmCopy`, where the system comes to an end (closed, opened,
refused, copied). The other streams never stop.

**Fairness.** `InputStream`, `FlacSource` and `MediaFoundationSource` assume
weak fairness of `Internal` (and `Return`), the steps of the loop of the call
in progress: one thread runs it, and nothing else can happen to the stream
until the call returns. The client is not assumed to do anything, and
exceptions are never assumed to occur. `MediaFile` assumes the same of the steps
inside a call of the source it opened, and of `CopyOn`, the loop of a copy.
`HeaderWalk` is one loop of a constructor and assumes weak fairness of its
steps. `ByteStream` assumes that every thread goes on with the call it is in
(`Steps`) and that the system ends the reads it began (`Ends`). It assumes
nothing about who gets the mutex: the call that holds it is the one that must
return. `OutputStream` and `PcmCopy` have no liveness property.

### Where documentation and code differ

Each of these is a run that TLC ends with a counterexample, and a finding of
`PROJECT.json` that quotes both sides.

* `output_tellp`: `doc/ostream.md` says that `good()` tells that no error has
  occurred. The buffer's seek under `tellp` drops the result of its sync and
  empties the put area: a short write there loses data on a stream that is good.
* `flac_end`: `doc/ifstream.md` gives seeking to the end and telling as the only
  way to learn the exact number of frames. libFLAC refuses the frame behind the
  last one, so the FLAC stream stays where it was. (WAV and AIFF report the
  announced frames there, also when the file has fewer.)
* `flac_truncated`: over a truncated FLAC file a read never meets the end; it
  hands out the last decoded block again and again. A copy of such a stream into
  a vector never ends (`CopiesEnd` leaves it out for that reason).
* `media_foundation_seek`: a seek divides its offset, which has a sign, by a frame
  size of type `size_t`. Where that has 64 bits an offset before the end or the
  position becomes a huge number of frames, and the seek arrives at the end.

Some things came up that no run is spent on, because a run above shows the same
fault or no sentence of the documentation contradicts them:

* A source hands out whole frames counted from where the read began. After
  `sample_seekg` to an odd sample of a stereo stream the last sample of the data
  is never delivered, and padding stands in its place.
* A Media Foundation seek jumps back two blocks of 1024 frames and discards two
  blocks of the decoder, which are longer for MP3 (1152) and ALAC (4096): near
  the end none is left and the read hands out zeros. `GivesUpOnlyAtTheEdges` says
  which frames are lost (`EndFound`). It also shows what the static `minValue`
  costs: after an MP3 or WMA file was sought in the process, an MP4 file with long
  blocks loses its first frames (`BeginningFound`). In a stream so short that the
  block behind those frames is its last, the read that gives up on them leaves the
  reader at the end, and what is read next without a seek is lost as well.
* `avassetreader_source::seek` has the same division as Media Foundation's, so
  seeks by negative offsets go to the end. A seek to the end lands one frame
  before what it reports. In an mp3 whose leader is trimmed, `tell` reports the
  trimmed frames right after opening, and one read across the end loses as many
  frames as were trimmed. Opening an mp3 that is shorter than the frames compared
  does not end (`OpeningEnds` leaves it out).
* A hole of an OGG file that is met at the very edge of a read ends a copy into a
  vector early, as the next read returns nothing.
* A `BeginRead` of the byte stream whose read throws is reported as one that met
  the end of the file.
* A `BeginRead` whose `MFInvokeCallback` fails returns the error and keeps its
  reference: nobody ends the read, and the result and its `ReadResult` are never
  freed. `ResultsLiveAsLongAsTheirReads` states the reference that is left.
* The copy of a stream that is not good, as one just read to its end, is empty and
  says nothing but that it is bad. `CopyHoldsAllFrames` speaks of the copies of good
  streams, which a stream is again after a seek or `clear`.
* The clamp of a float that is to become a 32 bit integer drops the levels above
  1 - 2^-23, and `round_cast` is one unit off for odd values of exactly 24 digits;
  both are within what `SamplesAreNear` allows.

## What is proved

The theorems hold for every value of the constants that the named assumptions of
the modules allow. `TLAPS` checks them to the last leaf.

**`InputStreamProofs`**: `TypeCorrect`; `ClientsSeeOnlyPcm` (no client is ever
given a byte outside the data chunk or behind the end of the file, for any header,
any length of the file, any buffer, and requests of any grain); `CallsDeliverOneStretch`
(what a call delivers is one stretch of the file, padded at most behind it, for any
file, whole or cut off, and requests of any grain); `NextByteIsTold`
(on an intact file with requests of whole frames, `Regular`).

`OnlyPcmBytes` speaks of the client's buffer, but bytes come there through the get
area and the call in progress. `PcmTyped` adds that all of these hold only bytes
of the data chunk that the file has. It is preserved by a refill because of
`ReadFacts` (a read of the view returns bytes inside view and file, whatever the
position), and by a copy because of `CopyFacts`. `NextByteIsToldByte` speaks of one
byte of the area and is not inductive: the next byte of the area must be right as
well, and so must the one before it, which a seek may go back to. `Exact` therefore
says that the whole area is the stretch of the file that ends at the descriptor
(`Contents`), and that all positions are whole frames (`Alignment`), without which
the source's cutting to whole frames would leave a gap between the area and the
descriptor. That gap is what `input_truncated` shows for single samples, so the
assumption cannot be dropped. `OneStretch` needs no such assumption, because a
read that leaves bytes over between the area and the descriptor is the last one
(`CutRead`): what the call has delivered and the area end at one edge, and that
edge is the descriptor's position or nothing is left to read (`Seamless`).

*The stream as a row of bytes* (`InputStreamProofs`): `StreamIsARowOfBytes`, that `InputStream` implements
`SampleStream`, under `Regular`. The client's position in the row is the told one
less what the call in progress has copied already (`At`). A refill and a copy
leave it, and the bits, alone, so they stutter (`FillIsInvisible`,
`CopyIsInvisible`); a call takes effect when it returns or throws. What it has
copied by then are the bytes of the row at `At` (`OutIsBytes`, from `Exact`), and
it has fewer than it was asked for only at the end of the row (`EndIsReached`,
`EndIsRead`). `CallGoesOn` says of the call in progress that it passed its sentry
and that no bit has changed since.

**`OutputStreamProofs`**: `TypeCorrect`, `NoByteIsLostOrRepeated`,
`NothingMissingIsAnnounced`, `ClosedFilesAreConsistent`, `SizesAreWrittenLast`:
all the properties `reopen` checks of the writer, for both containers, any frame
and buffer size, any writes, any number of short writes, and kills.

The properties read the header through `Announced`, a maximum over the cells with
a field's name. The invariant `IInv` speaks of single cells instead. `Layout` says
that the header keeps its fields where it has them and that only PCM is behind it.
`Sizes` says that a cell of a size is 0 or `Final`, the size for a file of this
length, and the latter only once no PCM can follow. `Patching` says which patches
are left, and that the fields of all others are final, which makes a finished
close consistent. `Places` is what lets all this be preserved: while PCM is
written the view begins behind the header and the descriptor is at the end of the
file, so a write of the device, whole or cut, only extends it (`DeviceExtends`),
and a patch goes to its four bytes (`PatchedFile`). `Order` carries the bytes:
file, buffer and call go on where the one before ends. `Room` bounds the file by
what was handed over and one buffer per failure, since a failed buffer stays and
is written again; so the file never reaches the largest position, where a seek
would be clamped. `AnnouncedIsFinal` and `FinalSizes` lead back from cells to the
announced sizes. The assumptions are those of `OutputStream`: `MaxPos` is larger
than all the bytes written, failures included, and `2^SizeBits` is positive, which
the provers cannot derive.

**`ReopenProofs`**: `ClosedFilesReadBack`, `InterruptedFilesHaveTheirFrames`: what
the reader meets when the writer is gone, for both containers, any frame, buffer
and field size, all writes, short writes and kills. The reader takes a size from
four bytes, each of which the writer may or may not have patched. A byte that was
is the final size's and one that was not is zero, so the number read is no larger
than the final size, and equal to it when all four are (`FieldOf`); that the bytes
of a number add up to it (`FourBytes`) is arithmetic about a base, which the
assumption `ReopenAssumption` ties to `SizeBits`: four bytes make a field, and a
header's length fits it. A final size fits its field (`FinalFits`), and what close takes for
the size of the sound, wrapped around or not, is never more than there is
(`SoundFits`). The invariant `RInv` is the writer's (`IInv`), that a close leaves nothing
in the buffer (`Emptied`), and where the walk can be in each pass and what it has
found there (`Walks`): a header that was written at all is met chunk by chunk, an
AIFF header whose sizes are missing is walked into the sound, which reads as tags
without bodies, and the second pass starts with what the first has found.

**`HeaderWalkProofs`**: `TypeCorrect`, `FilesOpenOnTheirData`,
`CompleteFilesAreOpened`, for files of any number of chunks of any length. The
walk of a well-formed file stands on a chunk or at the file's end (`OnChunks`):
chunks do not overlap and fill the file, which is what `WellFormed` says, so the
offset the reader computes is the next one's. What the walk has found is what the
last format in front of it says (`AfterFormats` of WAV, `AfterCommons` of AIFF),
and nothing in front of it would have ended it; AIFF's second pass starts with
what the whole of the first has found, and has seen no sound yet (`Seen`). The
assumption is `HeaderWalkAssumption`: the files have the types of media, and
`2^SizeBits` is positive.

**`MediaFileProofs`**: `TypeCorrect`, `PositionsAlwaysAgree`, `HolesEndReads`,
`CallbacksReadWhereAsked`, `ReadableFilesOpen`. A step of `MediaFile` is a step of
the source that was opened, or leaves the sources alone (`StepShape`), so the
invariant is one per source. Of FLAC it says that the block is the frames before
`decoded` and that `pos` is `offset` into it, while the decoder has not given up;
the arithmetic of blocks (`BlockEnds`) shows that a block never ends behind the
file. Of OGG: the frames of the read in progress are consecutive and end at the
library's frame, and a read that has met a hole delivers no more. Of Core Audio: the
device is where a seek to the remembered position puts it, which is why the
callback may skip that seek. Of the iOS reader: it is at the position until it is
exhausted, and then it has handed out the track. `Typed` adds the ranges
`TypeOK` speaks of; the one that is not local is that a FLAC position with the
frames of the read in progress stays inside the sound, which follows from where
the block ends.

*The sources as rows of frames* (`MediaFileProofs`): `SourcesAreRowsOfFrames`, that `MediaFile` implements
`FrameDevice` whatever is opened, if 0 is one of the offsets (a copy seeks by it).
The invariant above ties a source's positions to each other; the
refinement adds what a read has gathered. Of FLAC, the frames that follow the
position, until the decoder is given up (`FlacRow`); of OGG, the frames before the
library's, no more than were asked for (`OggRow`); Core Audio is asked for no more
than is left, and a sound file's decoder is at the position (`CoreRow`). A seek of
each source and one of the row go to the same frame (`Targets`). Nothing is shown
of the iOS reader here: to `FrameDevice` it is broken, for the reasons given above
(its seeks and its trimming). `CopiesAreWhole` (`CopyHoldsAllFrames`) includes it.
The source of a sound file never breaks (`Unbroken`), so what a copy has gathered
is the row up to the position (`Gathered`), each read adds the frames that follow
(`CopyGrows`), and a read that returns nothing has met the end of the file. The
theorem is about streams that are good when they are copied, wherever they are.

**`MediaFoundationProofs`**: `TypeCorrect`, `RangesStayWhole`, `NoFadeInIsHeard`,
`SearchesSucceed`, `SourceIsARowOfFrames`,
for blocks and streams of any length, through mistaken landings and failures.
`OneIntervalRemains` says that what is left of a read is one interval, but not
which: `Remaining(t, z)` adds that it ends with the read and that the loop's block
is in front of its end, so a block only ever cuts a piece off its beginning, or
fills it. `FadeInIsDiscarded` is not inductive, since a block is taken for the
first after a seek before it is asked whether it is faded: `Fading` says that a
landed block with no faded one left to discard is the audio's first, or before it,
and that blocks read forward are not faded.

That a search gives up only at the edges holds as long as no call of the reader has
failed (`troubles = 0`), and so does its invariant, `Sight`. While there is a buffer
it holds the frames it is taken for, the reader goes on behind it, and nothing in
front of it is missing (`Known`). While there is none, nothing is filled and the
reader, with the blocks still to discard, is at the target or before it, but for
what longer blocks than the default make of the two discarded ones (`Searching`); a
search backwards whose step has reached the beginning starts no later than
`Earliest`. So the search can only end with nothing where a jump to the beginning
lands behind the target, or the discarded blocks lead behind the last (`Sought`).
What is filled is what was asked for (`Right`). The attempt to prove an earlier
`BeginningFound` failed, and TLC found why once the instance had a stream that
ended soon enough: a read that gave up at the beginning may leave the reader behind
the last block. `BeginningFound` and the instance now have that case, and the
invariant names it (`Adrift`).

The refinement needs little more. A call asks for what the position and the end
leave of a request (`AskedFor`); where the mapping does not call the device broken
(`Broken`) both edges lie outside the frames announced, so a read that returns has
left nothing out (`NothingIsLeft`), and what it hands out are the frames that
follow the position (`ReturnsRow`). `Broken` depends on the stream and on failures
only, neither of which a step takes back (`BrokenStays`).

**`ByteStreamProofs`**: `TypeCorrect`, `ResultsLiveLongEnough`,
`CallsAreAtomic` (the refinement of `AtomicByteStream`), for any number of threads
and any calls. The holder of the mutex is the thread inside a call
(`HolderIsInside`), so what it has seen of the device is still so when it acts
(`SeenIsCurrent`); the answer it carries is the one the abstract call gave
(`ToldInCalls`). A thread has one result in use at a time (`OneReadAtATime`), whose
count is given by its stage, and one that could not be queued keeps its reference.

**`PcmCopyProofs`**: `CopiesStayInTheirRanges`, for ranges of any lengths, any list
of formats of one to four bytes and samples of any level. Both iterators have gone
over as many samples (`Gone`), and whatever a value is, it is written as the bytes
of its format (`WrittenBytes`), so what is behind the second iterator is untouched;
the shorter range ends the copy.

`SamplesKeepTheirLevels` proves `SamplesAreNear` for the same ranges and formats and
for bytes of 256 values among others. It assumes `PcmConversionAssumption` (bytes of
an even number of values, four at least, and the units that halve from twice that
number down to 1) and `PcmCopyAssumption` (formats of one to four bytes, floats of
four, levels up to twice full scale). The argument goes from numbers to bytes to
states:

* Every number up to four times full scale has a unit (`UnitChosen`), and a greater number's is a multiple of
  a smaller one's (`UnitsNest`). So rounding to a float never crosses a multiple of
  the unit (`Rounds`), leaves floats alone (`FloatsStay`) and stays within half a
  unit (`RoundsNear`). `UnitChosen` is an induction, by the least number that would
  have no unit (`LeastNumber`).
* A value *stands* for a level (`Stands`). Each of the four conversions makes of it a
  value that stands for the level kept, cut off, rounded or clipped (`ShiftsLevel`,
  `FloatsLevel`, `FixesLevel`, together `ConvertsLevel`).
* Writing a value and reading it back, in either order of bytes and with the padding
  below three of them, gives the value (`Digits`, `Coded`, `BytesKeepLevel`).
* A way has two conversions; every combination of number types is near by the facts
  above (`ThereAndBack`, `IntegersNear`, `ExactLevels`, together `WayIsNear`).
* The invariant (`SamplesInv`, with `CopyInv`) says that every sample gone over lies
  in the destination as the bytes the way makes of its source; later samples are
  written behind it.

The first attempt at this proof failed, rightly: the property did not count the unit
a float has below full scale among the units on the way, as if floats were exact up
to there. With bytes of 2 bits and floats of 6 digits TLC met no such sample; with
bytes of 3 bits and floats of 9 it found one. The property now counts a float's unit below full scale (`Unit`), and the model has
bytes of `Base` values and units in place of powers of two, of which the provers
know no laws.

*Only model-checked:* liveness (`CallsReturn`, `ReadsReturn`, `OpeningEnds`,
`CopiesEnd`). All other properties the passing runs check are theorems. Out of the
proof system's reach are liveness under fairness, `ENABLED`, the library's
induction theorems, which take an operator as a parameter, and recursive operators.

## Plan

1. *Done:* the input path, its proofs and its refinement, the output path and its
   proofs, the walk over headers and its proofs, writer and reader composed over the
   file, the decoding sources, what they promise and the proof that they keep it,
   opening and copying, the byte stream and its proofs, conversion and copying of
   samples.
2. *Done since:* the proofs that Media Foundation's searches give up only at the
   edges and that its source implements `FrameDevice`, that a closed file reads back
   and an interrupted one has its frames, that a copy of samples stays in its
   ranges, and the types of the decoding sources; that copied samples keep their levels.
   *Proofs left:* the iOS reader as a row of frames where nothing is trimmed and the
   seeks are not its own.
3. *Models left:* formats of 64 bits and the iterator over single-pass input, the
   growing container under a sink, the writers' table of containers.

## Not modelled

Moving streams and the accessors of their information; the addresses of objects
(the FLAC source hands its own to libFLAC before it is moved); the text of
headers, loops, markers and instrument data; logging and
messages of exceptions. The custom device, which keeps no state. The writes of
`container_device`, since no stream of the library uses `container_sink`. Of
opening, the writers' table in `ofstream.cpp`. Of PCM, the formats of 64 bits, the
iterator over input that can be read once (`iterator.h` 215-291), `copy_n` and the
parsing of format names. The bit patterns of 80-bit floats (`ieee80.h`), a pure
conversion TLC cannot enumerate.

External, and modelled from how the code uses them: standard stream sentries,
boost's `indirect_streambuf` and `file_descriptor`, the file system, libFLAC,
libvorbisfile, the decoders of Core Audio, AVAssetReader, the source reader of
Media Foundation and the threads and work queue on which it calls the byte stream.
