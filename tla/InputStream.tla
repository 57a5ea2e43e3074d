---------------------------- MODULE InputStream ----------------------------
(***************************************************************************)
(* audio::istream over an uncompressed source, down to the get area of the *)
(* buffer between them.  A byte is identified by its offset in the file,   *)
(* so what a client receives can be compared with what it asked for.       *)
(*                                                                         *)
(* One thread uses a stream.  A reading call is a loop of buffer refills   *)
(* and copies; each is a step of its own because the device may throw in   *)
(* any refill and the loop may fail to come to an end.                     *)
(***************************************************************************)
EXTENDS PcmSource, Sequences

CONSTANTS
  BufFrames,     \* frames of the buffer (4096 in make_stream_buffer)
  PutBack,       \* bytes kept before the read pointer on a refill (4)
  Grain,         \* bytes per unit of the client's requests: 1, a sample or a frame
  MaxUnits,      \* bound on the units of one request
  DeviceMayFail  \* whether the file may raise an I/O error

ASSUME InputStreamAssumption ==
  /\ BufFrames \in Nat \ {0}
  /\ PutBack \in Nat
  /\ Grain \in Nat \ {0}
  /\ MaxUnits \in Nat \ {0}
  /\ DeviceMayFail \in BOOLEAN

\* A buffer that does not hold whole frames.
BufBytesOdd == BufFrames * BytesPerFrame - BytesPerSample
BufBytes == BufFrames * BytesPerFrame
Stretch(first, n) == [i \in 1..n |-> first + i - 1]   \* n bytes of the file
Silence  == -1                    \* a byte of the zeros a range is padded with
Padding(n) == [i \in 1..n |-> Silence]
Sizes    == {Grain * k : k \in 0..MaxUnits}
Offsets  == {Grain * k : k \in -MaxUnits..MaxUnits}

VARIABLES
  pos,     \* position of the file descriptor
  area,    \* the get area: the bytes from eback() to egptr()
  next,    \* gptr() - eback()
  eof, fail, bad,  \* the state bits (fail() is fail \/ bad)
  call,    \* the reading call in progress
  out,     \* what it has delivered so far
  asked,   \* the last call that came to its end, and its arguments
  result,  \* what it left in the client's buffer
  told,    \* what it answered, if it was tellg
  gcount

bufVars   == <<area, next>>
flagVars  == <<eof, fail, bad>>
doneVars  == <<asked, result, told, gcount>>
vars      == <<pos, bufVars, flagVars, call, out, doneVars>>

NoCall     == [op |-> "none", want |-> 0]
Idle       == call = NoCall
InAvail    == Len(area) - next        \* egptr() - gptr()
Failed     == fail \/ bad
Asked(op, arg, way) == [op |-> op, arg |-> arg, way |-> way]
Good       == ~eof /\ ~Failed
Position   == pos - InAvail - DataBeg   \* what seek(0, cur) of the buffer reports

TypeOK ==
  /\ pos \in DataBeg..DataEnd
  /\ area \in Seq(DataBeg..DataEnd)
  /\ next \in 0..Len(area)
  /\ eof \in BOOLEAN /\ fail \in BOOLEAN /\ bad \in BOOLEAN
  /\ call \in [op: {"none", "read", "range"}, want: Nat]
  /\ out \in Seq(DataBeg..DataEnd)
  /\ Len(out) <= call.want
  /\ result \in Seq((DataBeg..DataEnd) \union {Silence})
  /\ gcount \in Nat
  /\ told \in Int

Init ==
  /\ pos = DataBeg
  /\ area = <<>> /\ next = 0
  /\ eof = FALSE /\ fail = FALSE /\ bad = FALSE
  /\ call = NoCall
  /\ out = <<>>
  /\ asked = Asked("open", 0, "beg") /\ result = <<>> /\ told = 0
  /\ gcount = 0

-----------------------------------------------------------------------------
(* Reading: istream::read, operator>>(Value) and operator>>(Range).        *)

\* read(s, n) passes the sentry; a single value is read this way as well.
BeginRead(n) ==
  /\ Idle /\ Good
  /\ call' = [op |-> "read", want |-> n]
  /\ out' = <<>>
  /\ UNCHANGED <<pos, bufVars, flagVars, doneVars>>

\* ... or the sentry refuses because a bit is already set.
RefuseRead ==
  /\ Idle /\ ~Good
  /\ fail' = TRUE
  /\ gcount' = 0
  /\ asked' = Asked("refused", 0, "cur") /\ result' = <<>> /\ told' = 0
  /\ UNCHANGED <<pos, bufVars, eof, bad, call, out>>

\* operator>>(Range) looks at fail() only, so it goes on when just eof is set;
\* it returns at once when the stream failed or the range is empty.
BeginRange(n) ==
  /\ Idle /\ ~Failed /\ n > 0
  /\ call' = [op |-> "range", want |-> n]
  /\ out' = <<>>
  /\ UNCHANGED <<pos, bufVars, flagVars, doneVars>>

\* A put-back area taken from the wrong end of the buffer.
KeptFromFront == SubSeq(area, 1, Smaller(next, PutBack))

\* underflow() moves what the put-back needs to the front ...
Kept == SubSeq(area, next - Smaller(next, PutBack) + 1, next)

\* The call in progress comes to its end.
Finish ==
  /\ asked' = Asked(call.op, call.want, "cur") /\ told' = 0
  /\ call' = NoCall
  /\ out' = <<>>

NeedsBytes == ~Idle /\ InAvail = 0 /\ Len(out) < call.want

\* ... and refills the rest from the source.
Fill ==
  LET s == SourceRead(pos, BufBytes) IN
  /\ NeedsBytes
  /\ s.got > 0
  /\ pos' = s.pos
  /\ area' = Kept \o Stretch(s.from, s.got)
  /\ next' = Len(Kept)
  /\ UNCHANGED <<flagVars, call, out, doneVars>>

\* A range that keeps asking for the rest of its block at the end of the data.
FillAtEndAgain ==
  LET s == SourceRead(pos, BufBytes) IN
  /\ NeedsBytes
  /\ s.got <= 0
  /\ pos' = s.pos
  /\ area' = Kept
  /\ next' = Len(Kept)
  /\ eof' = TRUE
  /\ UNCHANGED <<fail, bad, call, out, doneVars>>

\* The source has nothing left: the call ends short.  A range whose first byte
\* was not there fails; a range cut off later is padded and only marked eof.
FillAtEnd ==
  LET s == SourceRead(pos, BufBytes) IN
  /\ NeedsBytes
  /\ s.got <= 0
  /\ pos' = s.pos
  /\ area' = Kept
  /\ next' = Len(Kept)
  /\ eof' = TRUE
  /\ fail' = (call.op = "read" \/ out = <<>>)
  /\ result' = IF call.op = "range" /\ out # <<>>
               THEN out \o Padding(call.want - Len(out))
               ELSE out
  /\ gcount' = IF call.op = "read" THEN Len(out) ELSE gcount
  /\ Finish
  /\ UNCHANGED bad

\* The device throws: istream::read catches it and sets badbit with gcount
\* still 0, operator>>(Range) lets it through and leaves the bits alone.
FillThrows ==
  /\ DeviceMayFail
  /\ NeedsBytes
  /\ area' = Kept
  /\ next' = Len(Kept)
  /\ bad' = (bad \/ call.op = "read")
  /\ gcount' = IF call.op = "read" THEN 0 ELSE gcount
  /\ result' = out
  /\ Finish
  /\ UNCHANGED <<pos, eof, fail>>

\* sgetn copies bytes, pcm::copy whole samples.
CopyCount ==
  LET wanted == call.want - Len(out) IN
  IF call.op = "read"
  THEN Smaller(InAvail, wanted)
  ELSE BytesPerSample * Smaller(InAvail \div BytesPerSample, wanted \div BytesPerSample)

Copy ==
  /\ ~Idle /\ InAvail > 0 /\ Len(out) < call.want
  /\ out' = out \o SubSeq(area, next + 1, next + CopyCount)
  /\ next' = next + CopyCount
  /\ UNCHANGED <<pos, area, flagVars, call, doneVars>>

Return ==
  /\ ~Idle /\ Len(out) = call.want
  /\ result' = out
  /\ gcount' = IF call.op = "read" THEN Len(out) ELSE gcount
  /\ Finish
  /\ UNCHANGED <<pos, bufVars, flagVars>>

-----------------------------------------------------------------------------
(* Positioning: seekg and tellg, with the buffer's seek_impl under them.   *)

SmallSeek(off, way) == way = "cur" /\ -next <= off /\ off <= InAvail

\* A relative seek that does not take the read-ahead back.
SeekgIgnoringReadAhead(off, way) ==
  /\ Idle
  /\ eof' = FALSE
  /\ fail' = (fail \/ Failed)
  /\ pos' = IF Failed THEN pos ELSE SubviewSeek(pos, off, way)
  /\ area' = IF Failed THEN area ELSE <<>>
  /\ next' = IF Failed THEN next ELSE 0
  /\ asked' = Asked("seek", off, way) /\ result' = <<>> /\ told' = 0
  /\ UNCHANGED <<bad, call, out, gcount>>

\* seekg drops eofbit first and does nothing more on a failed stream.
Seekg(off, way) ==
  /\ Idle
  /\ eof' = FALSE
  /\ \/ /\ Failed
        /\ fail' = TRUE
        /\ UNCHANGED <<pos, bufVars>>
     \/ /\ ~Failed /\ SmallSeek(off, way)
        /\ next' = next + off
        /\ pos' = SubviewSeek(pos, 0, "cur")
        /\ UNCHANGED <<area, fail>>
     \/ /\ ~Failed /\ ~SmallSeek(off, way)
        /\ area' = <<>> /\ next' = 0
        /\ pos' = SubviewSeek(pos, IF way = "cur" THEN off - InAvail ELSE off, way)
        /\ UNCHANGED fail
  /\ asked' = Asked("seek", off, way) /\ result' = <<>> /\ told' = 0
  /\ UNCHANGED <<bad, call, out, gcount>>

\* tellg passes a sentry too, so asking at eof fails the stream.
Tellg ==
  /\ Idle
  /\ told' = IF Good THEN Position ELSE -1
  /\ fail' = (fail \/ ~Good)
  /\ pos' = IF Good THEN SubviewSeek(pos, 0, "cur") ELSE pos
  /\ asked' = Asked("tell", 0, "cur") /\ result' = <<>>
  /\ UNCHANGED <<bufVars, eof, bad, call, out, gcount>>

Clear ==
  /\ Idle
  /\ eof' = FALSE /\ fail' = FALSE /\ bad' = FALSE
  /\ asked' = Asked("clear", 0, "cur") /\ result' = <<>> /\ told' = 0
  /\ UNCHANGED <<pos, bufVars, call, out, gcount>>

-----------------------------------------------------------------------------
Internal == Fill \/ FillAtEnd \/ Copy \/ Return

Client ==
  \/ \E n \in Sizes : BeginRead(n) \/ BeginRange(n)
  \/ RefuseRead
  \/ \E off \in Offsets, way \in Way : Seekg(off, way)
  \/ Tellg
  \/ Clear

Next == Internal \/ FillThrows \/ Client

Spec == Init /\ [][Next]_vars /\ WF_vars(Internal)
-----------------------------------------------------------------------------
(* Correctness.                                                            *)

\* The promise of the API: the calls seen from outside, on the bytes of the
\* view.  A call in progress has not happened yet, so its position is the one
\* it started from.
Stream == INSTANCE SampleStream WITH
  First <- DataBeg, Total <- NumBytes, MayFail <- DeviceMayFail,
  at <- Position - Len(out)

\* Read-ahead, put-back, refills and seeks inside the buffer are invisible: the
\* stream behaves as a row of bytes with a position (stream_buffer.h, istream.h).
ImplementsSampleStream == Stream!Spec

\* The byte a client gets next is the one at the position tellg reports, however
\* reads, buffered seeks and device seeks were mixed before.
NextByteIsToldByte ==
  InAvail > 0 => area[next + 1] = DataBeg + Position

\* A client is never given a byte outside the data chunk, nor one the file does
\* not have: neither trailing chunks nor stale buffer contents (subview.h).
OnlyPcmBytes ==
  \A i \in 1..Len(result) :
    result[i] # Silence => result[i] \in PcmByte

\* What one call delivers is one stretch of the file, padding only behind it.
OneStretch ==
  \A i \in 1..Len(result) - 1 :
    result[i + 1] \in {Silence, result[i] + 1} /\ (result[i] = Silence => result[i + 1] = Silence)

\* No reading call runs forever: it returns, or the device throws.
CallsReturn == ~Idle ~> Idle
=============================================================================
