------------------------- MODULE InputStreamProofs -------------------------
(***************************************************************************)
(* What holds of InputStream for every size of file, frame and buffer.     *)
(***************************************************************************)
EXTENDS InputStream, SequenceTheorems, TLAPS

-----------------------------------------------------------------------------
(* Arithmetic of positions and frames.                                     *)

LEMMA Sizing ==
  /\ BytesPerFrame \in Nat \ {0}
  /\ BytesPerSample \in Nat \ {0}
  /\ DataBeg \in Nat
  /\ NumBytes \in Nat
  /\ DataEnd \in Nat
  /\ DataBeg <= DataEnd
  /\ FileLen \in Nat
  /\ BufBytes \in Nat \ {0}
<1>. USE PcmSourceAssumption, InputStreamAssumption
<1>1. BytesPerFrame \in Nat \ {0}
  BY DEF BytesPerFrame
<1>2. NumBytes \in Nat
  BY <1>1 DEF NumBytes
<1>3. BufBytes \in Nat \ {0}
  BY <1>1 DEF BufBytes
<1>. QED
  BY <1>1, <1>2, <1>3 DEF DataEnd

\* A seek stays inside the view, wherever it is asked to go.
LEMMA SeekStaysInView ==
  ASSUME NEW p \in Int, NEW off \in Int, NEW way \in Way
  PROVE  SubviewSeek(p, off, way) \in DataBeg..DataEnd
BY Sizing DEF SubviewSeek, AbsolutePosition, AnchorOf, Clamp, Way

\* Asking for the position moves nothing that is inside the view.
LEMMA TellIsPure ==
  ASSUME NEW p \in DataBeg..DataEnd
  PROVE  SubviewSeek(p, 0, "cur") = p
BY Sizing DEF SubviewSeek, AbsolutePosition, AnchorOf, Clamp

LEMMA Remainder ==
  ASSUME NEW x \in Nat
  PROVE  x % BytesPerFrame \in 0..x
<1>1. \A b \in Nat \ {0} : x % b \in 0..x
  OBVIOUS
<1>. QED
  BY <1>1, Sizing

\* What a refill can come back with.
LEMMA ReadFacts ==
  ASSUME NEW p \in DataBeg..DataEnd, NEW n \in Nat
  PROVE  /\ SourceRead(p, n).from = p
         /\ SourceRead(p, n).got \in Int
         /\ SourceRead(p, n).pos \in p..DataEnd
         /\ SourceRead(p, n).got > 0 =>
              \A i \in 1..SourceRead(p, n).got : p + i - 1 \in PcmByte
<1>. DEFINE s == SubviewRead(p, n)
            r == FileRead(p, Smaller(n, DataEnd - p))
<1>1. s = [got |-> r, from |-> p, pos |-> p + Larger(r, 0)]
  BY TellIsPure DEF SubviewRead
<1>2. /\ r \in Int /\ r >= -1
      /\ r <= DataEnd - p
      /\ r > 0 => p + r <= FileLen
  BY Sizing DEF FileRead, Smaller, Larger
<1>3. /\ SourceRead(p, n).from = p
      /\ SourceRead(p, n).pos = p + Larger(r, 0)
      /\ SourceRead(p, n).got = IF r < 0 THEN r ELSE r - (r % BytesPerFrame)
  BY <1>1 DEF SourceRead
<1>4. /\ SourceRead(p, n).got \in Int
      /\ SourceRead(p, n).got <= r
  <2>1. CASE r < 0
    BY <2>1, <1>2, <1>3
  <2>2. CASE r >= 0
    <3>1. r % BytesPerFrame \in 0..r
      BY <2>2, <1>2, Remainder
    <3>. QED
      BY <2>2, <3>1, <1>2, <1>3
  <2>. QED
    BY <2>1, <2>2, <1>2
<1>5. SourceRead(p, n).pos \in p..DataEnd
  BY <1>2, <1>3, Sizing DEF Larger
<1>. QED
  BY <1>2, <1>3, <1>4, <1>5, Sizing DEF PcmByte, Smaller

-----------------------------------------------------------------------------
(* Sequences of bytes.                                                     *)

LEMMA StretchSeq ==
  ASSUME NEW S, NEW b \in Int, NEW n \in Nat, \A i \in 1..n : b + i - 1 \in S
  PROVE  /\ Stretch(b, n) \in Seq(S)
         /\ Len(Stretch(b, n)) = n
         /\ \A i \in 1..n : Stretch(b, n)[i] = b + i - 1
BY DEF Stretch

LEMMA PaddingSeq ==
  ASSUME NEW n \in Nat
  PROVE  /\ Padding(n) \in Seq({Silence})
         /\ Len(Padding(n)) = n
         /\ \A i \in 1..n : Padding(n)[i] = Silence
BY DEF Padding

\* What a refill keeps: the tail of what has been read.
LEMMA KeptFacts ==
  ASSUME NEW S, area \in Seq(S), next \in 0..Len(area)
  PROVE  /\ Kept \in Seq(S)
         /\ Len(Kept) \in 0..next
         /\ \A i \in 1..Len(Kept) : Kept[i] = area[next - Len(Kept) + i]
<1>. DEFINE k == Smaller(next, PutBack)
<1>1. k \in 0..next
  BY InputStreamAssumption DEF Smaller
<1>2. /\ SubSeq(area, next - k + 1, next) \in Seq(S)
      /\ Len(SubSeq(area, next - k + 1, next)) = k
      /\ \A i \in 1..k : SubSeq(area, next - k + 1, next)[i] = area[next - k + i]
  BY <1>1, SubSeqProperties
<1>. QED
  BY <1>1, <1>2 DEF Kept

-----------------------------------------------------------------------------
(* Types, and the bytes a client can get to see.                           *)

\* The types, with the bytes narrowed to those the chunk and the file have.
PcmTyped ==
  /\ pos \in DataBeg..DataEnd
  /\ area \in Seq(PcmByte)
  /\ next \in 0..Len(area)
  /\ call \in [op: {"none", "read", "range"}, want: Nat]
  /\ out \in Seq(PcmByte)
  /\ Len(out) <= call.want
  /\ result \in Seq(PcmByte \union {Silence})
  /\ gcount \in Nat
  /\ told \in Int

LEMMA CopyFacts ==
  ASSUME PcmTyped, ~Idle, InAvail > 0, Len(out) < call.want
  PROVE  /\ CopyCount \in Nat
         /\ CopyCount <= InAvail
         /\ CopyCount <= call.want - Len(out)
         /\ call.op = "read" => CopyCount = Smaller(InAvail, call.want - Len(out))
<1>. DEFINE wanted == call.want - Len(out)
            m == Smaller(InAvail \div BytesPerSample, wanted \div BytesPerSample)
<1>1. InAvail \in Nat /\ wanted \in Nat
  BY DEF PcmTyped, InAvail
<1>2. \A b \in Nat \ {0}, x \in Nat : x \div b \in Nat /\ b * (x \div b) <= x
  OBVIOUS
<1>3. \A b \in Nat \ {0}, i, j \in Nat : i <= j => b * i <= b * j
  OBVIOUS
<1>4. /\ m \in Nat
      /\ m <= InAvail \div BytesPerSample
      /\ m <= wanted \div BytesPerSample
      /\ InAvail \div BytesPerSample \in Nat
      /\ wanted \div BytesPerSample \in Nat
  BY <1>1, <1>2, Sizing DEF Smaller
<1>5. /\ BytesPerSample * m \in Nat
      /\ BytesPerSample * m <= BytesPerSample * (InAvail \div BytesPerSample)
      /\ BytesPerSample * m <= BytesPerSample * (wanted \div BytesPerSample)
  BY <1>3, <1>4, Sizing
<1>6. /\ BytesPerSample * (InAvail \div BytesPerSample) <= InAvail
      /\ BytesPerSample * (wanted \div BytesPerSample) <= wanted
  BY <1>1, <1>2, Sizing
<1>7. /\ BytesPerSample * m <= InAvail
      /\ BytesPerSample * m <= wanted
  BY <1>1, <1>4, <1>5, <1>6, Sizing
<1>. QED
  BY <1>1, <1>5, <1>7 DEF CopyCount, Smaller

LEMMA PcmTypedInit == Init => PcmTyped
BY Sizing, EmptySeq DEF Init, PcmTyped, NoCall

LEMMA PcmTypedStep == PcmTyped /\ [Next]_vars => PcmTyped'
<1> SUFFICES ASSUME PcmTyped, [Next]_vars
             PROVE  PcmTyped'
  OBVIOUS
<1>. USE DEF PcmTyped
<1>0. \A m \in Int : m * Grain \in Int /\ Grain * m \in Int
  BY InputStreamAssumption
<1>1. Sizes \subseteq Nat /\ Offsets \subseteq Int
  BY InputStreamAssumption DEF Sizes, Offsets
<1>2. ASSUME NEW n \in Sizes, BeginRead(n) \/ BeginRange(n)
      PROVE  PcmTyped'
  <2>1. n \in Nat /\ Len(<<>>) <= n /\ <<>> \in Seq(PcmByte)
    BY <1>1, EmptySeq
  <2>2. CASE BeginRead(n)
    BY <2>1, <2>2 DEF BeginRead, bufVars, doneVars
  <2>3. CASE BeginRange(n)
    BY <2>1, <2>3 DEF BeginRange, bufVars, doneVars
  <2>. QED
    BY <1>2, <2>2, <2>3
<1>3. CASE RefuseRead
  BY <1>3, EmptySeq DEF RefuseRead, bufVars
<1>4. CASE Fill
  <2>. DEFINE s == SourceRead(pos, BufBytes)
  <2>1. /\ s.from = pos
        /\ s.pos \in DataBeg..DataEnd
        /\ s.got \in Nat
        /\ \A i \in 1..s.got : s.from + i - 1 \in PcmByte
    <3>1. pos \in DataBeg..DataEnd /\ BufBytes \in Nat /\ pos \in Int
      BY Sizing
    <3>2. s.got > 0
      BY <1>4 DEF Fill
    <3>3. /\ s.from = pos /\ s.got \in Int /\ s.pos \in pos..DataEnd
          /\ \A i \in 1..s.got : pos + i - 1 \in PcmByte
      BY <3>1, <3>2, ReadFacts
    <3>. HIDE DEF s, PcmTyped
    <3>. QED
      BY <3>1, <3>2, <3>3, Sizing
  <2>2. Stretch(s.from, s.got) \in Seq(PcmByte)
    <3>1. s.from \in Int
      BY <2>1, Sizing
    <3>. HIDE DEF s
    <3>. QED
      BY <2>1, <3>1, StretchSeq
  <2>3. Kept \in Seq(PcmByte) /\ Len(Kept) \in Nat
    BY KeptFacts
  <2>4. /\ Kept \o Stretch(s.from, s.got) \in Seq(PcmByte)
        /\ Len(Kept) \in 0..Len(Kept \o Stretch(s.from, s.got))
    BY <2>2, <2>3, ConcatProperties
  <2>. QED
    BY <1>4, <2>1, <2>4 DEF Fill, flagVars, doneVars
<1>5. CASE FillAtEnd
  <2>1. SourceRead(pos, BufBytes).pos \in DataBeg..DataEnd
    BY ReadFacts, Sizing
  <2>2. Kept \in Seq(PcmByte) /\ Len(Kept) \in 0..Len(Kept)
    BY KeptFacts
  <2>3. call.want - Len(out) \in Nat /\ Len(out) \in Nat
    BY <1>5 DEF FillAtEnd, NeedsBytes
  <2>4. out \in Seq(PcmByte \union {Silence})
    BY SeqMonotonic
  <2>5. Padding(call.want - Len(out)) \in Seq(PcmByte \union {Silence})
    BY <2>3, PaddingSeq, SeqMonotonic
  <2>6. out \o Padding(call.want - Len(out)) \in Seq(PcmByte \union {Silence})
    BY <2>4, <2>5, ConcatProperties
  <2>. QED
    BY <1>5, <2>1, <2>2, <2>3, <2>4, <2>6, EmptySeq DEF FillAtEnd, Finish, NoCall
<1>6. CASE FillThrows
  <2>1. Kept \in Seq(PcmByte) /\ Len(Kept) \in 0..Len(Kept)
    BY KeptFacts
  <2>2. out \in Seq(PcmByte \union {Silence})
    BY SeqMonotonic
  <2>. QED
    BY <1>6, <2>1, <2>2, EmptySeq DEF FillThrows, Finish, NoCall
<1>7. CASE Copy
  <2>1. /\ CopyCount \in Nat
        /\ CopyCount <= Len(area) - next
        /\ CopyCount <= call.want - Len(out)
    BY <1>7, CopyFacts DEF Copy, InAvail
  <2>2. /\ SubSeq(area, next + 1, next + CopyCount) \in Seq(PcmByte)
        /\ Len(SubSeq(area, next + 1, next + CopyCount)) = CopyCount
    <3>1. \A i \in (next + 1)..(next + CopyCount) : area[i] \in PcmByte
      BY <2>1
    <3>2. /\ next + 1 \in Int /\ next + CopyCount \in Int
          /\ next + CopyCount >= next + 1 - 1
          /\ (next + CopyCount) - (next + 1) + 1 = CopyCount
      BY <2>1
    <3>3. area \in Seq(PcmByte)
      OBVIOUS
    <3>. HIDE DEF PcmTyped
    <3>. QED
      BY ONLY <2>1, <3>1, <3>2, <3>3, SubSeqProperties
  <2>3. /\ out \o SubSeq(area, next + 1, next + CopyCount) \in Seq(PcmByte)
        /\ Len(out \o SubSeq(area, next + 1, next + CopyCount)) = Len(out) + CopyCount
    BY <2>2, ConcatProperties
  <2>. QED
    BY <1>7, <2>1, <2>3 DEF Copy, flagVars, doneVars
<1>8. CASE Return
  <2>1. out \in Seq(PcmByte \union {Silence})
    BY SeqMonotonic
  <2>. QED
    BY <1>8, <2>1, EmptySeq DEF Return, Finish, NoCall, bufVars, flagVars
<1>9. ASSUME NEW off \in Offsets, NEW way \in Way, Seekg(off, way)
      PROVE  PcmTyped'
  <2>1. off \in Int /\ off - InAvail \in Int
    BY <1>1 DEF InAvail
  <2>2. /\ SubviewSeek(pos, 0, "cur") \in DataBeg..DataEnd
        /\ SubviewSeek(pos, IF way = "cur" THEN off - InAvail ELSE off, way) \in DataBeg..DataEnd
    <3>1. /\ pos \in Int /\ 0 \in Int /\ "cur" \in Way
          /\ (IF way = "cur" THEN off - InAvail ELSE off) \in Int
      BY <2>1, Sizing DEF Way
    <3>. QED
      BY <3>1, SeekStaysInView
  <2>3. SmallSeek(off, way) => next + off \in 0..Len(area)
    BY <2>1 DEF SmallSeek, InAvail
  <2>. QED
    <3>1. CASE Failed
      BY <1>9, <3>1, EmptySeq DEF Seekg, bufVars
    <3>2. CASE ~Failed /\ SmallSeek(off, way)
      BY <1>9, <2>2, <2>3, <3>2, EmptySeq DEF Seekg, bufVars
    <3>3. CASE ~Failed /\ ~SmallSeek(off, way)
      <4>1. /\ area' = <<>> /\ next' = 0
            /\ pos' \in DataBeg..DataEnd
            /\ result' = <<>> /\ told' = 0
            /\ UNCHANGED <<call, out, gcount>>
        BY <1>9, <2>2, <3>3 DEF Seekg
      <4>2. <<>> \in Seq(PcmByte) /\ 0 \in 0..Len(<<>>)
        BY EmptySeq
      <4>. QED
        BY <4>1, <4>2
    <3>. QED
      BY <3>1, <3>2, <3>3
<1>10. CASE Tellg
  BY <1>10, TellIsPure, Sizing, EmptySeq DEF Tellg, bufVars, Position, InAvail
<1>11. CASE Clear
  BY <1>11, EmptySeq DEF Clear, bufVars
<1>12. CASE UNCHANGED vars
  BY <1>12 DEF vars, bufVars, flagVars, doneVars
<1>. QED
  BY <1>2, <1>3, <1>4, <1>5, <1>6, <1>7, <1>8, <1>9, <1>10, <1>11, <1>12
     DEF Next, Internal, Client

LEMMA PcmTypedAlways == Spec => []PcmTyped
BY PcmTypedInit, PcmTypedStep, PTL DEF Spec

LEMMA FlagsAlways == Spec => [](eof \in BOOLEAN /\ fail \in BOOLEAN /\ bad \in BOOLEAN)
<1>. DEFINE Flags == eof \in BOOLEAN /\ fail \in BOOLEAN /\ bad \in BOOLEAN
<1>1. Init => Flags
  BY Zenon DEF Init
<1>2. Flags /\ [Next]_vars => Flags'
  <2> SUFFICES ASSUME Flags, [Next]_vars
               PROVE  Flags'
    OBVIOUS
  <2>1. CASE FillAtEnd
    BY <2>1, Zenon DEF FillAtEnd
  <2>2. CASE FillThrows
    BY <2>2, Zenon DEF FillThrows
  <2>3. CASE Fill \/ Copy \/ Return
    BY <2>3, Zenon DEF Fill, Copy, Return, flagVars
  <2>4. ASSUME NEW n \in Sizes, BeginRead(n) \/ BeginRange(n)
        PROVE  Flags'
    BY <2>4, Zenon DEF BeginRead, BeginRange, flagVars
  <2>5. CASE RefuseRead
    BY <2>5, Zenon DEF RefuseRead
  <2>6. ASSUME NEW off \in Offsets, NEW way \in Way, Seekg(off, way)
        PROVE  Flags'
    BY <2>6, Zenon DEF Seekg
  <2>7. CASE Tellg \/ Clear
    BY <2>7, Zenon DEF Tellg, Clear
  <2>8. CASE UNCHANGED vars
    BY <2>8, Zenon DEF vars, flagVars
  <2>. QED
    BY <2>1, <2>2, <2>3, <2>4, <2>5, <2>6, <2>7, <2>8, Zenon DEF Next, Internal, Client
<1>. QED
  BY <1>1, <1>2, PTL DEF Spec

\* Type correctness, for every size of file, frame and buffer.
THEOREM TypeCorrect == Spec => []TypeOK
<1>. DEFINE Flags == eof \in BOOLEAN /\ fail \in BOOLEAN /\ bad \in BOOLEAN
            Data == /\ area \in Seq(DataBeg..DataEnd)
                    /\ out \in Seq(DataBeg..DataEnd)
                    /\ result \in Seq((DataBeg..DataEnd) \union {Silence})
<1>1. PcmTyped => Data
  <2>1. PcmByte \subseteq DataBeg..DataEnd
    BY Sizing DEF PcmByte, Smaller
  <2>2. PcmByte \union {Silence} \subseteq (DataBeg..DataEnd) \union {Silence}
    BY <2>1
  <2>. QED
    BY <2>1, <2>2, SeqMonotonic DEF PcmTyped
<1>2. PcmTyped /\ Flags /\ Data => TypeOK
  BY Zenon DEF PcmTyped, TypeOK
<1>. QED
  BY <1>1, <1>2, PcmTypedAlways, FlagsAlways, PTL

\* No client is ever given a byte outside the chunk or behind the end of the
\* file (subview_source::read), even if the file is cut off or requests are not
\* whole frames.
THEOREM ClientsSeeOnlyPcm == Spec => []OnlyPcmBytes
<1>1. PcmTyped => OnlyPcmBytes
  BY DEF PcmTyped, OnlyPcmBytes
<1>. QED
  BY <1>1, PcmTypedAlways, PTL

-----------------------------------------------------------------------------
(* Whole frames.  When the file has all the header announces and the client *)
(* asks for whole frames, no refill is ever cut off in the middle of one.   *)

WholeFrames(n) == n % BytesPerFrame = 0
Regular == Intact /\ WholeFrames(Grain)

LEMMA WholeFramesMultiple ==
  /\ \A n \in Int : WholeFrames(n) => \E k \in Int : n = k * BytesPerFrame
  /\ \A k \in Int : WholeFrames(k * BytesPerFrame)
<1>1. ASSUME NEW b \in Nat \ {0}, NEW n \in Int, n % b = 0
      PROVE  \E k \in Int : n = k * b
  BY <1>1
<1>2. ASSUME NEW b \in Nat \ {0}, NEW k \in Int
      PROVE  (k * b) % b = 0
  OBVIOUS
<1>. QED
  BY <1>1, <1>2, Sizing DEF WholeFrames

LEMMA WholeFramesSum ==
  ASSUME NEW m \in Int, NEW n \in Int, WholeFrames(m), WholeFrames(n)
  PROVE  WholeFrames(m + n) /\ WholeFrames(m - n)
<1>1. PICK j \in Int : m = j * BytesPerFrame
  BY WholeFramesMultiple
<1>2. PICK k \in Int : n = k * BytesPerFrame
  BY WholeFramesMultiple
<1>3. m + n = (j + k) * BytesPerFrame /\ m - n = (j - k) * BytesPerFrame
  BY <1>1, <1>2, Sizing
<1>. QED
  BY <1>3, WholeFramesMultiple

LEMMA WholeFramesOf ==
  /\ WholeFrames(0)
  /\ WholeFrames(NumBytes)
  /\ WholeFrames(BufBytes)
<1>. USE PcmSourceAssumption, InputStreamAssumption
<1>1. WholeFrames(0)
  <2>1. 0 = 0 * BytesPerFrame
    BY Sizing
  <2>. QED
    BY <2>1, WholeFramesMultiple
<1>2. NumFrames \in Int /\ BufFrames \in Int
  OBVIOUS
<1>. QED
  BY <1>1, <1>2, WholeFramesMultiple DEF NumBytes, BufBytes

LEMMA RequestsAreWhole ==
  ASSUME Regular
  PROVE  /\ \A n \in Sizes : WholeFrames(n)
         /\ \A off \in Offsets : WholeFrames(off)
<1>1. ASSUME NEW k \in Int
      PROVE  WholeFrames(Grain * k)
  <2>1. PICK g \in Int : Grain = g * BytesPerFrame
    BY WholeFramesMultiple, InputStreamAssumption DEF Regular
  <2>2. Grain * k = (g * k) * BytesPerFrame /\ g * k \in Int
    BY <2>1, Sizing
  <2>. QED
    BY <2>2, WholeFramesMultiple
<1>2. 0..MaxUnits \subseteq Int /\ -MaxUnits..MaxUnits \subseteq Int
  BY InputStreamAssumption
<1>. QED
  BY <1>1, <1>2 DEF Sizes, Offsets

\* A sample is part of a frame, so whole frames are whole samples.
LEMMA WholeSamples ==
  ASSUME NEW n \in Nat, WholeFrames(n)
  PROVE  BytesPerSample * (n \div BytesPerSample) = n
<1>1. PICK k \in Int : n = k * BytesPerFrame
  BY WholeFramesMultiple
<1>2. n = (k * NumChannels) * BytesPerSample /\ k * NumChannels \in Int
  BY <1>1, PcmSourceAssumption DEF BytesPerFrame
<1>3. \A b \in Nat \ {0}, j \in Int : (j * b) \div b = j
  OBVIOUS
<1>4. n \div BytesPerSample = k * NumChannels
  BY <1>2, <1>3, Sizing
<1>. QED
  BY <1>2, <1>4, Sizing

\* A refill of an intact file ends on a frame and comes back empty only at the
\* end of the data.
LEMMA IntactRead ==
  ASSUME Intact, NEW p \in DataBeg..DataEnd, WholeFrames(p - DataBeg)
  PROVE  LET s == SourceRead(p, BufBytes) IN
         /\ s.got > 0 => s.pos = p + s.got /\ WholeFrames(s.got)
         /\ s.got <= 0 => s.pos = p /\ p = DataEnd
<1>. DEFINE left == DataEnd - p
            n == Smaller(BufBytes, left)
            s == SourceRead(p, BufBytes)
<1>1. SubviewRead(p, BufBytes)
        = [got |-> FileRead(p, n), from |-> p, pos |-> p + Larger(FileRead(p, n), 0)]
  BY TellIsPure DEF SubviewRead
<1>2. /\ left \in Nat /\ n \in Nat
      /\ n = 0 <=> left = 0
      /\ FileRead(p, n) = IF n = 0 THEN -1 ELSE n
  BY Sizing DEF FileRead, Smaller, Larger, Intact
<1>3. WholeFrames(left)
  <2>1. left = NumBytes - (p - DataBeg) /\ NumBytes \in Int /\ p - DataBeg \in Int
    BY Sizing DEF DataEnd
  <2>. QED
    BY <2>1, WholeFramesSum, WholeFramesOf
<1>4. WholeFrames(n)
  BY <1>3, WholeFramesOf DEF Smaller
<1>5. /\ s.pos = p + Larger(FileRead(p, n), 0)
      /\ s.got = IF FileRead(p, n) < 0 THEN FileRead(p, n)
                 ELSE FileRead(p, n) - (FileRead(p, n) % BytesPerFrame)
  BY <1>1 DEF SourceRead
<1>6. CASE n = 0
  <2>1. FileRead(p, n) = -1 /\ left = 0
    BY <1>2, <1>6
  <2>2. s.got = -1 /\ s.pos = p + 0
    BY <1>5, <2>1 DEF Larger
  <2>3. p = DataEnd /\ p + 0 = p
    BY <2>1, Sizing
  <2>. QED
    BY <2>2, <2>3
<1>7. CASE n # 0
  <2>1. s.got = n /\ s.pos = p + n
    BY <1>2, <1>4, <1>5, <1>7 DEF Larger, WholeFrames
  <2>. QED
    BY <1>2, <1>4, <1>7, <2>1
<1>. QED
  BY <1>6, <1>7

-----------------------------------------------------------------------------
(* Runs: sequences of consecutive bytes of the file, the last before e.    *)

EndsAt(s, e) == \A i \in 1..Len(s) : s[i] = e - Len(s) + i - 1

LEMMA EndsAtEmpty == \A e : EndsAt(<<>>, e)
BY DEF EndsAt

LEMMA EndsAtStretch ==
  ASSUME NEW b \in Int, NEW n \in Nat
  PROVE  EndsAt(Stretch(b, n), b + n)
BY DEF EndsAt, Stretch

LEMMA EndsAtJoin ==
  ASSUME NEW S, NEW s \in Seq(S), NEW t \in Seq(S), NEW e \in Int,
         EndsAt(s, e), EndsAt(t, e + Len(t))
  PROVE  EndsAt(s \o t, e + Len(t))
<1>1. /\ Len(s \o t) = Len(s) + Len(t)
      /\ Len(s) \in Nat /\ Len(t) \in Nat
  BY ConcatProperties
<1>2. ASSUME NEW i \in 1..(Len(s) + Len(t)), i <= Len(s)
      PROVE  (s \o t)[i] = e + Len(t) - (Len(s) + Len(t)) + i - 1
  <2>1. (s \o t)[i] = s[i]
    BY <1>2, ConcatProperties
  <2>2. s[i] = e - Len(s) + i - 1
    BY <1>1, <1>2 DEF EndsAt
  <2>. QED
    BY <1>1, <2>1, <2>2
<1>3. ASSUME NEW i \in 1..(Len(s) + Len(t)), ~(i <= Len(s))
      PROVE  (s \o t)[i] = e + Len(t) - (Len(s) + Len(t)) + i - 1
  <2>1. (s \o t)[i] = t[i - Len(s)]
    BY <1>3, ConcatProperties
  <2>2. i - Len(s) \in 1..Len(t)
    BY <1>1, <1>3
  <2>3. t[i - Len(s)] = e + Len(t) - Len(t) + (i - Len(s)) - 1
    BY <2>2 DEF EndsAt
  <2>. QED
    BY <1>1, <2>1, <2>3
<1>. QED
  BY <1>1, <1>2, <1>3 DEF EndsAt

LEMMA EndsAtPart ==
  ASSUME NEW S, NEW s \in Seq(S), NEW e \in Int, EndsAt(s, e),
         NEW m \in Nat, NEW n \in Nat, 1 <= m, m <= n + 1, n <= Len(s)
  PROVE  /\ SubSeq(s, m, n) \in Seq(S)
         /\ Len(SubSeq(s, m, n)) = n - m + 1
         /\ EndsAt(SubSeq(s, m, n), e - (Len(s) - n))
<1>1. \A i \in m..n : s[i] \in S
  OBVIOUS
<1>2. /\ SubSeq(s, m, n) \in Seq(S)
      /\ Len(SubSeq(s, m, n)) = n - m + 1
      /\ \A i \in 1..(n - m + 1) : SubSeq(s, m, n)[i] = s[m + i - 1]
  BY <1>1, SubSeqProperties
<1>3. ASSUME NEW i \in 1..(n - m + 1)
      PROVE  SubSeq(s, m, n)[i] = e - (Len(s) - n) - (n - m + 1) + i - 1
  <2>1. m + i - 1 \in 1..Len(s) /\ Len(s) \in Nat
    OBVIOUS
  <2>2. s[m + i - 1] = e - Len(s) + (m + i - 1) - 1
    BY <2>1 DEF EndsAt
  <2>. QED
    BY <1>2, <2>1, <2>2
<1>. QED
  BY <1>2, <1>3 DEF EndsAt

-----------------------------------------------------------------------------
(* The get area is a window on the file that ends where the file stands,   *)
(* and a call in progress has delivered what lies before the read pointer. *)

Contents ==
  /\ EndsAt(area, pos)
  /\ EndsAt(out, pos - InAvail)

Alignment ==
  /\ WholeFrames(pos - DataBeg)
  /\ WholeFrames(InAvail)
  /\ WholeFrames(Len(out))
  /\ WholeFrames(call.want)

Exact == Contents /\ Alignment

LEMMA SeekIsWhole ==
  ASSUME NEW p \in Int, NEW off \in Int, NEW way \in Way,
         way = "cur" => WholeFrames(p - DataBeg), WholeFrames(off)
  PROVE  WholeFrames(SubviewSeek(p, off, way) - DataBeg)
<1>. DEFINE target == AnchorOf(p, DataBeg, DataEnd, way) + off
<1>1. /\ WholeFrames(DataBeg - DataBeg)
      /\ WholeFrames(DataEnd - DataBeg)
  BY WholeFramesOf, Sizing DEF DataEnd
<1>2. target \in Int /\ WholeFrames(target - DataBeg)
  <2>1. AnchorOf(p, DataBeg, DataEnd, way) \in Int
    BY Sizing DEF AnchorOf, Way
  <2>2. WholeFrames(AnchorOf(p, DataBeg, DataEnd, way) - DataBeg)
    BY <1>1 DEF AnchorOf, Way
  <2>3. target - DataBeg = (AnchorOf(p, DataBeg, DataEnd, way) - DataBeg) + off
    BY <2>1, Sizing
  <2>. QED
    <3>1. AnchorOf(p, DataBeg, DataEnd, way) - DataBeg \in Int
      BY <2>1, Sizing
    <3>2. WholeFrames((AnchorOf(p, DataBeg, DataEnd, way) - DataBeg) + off)
      BY <2>2, <3>1, WholeFramesSum
    <3>. QED
      BY <2>1, <2>3, <3>2
<1>3. SubviewSeek(p, off, way) \in {target, DataBeg, DataEnd}
  BY DEF SubviewSeek, AbsolutePosition, Clamp
<1>. QED
  BY <1>1, <1>2, <1>3

LEMMA CopyIsWhole ==
  ASSUME PcmTyped, Alignment, ~Idle, InAvail > 0, Len(out) < call.want
  PROVE  /\ CopyCount = Smaller(InAvail, call.want - Len(out))
         /\ WholeFrames(CopyCount)
<1>. DEFINE wanted == call.want - Len(out)
<1>1. InAvail \in Nat /\ wanted \in Nat /\ call.want \in Int /\ Len(out) \in Int
  BY DEF PcmTyped, InAvail
<1>2. WholeFrames(InAvail) /\ WholeFrames(wanted)
  BY <1>1, WholeFramesSum DEF Alignment
<1>3. /\ BytesPerSample * (InAvail \div BytesPerSample) = InAvail
      /\ BytesPerSample * (wanted \div BytesPerSample) = wanted
  BY <1>1, <1>2, WholeSamples
<1>4. \A b \in Nat \ {0}, x \in Nat : x \div b \in Nat
  OBVIOUS
<1>5. InAvail \div BytesPerSample \in Nat /\ wanted \div BytesPerSample \in Nat
  BY <1>1, <1>4, Sizing
<1>6. \A b \in Nat \ {0}, i, j \in Nat : i <= j => b * i <= b * j
  OBVIOUS
<1>7. BytesPerSample * Smaller(InAvail \div BytesPerSample, wanted \div BytesPerSample)
        = Smaller(InAvail, wanted)
  BY <1>3, <1>5, <1>6, Sizing DEF Smaller
<1>. QED
  BY <1>1, <1>2, <1>7 DEF CopyCount, Smaller

LEMMA ExactInit == Init => Exact
<1>. SUFFICES ASSUME Init PROVE Exact
  OBVIOUS
<1>1. /\ area = <<>> /\ next = 0 /\ out = <<>> /\ Len(<<>>) = 0
      /\ pos - DataBeg = 0 /\ InAvail = 0 /\ call.want = 0
  BY Sizing DEF Init, InAvail, NoCall
<1>. QED
  BY <1>1, WholeFramesOf, EndsAtEmpty DEF Exact, Contents, Alignment

\* What is kept for put-back is still a run that ends at the read pointer.
LEMMA KeptIsRun ==
  ASSUME PcmTyped, Contents
  PROVE  /\ Kept \in Seq(PcmByte)
         /\ Len(Kept) \in 0..next
         /\ EndsAt(Kept, pos - InAvail)
<1>. DEFINE k == Smaller(next, PutBack)
<1>1. k \in 0..next /\ next \in 0..Len(area) /\ pos \in Int
  BY InputStreamAssumption, Sizing DEF Smaller, PcmTyped
<1>2. /\ SubSeq(area, next - k + 1, next) \in Seq(PcmByte)
      /\ Len(SubSeq(area, next - k + 1, next)) = next - (next - k + 1) + 1
      /\ EndsAt(SubSeq(area, next - k + 1, next), pos - (Len(area) - next))
  <2>1. /\ next - k + 1 \in Nat /\ next \in Nat
        /\ 1 <= next - k + 1 /\ next - k + 1 <= next + 1 /\ next <= Len(area)
    BY <1>1 DEF PcmTyped
  <2>2. area \in Seq(PcmByte) /\ EndsAt(area, pos)
    BY DEF PcmTyped, Contents
  <2>. HIDE DEF k
  <2>. QED
    BY <1>1, <2>1, <2>2, EndsAtPart
<1>. QED
  BY <1>1, <1>2 DEF Kept, InAvail

LEMMA ExactStep ==
  ASSUME Regular, PcmTyped, PcmTyped', Exact, [Next]_vars
  PROVE  Exact'
<1>. USE DEF Exact
<1>1. Sizes \subseteq Nat /\ Offsets \subseteq Int
  BY InputStreamAssumption DEF Sizes, Offsets
<1>2. /\ pos \in Int /\ InAvail \in Nat /\ Len(area) \in Nat /\ Len(out) \in Nat
      /\ next \in Nat /\ InAvail = Len(area) - next /\ DataBeg \in Int
      /\ pos \in DataBeg..DataEnd
  BY Sizing DEF PcmTyped, InAvail
<1>3. ASSUME NEW n \in Sizes, BeginRead(n) \/ BeginRange(n)
      PROVE  Exact'
  <2>1. /\ UNCHANGED <<pos, area, next>>
        /\ out' = <<>> /\ Len(<<>>) = 0 /\ call'.want = n
    BY <1>3 DEF BeginRead, BeginRange, bufVars
  <2>2. WholeFrames(n)
    BY RequestsAreWhole
  <2>. QED
    BY <2>1, <2>2, WholeFramesOf, EndsAtEmpty DEF Contents, Alignment, InAvail
<1>4. CASE Fill
  <2>. DEFINE s == SourceRead(pos, BufBytes)
              n == s.got
              fresh == Stretch(pos, n)
  <2>1. /\ s.from = pos
        /\ n \in Nat /\ n > 0
        /\ \A i \in 1..n : pos + i - 1 \in PcmByte
    BY <1>4, <1>2, ReadFacts, Sizing DEF Fill
  <2>2. s.pos = pos + n /\ WholeFrames(n)
    BY <1>2, <2>1, IntactRead DEF Alignment, Regular
  <2>3. /\ pos' = pos + n /\ area' = Kept \o fresh /\ next' = Len(Kept)
        /\ InAvail = 0
        /\ UNCHANGED <<call, out>>
    BY <1>4, <2>1, <2>2 DEF Fill, NeedsBytes
  <2>. HIDE DEF s, n
  <2>4. /\ fresh \in Seq(PcmByte) /\ Len(fresh) = n
        /\ EndsAt(fresh, pos + n)
    <3>1. fresh \in Seq(PcmByte) /\ Len(fresh) = n
      <4>. HIDE DEF fresh
      <4>1. \A i \in 1..n : pos + i - 1 \in PcmByte
        BY <2>1
      <4>2. Stretch(pos, n) \in Seq(PcmByte) /\ Len(Stretch(pos, n)) = n
        BY ONLY <1>2, <2>1, <4>1, StretchSeq
      <4>. QED
        BY <4>2 DEF fresh
    <3>2. EndsAt(fresh, pos + n)
      BY <2>1, <1>2, EndsAtStretch
    <3>. QED
      BY <3>1, <3>2
  <2>5. Kept \in Seq(PcmByte) /\ Len(Kept) \in Nat /\ EndsAt(Kept, pos)
    BY <1>2, <2>3, KeptIsRun
  <2>. HIDE DEF fresh
  <2>6. /\ Len(Kept \o fresh) = Len(Kept) + n
        /\ EndsAt(Kept \o fresh, pos + n)
    BY <1>2, <2>4, <2>5, ConcatProperties, EndsAtJoin
  <2>7. InAvail' = n
    BY <2>1, <2>3, <2>5, <2>6 DEF InAvail
  <2>8. pos' - InAvail' = pos - InAvail
    <3>1. (pos + n) - n = pos - 0
      BY <1>2, <2>1
    <3>. QED
      BY <2>3, <2>7, <3>1
  <2>9. WholeFrames(pos' - DataBeg)
    <3>1. pos' - DataBeg = (pos - DataBeg) + n /\ pos - DataBeg \in Int
      BY <1>2, <2>1, <2>3
    <3>. QED
      BY <2>1, <2>2, <3>1, WholeFramesSum DEF Alignment
  <2>. QED
    BY <2>2, <2>3, <2>6, <2>7, <2>8, <2>9 DEF Contents, Alignment
<1>5. CASE FillAtEnd \/ FillThrows
  <2>1. /\ area' = Kept /\ next' = Len(Kept) /\ InAvail = 0
        /\ out' = <<>> /\ call'.want = 0 /\ Len(<<>>) = 0
    BY <1>5 DEF FillAtEnd, FillThrows, Finish, NeedsBytes, NoCall
  <2>2. pos' = pos
    BY <1>2, <1>5, IntactRead DEF FillAtEnd, FillThrows, Alignment, Regular
  <2>3. Len(Kept) \in Nat /\ EndsAt(Kept, pos)
    BY <1>2, <2>1, KeptIsRun
  <2>4. InAvail' = 0
    BY <2>1, <2>3 DEF InAvail
  <2>. QED
    BY <2>1, <2>2, <2>3, <2>4, WholeFramesOf, EndsAtEmpty DEF Contents, Alignment
<1>6. CASE Copy
  <2>. DEFINE c == CopyCount
              piece == SubSeq(area, next + 1, next + c)
  <2>1. /\ c \in Nat /\ c <= InAvail /\ WholeFrames(c)
    BY <1>6, CopyFacts, CopyIsWhole DEF Copy
  <2>2. /\ out' = out \o piece /\ next' = next + c
        /\ UNCHANGED <<pos, area, call>>
    BY <1>6 DEF Copy
  <2>. HIDE DEF c
  <2>3. /\ piece \in Seq(PcmByte) /\ Len(piece) = c
        /\ EndsAt(piece, pos - (Len(area) - (next + c)))
    <3>1. /\ next + 1 \in Nat /\ next + c \in Nat /\ 1 <= next + 1
          /\ next + 1 <= (next + c) + 1 /\ next + c <= Len(area)
      BY <1>2, <2>1
    <3>2. area \in Seq(PcmByte) /\ EndsAt(area, pos)
      BY DEF PcmTyped, Contents
    <3>3. /\ piece \in Seq(PcmByte)
          /\ Len(piece) = (next + c) - (next + 1) + 1
          /\ EndsAt(piece, pos - (Len(area) - (next + c)))
      BY <1>2, <3>1, <3>2, EndsAtPart
    <3>. QED
      BY <1>2, <2>1, <3>3
  <2>. HIDE DEF piece
  <2>4. InAvail' = InAvail - c /\ pos' - InAvail' = (pos - InAvail) + c
    BY <1>2, <2>1, <2>2 DEF InAvail
  <2>5. pos - (Len(area) - (next + c)) = (pos - InAvail) + Len(piece)
    BY <1>2, <2>1, <2>3
  <2>6. EndsAt(out \o piece, (pos - InAvail) + c) /\ Len(out \o piece) = Len(out) + c
    <3>1. out \in Seq(PcmByte) /\ EndsAt(out, pos - InAvail) /\ pos - InAvail \in Int
      BY <1>2 DEF PcmTyped, Contents
    <3>2. EndsAt(piece, (pos - InAvail) + Len(piece))
      BY <2>3, <2>5
    <3>. QED
      BY <2>3, <3>1, <3>2, EndsAtJoin, ConcatProperties
  <2>7. WholeFrames(InAvail - c) /\ WholeFrames(Len(out) + c)
    BY <1>2, <2>1, WholeFramesSum DEF Alignment
  <2>. QED
    BY <2>2, <2>4, <2>6, <2>7 DEF Contents, Alignment
<1>7. CASE Return
  <2>1. out' = <<>> /\ Len(<<>>) = 0 /\ call'.want = 0 /\ UNCHANGED <<pos, area, next>>
    BY <1>7 DEF Return, Finish, bufVars, NoCall
  <2>. QED
    BY <2>1, WholeFramesOf, EndsAtEmpty DEF Contents, Alignment, InAvail
<1>8. ASSUME NEW off \in Offsets, NEW way \in Way, Seekg(off, way)
      PROVE  Exact'
  <2>1. /\ off \in Int /\ WholeFrames(off)
        /\ UNCHANGED <<call, out>>
    BY <1>1, <1>8, RequestsAreWhole DEF Seekg
  <2>2. out = <<>>
    <3>1. Len(out) <= 0
      BY <1>8 DEF Seekg, Idle, NoCall, PcmTyped
    <3>. QED
      BY <1>2, <3>1, EmptySeq DEF PcmTyped
  <2>3. SubviewSeek(pos, 0, "cur") = pos
    BY <1>2, TellIsPure
  <2>4. CASE Failed
    <3>1. UNCHANGED <<pos, area, next>>
      BY <1>8, <2>4 DEF Seekg, bufVars
    <3>. QED
      BY <2>1, <3>1 DEF Contents, Alignment, InAvail
  <2>5. CASE ~Failed /\ SmallSeek(off, way)
    <3>1. pos' = pos /\ area' = area /\ next' = next + off
      BY <1>8, <2>3, <2>5 DEF Seekg
    <3>2. InAvail' = InAvail - off
      BY <1>2, <2>1, <3>1 DEF InAvail
    <3>3. WholeFrames(InAvail - off)
      BY <1>2, <2>1, WholeFramesSum DEF Alignment
    <3>. QED
      BY <2>1, <2>2, <3>1, <3>2, <3>3, EndsAtEmpty DEF Contents, Alignment
  <2>6. CASE ~Failed /\ ~SmallSeek(off, way)
    <3>. DEFINE o == IF way = "cur" THEN off - InAvail ELSE off
    <3>1. pos' = SubviewSeek(pos, o, way) /\ area' = <<>> /\ next' = 0
      BY <1>8, <2>6 DEF Seekg
    <3>2. InAvail' = 0
      BY <3>1 DEF InAvail
    <3>3. o \in Int /\ WholeFrames(o)
      <4>1. WholeFrames(off - InAvail) /\ off - InAvail \in Int
        BY <1>2, <2>1, WholeFramesSum DEF Alignment
      <4>. QED
        BY <2>1, <4>1
    <3>. HIDE DEF o
    <3>4. WholeFrames(pos' - DataBeg)
      BY <1>2, <3>1, <3>3, SeekIsWhole DEF Alignment
    <3>. QED
      BY <2>1, <2>2, <3>1, <3>2, <3>4, EndsAtEmpty, WholeFramesOf DEF Contents, Alignment
  <2>. QED
    BY <2>4, <2>5, <2>6
<1>9. CASE Tellg
  <2>1. UNCHANGED <<pos, area, next, call, out>>
    BY <1>2, <1>9, TellIsPure DEF Tellg, bufVars
  <2>. QED
    BY <2>1 DEF Contents, Alignment, InAvail
<1>10. CASE RefuseRead \/ Clear \/ UNCHANGED vars
  <2>1. UNCHANGED <<pos, area, next, call, out>>
    BY <1>10 DEF RefuseRead, Clear, vars, bufVars
  <2>. QED
    BY <2>1 DEF Contents, Alignment, InAvail
<1>. QED
  BY <1>3, <1>4, <1>5, <1>6, <1>7, <1>8, <1>9, <1>10 DEF Next, Internal, Client

LEMMA ExactAlways ==
  ASSUME Regular
  PROVE  Spec => [](PcmTyped /\ Exact)
<1>1. Init => PcmTyped /\ Exact
  BY PcmTypedInit, ExactInit
<1>2. PcmTyped /\ Exact /\ [Next]_vars => (PcmTyped /\ Exact)'
  <2>1. PcmTyped /\ [Next]_vars => PcmTyped'
    BY PcmTypedStep
  <2>2. Regular
    OBVIOUS
  <2>. QED
    BY <2>1, <2>2, ExactStep
<1>. QED
  BY <1>1, <1>2, PTL DEF Spec

\* The next byte is the one at the told position, however the buffer got there
\* (the put-back and small-seek arithmetic against the source's position).
THEOREM NextByteIsTold ==
  ASSUME Regular
  PROVE  Spec => []NextByteIsToldByte
<1>1. PcmTyped /\ Exact => NextByteIsToldByte
  <2> SUFFICES ASSUME PcmTyped, Exact, InAvail > 0
               PROVE  area[next + 1] = DataBeg + Position
    BY DEF NextByteIsToldByte
  <2>1. next + 1 \in 1..Len(area) /\ Len(area) \in Nat /\ next \in Nat /\ pos \in Int
    BY Sizing DEF PcmTyped, InAvail
  <2>2. area[next + 1] = pos - Len(area) + (next + 1) - 1
    BY <2>1 DEF Exact, Contents, EndsAt
  <2>. QED
    BY <2>1, <2>2, Sizing DEF Position, InAvail
<1>. QED
  BY <1>1, ExactAlways, PTL

-----------------------------------------------------------------------------
(* One stretch.  In a file that is cut off, or read in single samples, the *)
(* file may stand behind the get area; then there is nothing more to read. *)

NothingLeft(p) == p = DataEnd \/ FileLen <= p

\* A read that leaves bytes over is the last.
LEMMA CutRead ==
  ASSUME NEW p \in DataBeg..DataEnd
  PROVE  LET s == SourceRead(p, BufBytes) IN
         /\ s.got > 0 => ~NothingLeft(p) /\ (s.pos = p + s.got \/ NothingLeft(s.pos))
         /\ s.got <= 0 => s.pos = p \/ NothingLeft(s.pos)
<1>. DEFINE left == DataEnd - p
            n == Smaller(BufBytes, left)
            r == FileRead(p, n)
            s == SourceRead(p, BufBytes)
<1>1. SubviewRead(p, BufBytes) = [got |-> r, from |-> p, pos |-> p + Larger(r, 0)]
  BY TellIsPure DEF SubviewRead
<1>2. /\ left \in Nat /\ n \in Nat /\ p \in Nat /\ BufBytes \in Nat
      /\ r \in Int /\ r >= -1 /\ r # 0 /\ r <= n /\ n <= left
      /\ r > 0 => p < FileLen /\ p < DataEnd
      /\ r > 0 => r = BufBytes \/ r = left \/ FileLen = p + r
  BY Sizing DEF FileRead, Smaller, Larger
<1>3. /\ s.pos = p + Larger(r, 0)
      /\ s.got = IF r < 0 THEN r ELSE r - (r % BytesPerFrame)
  BY <1>1 DEF SourceRead
<1>4. CASE r < 0
  <2>1. s.pos = p /\ s.got < 0 /\ s.got \in Int
    BY <1>2, <1>3, <1>4 DEF Larger
  <2>. QED
    BY <2>1
<1>5. CASE r > 0
  <2>1. /\ s.pos = p + r /\ s.got = r - (r % BytesPerFrame)
        /\ ~NothingLeft(p)
    BY <1>2, <1>3, <1>5, Sizing DEF Larger, NothingLeft
  <2>2. CASE r = BufBytes
    <3>1. r % BytesPerFrame = 0
      BY <2>2, WholeFramesOf DEF WholeFrames
    <3>2. s.got = r
      BY <1>2, <2>1, <3>1
    <3>. QED
      BY <1>2, <1>5, <2>1, <3>2
  <2>3. CASE r = left \/ FileLen = p + r
    <3>1. NothingLeft(s.pos)
      BY <1>2, <2>1, <2>3, Sizing DEF NothingLeft
    <3>. QED
      BY <2>1, <3>1
  <2>. QED
    BY <1>2, <1>5, <2>2, <2>3
<1>. QED
  BY <1>2, <1>4, <1>5

\* Where the get area ends, whatever it has been filled with.
Edge(e) ==
  /\ EndsAt(area, e)
  /\ EndsAt(out, e - InAvail)
  /\ e = pos \/ NothingLeft(pos)

Seamless == \E e \in Int : Edge(e)

OneRun(s) ==
  \A i \in 1..Len(s) - 1 :
    s[i + 1] \in {Silence, s[i] + 1} /\ (s[i] = Silence => s[i + 1] = Silence)

\* What has been delivered is one run, and still is with padding behind it.
LEMMA PaddedRun ==
  ASSUME NEW s \in Seq(PcmByte), NEW e \in Int, EndsAt(s, e), NEW n \in Nat
  PROVE  OneRun(s) /\ OneRun(s \o Padding(n))
<1>. DEFINE l == Len(s)
            z == Padding(n)
<1>1. /\ l \in Nat
      /\ \A i \in 1..l : s[i] = e - l + i - 1 /\ s[i] \in Nat /\ s[i] # Silence
  <2>1. PcmByte \subseteq Nat
    BY Sizing DEF PcmByte
  <2>2. \A i \in 1..l : s[i] \in PcmByte
    OBVIOUS
  <2>. QED
    BY <2>1, <2>2 DEF EndsAt, Silence
<1>2. OneRun(s)
  BY <1>1 DEF OneRun
<1>3. /\ Len(s \o z) = l + n
      /\ \A i \in 1..(l + n) : (s \o z)[i] = IF i <= l THEN s[i] ELSE Silence
  <2>1. /\ s \in Seq(Int) /\ z \in Seq(Int) /\ Len(z) = n
        /\ \A i \in 1..n : z[i] = Silence
    <3>1. PcmByte \subseteq Int /\ {Silence} \subseteq Int
      BY Sizing DEF PcmByte, Silence
    <3>. QED
      BY <3>1, PaddingSeq, SeqMonotonic
  <2>. HIDE DEF z
  <2>2. /\ Len(s \o z) = Len(s) + Len(z)
        /\ \A i \in 1..Len(s) + Len(z) :
             (s \o z)[i] = IF i <= Len(s) THEN s[i] ELSE z[i - Len(s)]
    BY ONLY <2>1, ConcatProperties
  <2>. QED
    BY <1>1, <2>1, <2>2
<1>. HIDE DEF z
<1>4. ASSUME NEW i \in 1..(l + n) - 1
      PROVE  /\ (s \o z)[i + 1] \in {Silence, (s \o z)[i] + 1}
             /\ (s \o z)[i] = Silence => (s \o z)[i + 1] = Silence
  <2>1. i \in 1..(l + n) /\ i + 1 \in 1..(l + n)
    BY <1>1
  <2>2. CASE i + 1 <= l
    BY <1>1, <1>3, <2>1, <2>2
  <2>3. CASE ~(i + 1 <= l)
    BY <1>3, <2>1, <2>3
  <2>. QED
    BY <2>2, <2>3
<1>5. OneRun(s \o z)
  BY <1>3, <1>4 DEF OneRun
<1>. QED
  BY <1>2, <1>5 DEF z

LEMMA EmptyRun == OneRun(<<>>)
BY DEF OneRun

LEMMA KeptEndsAt ==
  ASSUME PcmTyped, NEW e \in Int, EndsAt(area, e)
  PROVE  /\ Len(Kept) \in 0..next
         /\ Kept \in Seq(PcmByte)
         /\ EndsAt(Kept, e - InAvail)
<1>. DEFINE k == Smaller(next, PutBack)
<1>1. k \in 0..next /\ next \in 0..Len(area)
  BY InputStreamAssumption DEF Smaller, PcmTyped
<1>2. /\ next - k + 1 \in Nat /\ next \in Nat
      /\ 1 <= next - k + 1 /\ next - k + 1 <= next + 1 /\ next <= Len(area)
      /\ area \in Seq(PcmByte)
  BY <1>1 DEF PcmTyped
<1>3. Len(Kept) \in 0..next /\ Kept \in Seq(PcmByte)
  BY <1>1, <1>2, KeptFacts
<1>. HIDE DEF k
<1>4. EndsAt(SubSeq(area, next - k + 1, next), e - (Len(area) - next))
  BY <1>1, <1>2, EndsAtPart
<1>. QED
  BY <1>3, <1>4 DEF Kept, InAvail, k

LEMMA SeamlessInit == Init => Seamless /\ OneStretch
<1>. SUFFICES ASSUME Init PROVE Seamless /\ OneStretch
  OBVIOUS
<1>1. /\ area = <<>> /\ out = <<>> /\ result = <<>> /\ pos \in Int
  BY Sizing DEF Init
<1>2. Edge(pos)
  BY <1>1, EndsAtEmpty DEF Edge
<1>. QED
  BY <1>1, <1>2, EmptyRun DEF Seamless, OneStretch, OneRun

LEMMA SeamlessStep ==
  ASSUME PcmTyped, PcmTyped', Seamless, [Next]_vars
  PROVE  Seamless'
<1>. PICK e \in Int : Edge(e)
  BY DEF Seamless
<1>. SUFFICES \E f \in Int : Edge(f)'
  BY DEF Seamless
<1>1. /\ pos \in DataBeg..DataEnd /\ pos \in Int /\ InAvail \in Nat /\ Len(area) \in Nat
      /\ next \in Nat /\ InAvail = Len(area) - next /\ Len(out) \in Nat
  BY Sizing DEF PcmTyped, InAvail
<1>2. ASSUME out' = <<>>, UNCHANGED <<pos, area>>
      PROVE  Edge(e)'
  BY <1>2, EndsAtEmpty DEF Edge
<1>3. ASSUME UNCHANGED <<pos, area, next, out>>
      PROVE  Edge(e)'
  BY <1>3 DEF Edge, InAvail
<1>4. ASSUME NEW n \in Sizes, BeginRead(n) \/ BeginRange(n)
      PROVE  Edge(e)'
  BY <1>2, <1>4 DEF BeginRead, BeginRange, bufVars
<1>5. CASE Return
  BY <1>2, <1>5 DEF Return, Finish, bufVars
<1>6. CASE Fill
  <2>. DEFINE s == SourceRead(pos, BufBytes)
              n == s.got
              fresh == Stretch(pos, n)
  <2>1. /\ s.from = pos
        /\ n \in Nat /\ n > 0
        /\ \A i \in 1..n : pos + i - 1 \in PcmByte
    BY <1>6, <1>1, ReadFacts, Sizing DEF Fill
  <2>2. /\ ~NothingLeft(pos)
        /\ s.pos = pos + n \/ NothingLeft(s.pos)
    BY <1>1, <2>1, CutRead
  <2>3. /\ pos' = s.pos /\ area' = Kept \o fresh /\ next' = Len(Kept)
        /\ InAvail = 0 /\ out' = out
    BY <1>6, <2>1 DEF Fill, NeedsBytes
  <2>4. e = pos
    BY <2>2 DEF Edge
  <2>. HIDE DEF s, n
  <2>5. /\ fresh \in Seq(PcmByte) /\ Len(fresh) = n
        /\ EndsAt(fresh, pos + n)
    <3>1. fresh \in Seq(PcmByte) /\ Len(fresh) = n
      <4>. HIDE DEF fresh
      <4>1. \A i \in 1..n : pos + i - 1 \in PcmByte
        BY <2>1
      <4>2. Stretch(pos, n) \in Seq(PcmByte) /\ Len(Stretch(pos, n)) = n
        BY ONLY <1>1, <2>1, <4>1, StretchSeq
      <4>. QED
        BY <4>2 DEF fresh
    <3>2. EndsAt(fresh, pos + n)
      BY <2>1, <1>1, EndsAtStretch
    <3>. QED
      BY <3>1, <3>2
  <2>6. Kept \in Seq(PcmByte) /\ Len(Kept) \in Nat /\ EndsAt(Kept, pos)
    <3>1. /\ Len(Kept) \in 0..next /\ Kept \in Seq(PcmByte)
          /\ EndsAt(Kept, e - InAvail)
      BY KeptEndsAt DEF Edge
    <3>2. e - InAvail = pos
      BY <1>1, <2>3, <2>4
    <3>. QED
      BY <1>1, <3>1, <3>2
  <2>. HIDE DEF fresh
  <2>7. /\ Len(Kept \o fresh) = Len(Kept) + n
        /\ EndsAt(Kept \o fresh, pos + n)
    BY <1>1, <2>5, <2>6, ConcatProperties, EndsAtJoin
  <2>8. InAvail' = n
    BY <2>1, <2>3, <2>6, <2>7 DEF InAvail
  <2>9. EndsAt(out, pos)
    <3>1. EndsAt(out, e - InAvail)
      BY DEF Edge
    <3>2. e - InAvail = pos
      BY <1>1, <2>3, <2>4
    <3>. QED
      BY <3>1, <3>2
  <2>10. (pos + n) - n = pos /\ pos + n \in Int
    BY <1>1, <2>1
  <2>. PICK f \in Int : f = pos + n
    BY <2>10
  <2>11. EndsAt(area', f) /\ EndsAt(out', f - n)
    BY <2>3, <2>7, <2>9, <2>10
  <2>12. pos' = f \/ NothingLeft(pos')
    BY <2>2, <2>3
  <2>13. Edge(f)'
    BY <2>8, <2>11, <2>12 DEF Edge, NothingLeft, EndsAt
  <2>. QED
    BY <2>13
<1>7. CASE FillAtEnd \/ FillThrows
  <2>1. /\ area' = Kept /\ next' = Len(Kept) /\ InAvail = 0
        /\ out' = <<>>
    BY <1>7 DEF FillAtEnd, FillThrows, Finish, NeedsBytes
  <2>2. pos' = pos \/ NothingLeft(pos')
    BY <1>1, <1>7, CutRead DEF FillAtEnd, FillThrows
  <2>3. EndsAt(Kept, e)
    <3>1. EndsAt(Kept, e - InAvail)
      BY KeptEndsAt DEF Edge
    <3>. QED
      BY <2>1, <3>1
  <2>4. e = pos' \/ NothingLeft(pos')
    BY <2>2 DEF Edge
  <2>5. Edge(e)'
    BY <2>1, <2>3, <2>4, EndsAtEmpty DEF Edge, NothingLeft
  <2>. QED
    BY <2>5
<1>8. CASE Copy
  <2>. DEFINE c == CopyCount
              piece == SubSeq(area, next + 1, next + c)
  <2>1. c \in Nat /\ c <= InAvail
    BY <1>8, CopyFacts DEF Copy
  <2>2. /\ out' = out \o piece /\ next' = next + c
        /\ UNCHANGED <<pos, area, call>>
    BY <1>8 DEF Copy
  <2>. HIDE DEF c
  <2>3. /\ piece \in Seq(PcmByte) /\ Len(piece) = c
        /\ EndsAt(piece, e - (Len(area) - (next + c)))
    <3>1. /\ next + 1 \in Nat /\ next + c \in Nat /\ 1 <= next + 1
          /\ next + 1 <= (next + c) + 1 /\ next + c <= Len(area)
      BY <1>1, <2>1
    <3>2. area \in Seq(PcmByte) /\ EndsAt(area, e)
      BY DEF PcmTyped, Edge
    <3>3. /\ piece \in Seq(PcmByte)
          /\ Len(piece) = (next + c) - (next + 1) + 1
          /\ EndsAt(piece, e - (Len(area) - (next + c)))
      BY <3>1, <3>2, EndsAtPart
    <3>. QED
      BY <1>1, <2>1, <3>3
  <2>. HIDE DEF piece
  <2>4. InAvail' = InAvail - c /\ e - (InAvail - c) = (e - InAvail) + c
    BY <1>1, <2>1, <2>2 DEF InAvail
  <2>5. e - (Len(area) - (next + c)) = (e - InAvail) + Len(piece)
    BY <1>1, <2>1, <2>3
  <2>6. EndsAt(out \o piece, (e - InAvail) + c)
    <3>1. out \in Seq(PcmByte) /\ EndsAt(out, e - InAvail) /\ e - InAvail \in Int
      BY <1>1 DEF PcmTyped, Edge
    <3>2. EndsAt(piece, (e - InAvail) + Len(piece))
      BY <2>3, <2>5
    <3>. QED
      BY <2>3, <3>1, <3>2, EndsAtJoin
  <2>7. Edge(e)'
    BY <2>2, <2>4, <2>6 DEF Edge
  <2>. QED
    BY <2>7
<1>9. ASSUME NEW off \in Offsets, NEW way \in Way, Seekg(off, way)
      PROVE  \E f \in Int : Edge(f)'
  <2>1. out = <<>> /\ out' = <<>>
    <3>1. Len(out) <= 0 /\ out' = out
      BY <1>9 DEF Seekg, Idle, NoCall, PcmTyped
    <3>. QED
      BY <1>1, <3>1, EmptySeq DEF PcmTyped
  <2>2. SubviewSeek(pos, 0, "cur") = pos
    BY <1>1, TellIsPure
  <2>3. CASE Failed \/ SmallSeek(off, way)
    <3>1. UNCHANGED <<pos, area>>
      BY <1>9, <2>2, <2>3 DEF Seekg, bufVars
    <3>. QED
      BY <1>2, <2>1, <3>1
  <2>4. CASE ~Failed /\ ~SmallSeek(off, way)
    <3>1. area' = <<>>
      BY <1>9, <2>4 DEF Seekg
    <3>2. pos' \in Int
      BY Sizing DEF PcmTyped
    <3>. PICK f \in Int : f = pos'
      BY <3>2
    <3>3. Edge(f)'
      BY <2>1, <3>1, EndsAtEmpty DEF Edge
    <3>. QED
      BY <3>3
  <2>. QED
    BY <2>3, <2>4
<1>10. CASE Tellg
  BY <1>1, <1>3, <1>10, TellIsPure DEF Tellg, bufVars
<1>11. CASE RefuseRead \/ Clear \/ UNCHANGED vars
  BY <1>3, <1>11 DEF RefuseRead, Clear, vars, bufVars
<1>. QED
  BY <1>4, <1>5, <1>6, <1>7, <1>8, <1>9, <1>10, <1>11 DEF Next, Internal, Client

LEMMA StretchStep ==
  ASSUME PcmTyped, Seamless, OneStretch, [Next]_vars
  PROVE  OneStretch'
<1>. PICK e \in Int : Edge(e)
  BY DEF Seamless
<1>1. /\ Len(out) \in Nat /\ call.want \in Nat /\ Len(out) <= call.want /\ out \in Seq(PcmByte)
      /\ e - InAvail \in Int /\ EndsAt(out, e - InAvail)
  BY DEF PcmTyped, Edge, InAvail
<1>2. OneRun(out) /\ OneRun(out \o Padding(call.want - Len(out)))
  BY <1>1, PaddedRun
<1>3. result' \in {result, <<>>, out, out \o Padding(call.want - Len(out))}
  <2>1. CASE Fill \/ Copy
    BY <2>1 DEF Fill, Copy, doneVars
  <2>2. CASE FillAtEnd
    BY <2>2 DEF FillAtEnd
  <2>3. CASE FillThrows \/ Return
    BY <2>3 DEF FillThrows, Return
  <2>4. ASSUME NEW n \in Sizes, BeginRead(n) \/ BeginRange(n)
        PROVE  result' = result
    BY <2>4 DEF BeginRead, BeginRange, doneVars
  <2>5. CASE RefuseRead \/ Tellg \/ Clear
    BY <2>5 DEF RefuseRead, Tellg, Clear
  <2>6. ASSUME NEW off \in Offsets, NEW way \in Way, Seekg(off, way)
        PROVE  result' = <<>>
    BY <2>6 DEF Seekg
  <2>7. CASE UNCHANGED vars
    BY <2>7 DEF vars, doneVars
  <2>. QED
    BY <2>1, <2>2, <2>3, <2>4, <2>5, <2>6, <2>7 DEF Next, Internal, Client
<1>4. OneRun(result) /\ OneRun(<<>>)
  BY EmptyRun DEF OneStretch, OneRun
<1>5. OneRun(result')
  BY <1>2, <1>3, <1>4
<1>. QED
  BY <1>5 DEF OneStretch, OneRun

\* Whatever a call delivers is one stretch of the file with padding only behind it,
\* for any file, cut off or not, and requests of any grain (underflow, operator>>).
THEOREM CallsDeliverOneStretch == Spec => []OneStretch
<1>1. PcmTyped /\ Seamless /\ OneStretch /\ [Next]_vars => (Seamless /\ OneStretch)'
  BY PcmTypedStep, SeamlessStep, StretchStep
<1>. QED
  BY <1>1, SeamlessInit, PcmTypedAlways, PTL DEF Spec
(***************************************************************************)
(* That InputStream implements SampleStream: over an intact file, used in  *)
(* whole frames, the buffer, its read-ahead and the device under it cannot *)
(* be told from a row of bytes with a position.                            *)
(***************************************************************************)

-----------------------------------------------------------------------------
(* What holds while a call is in progress.                                 *)

Flags == eof \in BOOLEAN /\ fail \in BOOLEAN /\ bad \in BOOLEAN

\* A call has passed its sentry, and no bit changes before it returns.
CallGoesOn ==
  /\ call.op = "none" => call.want = 0
  /\ call.op # "none" => call.want \in Sizes
  /\ call.op = "read" => Good
  /\ call.op = "range" => ~Failed /\ call.want > 0

LEMMA CallInit == Init => CallGoesOn
BY DEF Init, NoCall, CallGoesOn

LEMMA CallStep == CallGoesOn /\ [Next]_vars => CallGoesOn'
<1>. SUFFICES ASSUME CallGoesOn, [Next]_vars
              PROVE  CallGoesOn'
  OBVIOUS
<1>. USE DEF CallGoesOn
<1>1. ASSUME NEW n \in Sizes, BeginRead(n) \/ BeginRange(n)
      PROVE  CallGoesOn'
  BY <1>1 DEF BeginRead, BeginRange, flagVars, Good, Failed
<1>2. CASE Fill \/ Copy
  BY <1>2 DEF Fill, Copy, flagVars, Good, Failed
<1>3. CASE FillAtEnd \/ FillThrows \/ Return
  BY <1>3 DEF FillAtEnd, FillThrows, Return, Finish, NoCall
<1>4. CASE Idle /\ UNCHANGED call
  BY <1>4 DEF Idle, NoCall
<1>5. ASSUME NEW off \in Offsets, NEW way \in Way, Seekg(off, way)
      PROVE  Idle /\ UNCHANGED call
  BY <1>5 DEF Seekg
<1>6. CASE RefuseRead \/ Tellg \/ Clear
  BY <1>4, <1>6 DEF RefuseRead, Tellg, Clear
<1>7. CASE UNCHANGED vars
  BY <1>7 DEF vars, flagVars, Good, Failed
<1>. QED
  BY <1>1, <1>2, <1>3, <1>4, <1>5, <1>6, <1>7 DEF Next, Internal, Client

LEMMA CallAlways == Spec => []CallGoesOn
BY CallInit, CallStep, PTL DEF Spec

-----------------------------------------------------------------------------
(* Where the client's position is.                                         *)

At   == Position - Len(out)    \* the position of the row
Rest == NumBytes - At          \* what is left of it

LEMMA RowFacts ==
  ASSUME PcmTyped, Exact
  PROVE  /\ pos \in DataBeg..DataEnd /\ Len(out) \in Nat /\ InAvail \in Nat
         /\ At = pos - InAvail - DataBeg - Len(out)
         /\ At \in 0..NumBytes /\ Position \in 0..NumBytes
         /\ Len(out) <= Rest /\ Rest \in Nat
         /\ pos - Len(area) >= DataBeg
<1>1. /\ pos \in DataBeg..DataEnd /\ Len(out) \in Nat /\ InAvail \in Nat
      /\ Len(area) \in Nat /\ next \in 0..Len(area) /\ InAvail = Len(area) - next
      /\ DataBeg \in Nat /\ NumBytes \in Nat /\ DataEnd = DataBeg + NumBytes
  BY Sizing DEF PcmTyped, InAvail, DataEnd
<1>2. \A b \in PcmByte : b \in Int /\ b >= DataBeg
  BY Sizing DEF PcmByte, Smaller
<1>3. pos - Len(area) >= DataBeg
  <2>1. CASE Len(area) = 0
    BY <1>1, <2>1
  <2>2. CASE Len(area) > 0
    <3>1. area[1] \in PcmByte /\ area[1] = pos - Len(area) + 1 - 1
      BY <1>1, <2>2 DEF PcmTyped, Exact, Contents, EndsAt
    <3>. QED
      BY <1>1, <1>2, <3>1
  <2>. QED
    BY <1>1, <2>1, <2>2
<1>4. pos - InAvail - Len(out) >= DataBeg
  <2>1. CASE Len(out) = 0
    BY <1>1, <1>3, <2>1
  <2>2. CASE Len(out) > 0
    <3>1. out[1] \in PcmByte /\ out[1] = (pos - InAvail) - Len(out) + 1 - 1
      BY <1>1, <2>2 DEF PcmTyped, Exact, Contents, EndsAt
    <3>. QED
      BY <1>1, <1>2, <3>1
  <2>. QED
    BY <1>1, <2>1, <2>2
<1>. QED
  BY <1>1, <1>3, <1>4 DEF At, Rest, Position

\* What a call has delivered so far are the bytes at the client's position.
LEMMA OutIsBytes ==
  ASSUME PcmTyped, Exact
  PROVE  out = Stream!Bytes(Len(out))
<1>1. /\ At = pos - InAvail - DataBeg - Len(out) /\ Len(out) \in Nat /\ InAvail \in Nat
      /\ pos \in Int /\ DataBeg \in Int
  BY RowFacts, Sizing
<1>2. \A i \in 1..Len(out) : out[i] = DataBeg + At + i - 1
  BY <1>1 DEF Exact, Contents, EndsAt
<1>3. out = [i \in 1..Len(out) |-> out[i]]
  BY DEF PcmTyped
<1>4. [i \in 1..Len(out) |-> out[i]] = [i \in 1..Len(out) |-> DataBeg + At + i - 1]
  BY <1>2
<1>. QED
  BY <1>3, <1>4 DEF Stream!Bytes, At

LEMMA NothingDelivered ==
  ASSUME PcmTyped, Idle
  PROVE  out = <<>> /\ Len(out) = 0 /\ At = Position
<1>1. Len(out) <= 0 /\ Len(out) \in Nat /\ out \in Seq(PcmByte)
  BY DEF PcmTyped, Idle, NoCall
<1>2. out = <<>> /\ Len(out) = 0
  BY <1>1, EmptySeq
<1>3. Position \in Int
  BY Sizing DEF PcmTyped, Position, InAvail
<1>. QED
  BY <1>2, <1>3 DEF At

-----------------------------------------------------------------------------
(* Steps of the buffer are invisible.                                      *)

LEMMA FillIsInvisible ==
  ASSUME Regular, PcmTyped, Exact, Fill
  PROVE  At' = At
<1>. DEFINE n == SourceRead(pos, BufBytes).got
<1>1. pos \in DataBeg..DataEnd /\ pos \in Int /\ InAvail = 0 /\ Len(out) \in Nat
  BY RowFacts, Sizing DEF Fill, NeedsBytes
<1>2. n \in Nat /\ n > 0 /\ \A i \in 1..n : pos + i - 1 \in PcmByte
  BY <1>1, ReadFacts, Sizing DEF Fill
<1>3. SourceRead(pos, BufBytes).from = pos /\ SourceRead(pos, BufBytes).pos = pos + n
  <2>1. WholeFrames(pos - DataBeg)
    BY DEF Exact, Alignment
  <2>. QED
    BY <1>1, <1>2, <2>1, IntactRead, ReadFacts, Sizing DEF Regular
<1>4. /\ pos' = pos + n /\ area' = Kept \o Stretch(pos, n) /\ next' = Len(Kept)
      /\ out' = out
  BY <1>3 DEF Fill
<1>. HIDE DEF n
<1>5. Stretch(pos, n) \in Seq(PcmByte) /\ Len(Stretch(pos, n)) = n
  BY ONLY <1>1, <1>2, StretchSeq
<1>6. Kept \in Seq(PcmByte) /\ Len(Kept) \in Nat
  BY KeptFacts DEF PcmTyped
<1>7. Len(Kept \o Stretch(pos, n)) = Len(Kept) + n
  BY <1>5, <1>6, ConcatProperties
<1>8. InAvail' = n
  BY <1>2, <1>4, <1>6, <1>7 DEF InAvail
<1>. QED
  BY <1>1, <1>2, <1>4, <1>8, Sizing DEF At, Position

LEMMA CopyIsInvisible ==
  ASSUME PcmTyped, Copy
  PROVE  At' = At
<1>. DEFINE piece == SubSeq(area, next + 1, next + CopyCount)
<1>1. /\ pos \in Int /\ next \in Nat /\ Len(area) \in Nat /\ next <= Len(area)
      /\ Len(out) \in Nat /\ DataBeg \in Int
  BY Sizing DEF PcmTyped
<1>2. CopyCount \in Nat /\ CopyCount <= Len(area) - next
  BY CopyFacts DEF Copy, InAvail
<1>3. piece \in Seq(PcmByte) /\ Len(piece) = CopyCount
  <2>1. /\ \A i \in next + 1..next + CopyCount : area[i] \in PcmByte
        /\ area \in Seq(PcmByte)
    BY <1>1, <1>2 DEF PcmTyped
  <2>2. /\ next + 1 \in Int /\ next + CopyCount \in Int
        /\ next + CopyCount >= next + 1 - 1
        /\ (next + CopyCount) - (next + 1) + 1 = CopyCount
    BY <1>1, <1>2
  <2>. QED
    BY ONLY <1>1, <1>2, <2>1, <2>2, SubSeqProperties
<1>4. out' = out \o piece /\ next' = next + CopyCount /\ UNCHANGED <<pos, area>>
  BY DEF Copy
<1>. HIDE DEF piece
<1>5. Len(out \o piece) = Len(out) + CopyCount
  <2>1. out \in Seq(PcmByte)
    BY DEF PcmTyped
  <2>. QED
    BY ONLY <1>3, <2>1, ConcatProperties
<1>. QED
  <2>1. At = (pos - (Len(area) - next) - DataBeg) - Len(out)
    BY DEF At, Position, InAvail
  <2>2. At' = (pos - (Len(area) - (next + CopyCount)) - DataBeg) - (Len(out) + CopyCount)
    BY <1>4, <1>5 DEF At, Position, InAvail
  <2>. QED
    BY <1>1, <1>2, <2>1, <2>2

\* What a refill that comes back empty leaves: the client at the end of the row.
LEMMA EndIsReached ==
  ASSUME Regular, PcmTyped, Exact, FillAtEnd
  PROVE  /\ Rest = Len(out) /\ Len(out) < call.want /\ call.want \in Nat
         /\ At' = At + Len(out)
<1>1. /\ pos \in DataBeg..DataEnd /\ InAvail = 0 /\ Len(out) \in Nat /\ DataBeg \in Nat
      /\ At = pos - InAvail - DataBeg - Len(out) /\ NumBytes \in Nat
  BY RowFacts, Sizing DEF FillAtEnd, NeedsBytes
<1>2. pos = DataEnd /\ pos' = pos
  <2>1. WholeFrames(pos - DataBeg) /\ Intact
    BY DEF Exact, Alignment, Regular
  <2>2. SourceRead(pos, BufBytes).got <= 0 /\ pos' = SourceRead(pos, BufBytes).pos
    BY DEF FillAtEnd
  <2>. QED
    BY <1>1, <2>1, <2>2, IntactRead
<1>3. InAvail' = 0
  <2>1. Len(Kept) \in Nat /\ area' = Kept /\ next' = Len(Kept)
    BY KeptFacts DEF PcmTyped, FillAtEnd
  <2>. QED
    BY <2>1 DEF InAvail
<1>4. out' = <<>> /\ Len(<<>>) = 0
  BY DEF FillAtEnd, Finish
<1>5. Len(out) < call.want /\ call.want \in Nat
  BY DEF FillAtEnd, NeedsBytes, PcmTyped
<1>6. At' = pos - DataBeg
  BY <1>1, <1>2, <1>3, <1>4 DEF At, Position
<1>. QED
  BY <1>1, <1>2, <1>5, <1>6 DEF Rest, DataEnd

-----------------------------------------------------------------------------
(* Calls take effect when they return.                                     *)

LEMMA EndIsRead ==
  ASSUME Regular, PcmTyped, Exact, Flags, CallGoesOn, FillAtEnd
  PROVE  Stream!Next
<1>. DEFINE n == call.want
<1>1. /\ Rest = Len(out) /\ Len(out) < n /\ n \in Nat /\ At' = At + Len(out) /\ Len(out) \in Nat
  BY EndIsReached, RowFacts
<1>2. /\ Stream!Left = Rest /\ Stream!Min(n, Stream!Left) = Len(out) /\ (n > Stream!Left) = TRUE
  BY <1>1 DEF Stream!Left, Stream!Min, Rest, At
<1>3. out = Stream!Bytes(Stream!Min(n, Stream!Left))
  BY <1>2, OutIsBytes
<1>4. (Position - Len(out))' = (Position - Len(out)) + Stream!Min(n, Stream!Left)
  BY <1>1, <1>2 DEF At
<1>5. call.op \in {"read", "range"} /\ n \in Sizes
  <2>1. call.op \in {"none", "read", "range"}
    BY DEF PcmTyped
  <2>2. call.op # "none"
    BY <1>1 DEF CallGoesOn
  <2>. QED
    BY <2>1, <2>2 DEF CallGoesOn
<1>6. CASE call.op = "read"
  <2>1. Good /\ gcount' = Len(out) /\ result' = out /\ eof' = TRUE /\ fail' = TRUE /\ bad' = bad
        /\ asked' = Asked("read", n, "cur") /\ told' = 0
    BY <1>6 DEF FillAtEnd, Finish, CallGoesOn
  <2>2. Stream!Read(n)
    BY <1>2, <1>3, <1>4, <2>1
       DEF Stream!Read, Good, Failed, Stream!Good, Stream!Failed, Asked, Stream!Ask
  <2>. QED
    BY <1>5, <2>2 DEF Stream!Next
<1>7. CASE call.op = "range"
  <2>1. /\ ~Failed /\ n > 0 /\ gcount' = gcount /\ eof' = TRUE /\ bad' = bad
        /\ asked' = Asked("range", n, "cur") /\ told' = 0
    BY <1>7 DEF FillAtEnd, Finish, CallGoesOn
  <2>2. CASE out = <<>>
    <3>1. Stream!Left = 0 /\ fail' = TRUE /\ result' = <<>>
      BY <1>1, <1>2, <1>7, <2>2 DEF FillAtEnd
    <3>2. Stream!ReadRange(n)
      BY <1>4, <2>1, <3>1
         DEF Stream!ReadRange, Failed, Stream!Failed, Asked, Stream!Ask
    <3>. QED
      BY <1>5, <3>2 DEF Stream!Next
  <2>3. CASE out # <<>>
    <3>1. Len(out) > 0
      BY <1>1, <2>3, EmptySeq DEF PcmTyped
    <3>2. result' = out \o Padding(n - Len(out))
      BY <1>7, <2>3 DEF FillAtEnd
    <3>3. Padding(n - Len(out)) = Stream!Pads(n - Stream!Min(n, Stream!Left))
      BY <1>2 DEF Padding, Silence, Stream!Pads, Stream!Pad
    <3>4. result' = Stream!Bytes(Stream!Min(n, Stream!Left)) \o Stream!Pads(n - Stream!Min(n, Stream!Left))
      BY <1>3, <3>2, <3>3
    <3>5. fail' = FALSE /\ fail = FALSE
      <4>1. fail = FALSE
        BY <2>1, Zenon DEF Failed, Flags
      <4>2. fail' = FALSE
        BY <1>7, <2>3, Zenon DEF FillAtEnd
      <4>. QED
        BY <4>1, <4>2
    <3>6. Stream!Left > 0
      BY <1>1, <1>2, <3>1
    <3>7. Stream!ReadRange(n)
      BY <1>2, <1>4, <2>1, <3>4, <3>5, <3>6
         DEF Stream!ReadRange, Failed, Stream!Failed, Asked, Stream!Ask
    <3>. QED
      BY <1>5, <3>7 DEF Stream!Next
  <2>. QED
    BY <2>2, <2>3
<1>. QED
  BY <1>5, <1>6, <1>7

LEMMA ThrowIsBrokenRead ==
  ASSUME Regular, PcmTyped, Exact, Flags, CallGoesOn, FillThrows
  PROVE  Stream!Next
<1>. DEFINE n == call.want
            m == Len(out)
<1>1. /\ pos \in Int /\ InAvail = 0 /\ m \in Nat /\ DataBeg \in Nat
      /\ At = pos - InAvail - DataBeg - m /\ m <= Rest /\ Rest \in Nat
      /\ m < n /\ n \in Nat /\ DeviceMayFail
  BY RowFacts, Sizing DEF FillThrows, NeedsBytes, PcmTyped
<1>2. InAvail' = 0 /\ pos' = pos /\ Len(out') = 0
  <2>1. Len(Kept) \in Nat /\ area' = Kept /\ next' = Len(Kept) /\ pos' = pos /\ out' = <<>>
    BY KeptFacts DEF PcmTyped, FillThrows, Finish
  <2>. QED
    BY <2>1 DEF InAvail
<1>3. (Position - Len(out))' = (Position - Len(out)) + m
  BY <1>1, <1>2 DEF At, Position
<1>4. Stream!Left = Rest /\ m \in 0..Stream!Min(n, Stream!Left)
  BY <1>1 DEF Stream!Left, Stream!Min, Rest, At
<1>5. result' = Stream!Bytes(m)
  BY OutIsBytes DEF FillThrows
<1>6. call.op \in {"read", "range"} /\ n \in Sizes
  <2>1. call.op \in {"none", "read", "range"} /\ call.op # "none"
    BY <1>1 DEF PcmTyped, CallGoesOn
  <2>. QED
    BY <2>1 DEF CallGoesOn
<1>7. told' = 0 /\ eof' = eof /\ fail' = fail /\ asked' = Asked(call.op, n, "cur")
  BY DEF FillThrows, Finish
<1>8. \E k \in 0..Stream!Min(n, Stream!Left) :
        result' = Stream!Bytes(k) /\ (Position - Len(out))' = (Position - Len(out)) + k
  BY <1>3, <1>4, <1>5
<1>9. CASE call.op = "read"
  <2>1. Good /\ bad' = TRUE /\ gcount' = 0
    BY <1>9 DEF FillThrows, CallGoesOn
  <2>2. Stream!ReadBroken(n)
    BY <1>1, <1>7, <1>8, <1>9, <2>1
       DEF Stream!ReadBroken, Good, Failed, Stream!Good, Stream!Failed, Asked, Stream!Ask
  <2>. QED
    BY <1>6, <2>2 DEF Stream!Next
<1>10. CASE call.op = "range"
  <2>1. ~Failed /\ gcount' = gcount
    BY <1>10 DEF FillThrows, CallGoesOn
  <2>2. bad' = bad
    <3>1. bad' = (bad \/ call.op = "read") /\ call.op # "read"
      BY <1>10 DEF FillThrows
    <3>. QED
      BY <3>1, Zenon DEF Flags
  <2>3. Stream!ReadBroken(n)
    BY <1>1, <1>7, <1>8, <1>10, <2>1, <2>2
       DEF Stream!ReadBroken, Failed, Stream!Failed, Asked, Stream!Ask
  <2>. QED
    BY <1>6, <2>3 DEF Stream!Next
<1>. QED
  BY <1>6, <1>9, <1>10

LEMMA ReturnIsRead ==
  ASSUME PcmTyped, Exact, Flags, CallGoesOn, Return
  PROVE  Stream!Next
<1>. DEFINE n == call.want
<1>1. /\ n = Len(out) /\ n \in Nat /\ n <= Rest /\ Rest \in Nat
      /\ result' = out /\ told' = 0 /\ UNCHANGED <<eof, fail, bad>>
      /\ asked' = Asked(call.op, n, "cur")
      /\ gcount' = IF call.op = "read" THEN Len(out) ELSE gcount
  BY RowFacts DEF Return, Finish, flagVars
<1>2. /\ Stream!Left = Rest /\ Stream!Min(n, Stream!Left) = n /\ (n > Stream!Left) = FALSE
  BY <1>1 DEF Stream!Left, Stream!Min, Rest, At
<1>3. out = Stream!Bytes(n)
  BY <1>1, OutIsBytes
<1>4. (Position - Len(out))' = (Position - Len(out)) + n
  <2>1. pos' = pos /\ area' = area /\ next' = next /\ out' = <<>> /\ Len(<<>>) = 0
    BY DEF Return, Finish, bufVars
  <2>2. Position \in Int /\ Position' = Position
    BY <2>1, RowFacts DEF Position, InAvail
  <2>. QED
    BY <1>1, <2>1, <2>2
<1>5. call.op \in {"read", "range"} /\ n \in Sizes
  <2>1. call.op \in {"none", "read", "range"}
    BY DEF PcmTyped
  <2>2. call.op # "none"
    <3>1. call = [op |-> call.op, want |-> call.want]
      BY DEF PcmTyped
    <3>. QED
      BY <3>1 DEF CallGoesOn, Return, Idle, NoCall
  <2>. QED
    BY <2>1, <2>2 DEF CallGoesOn
<1>6. CASE call.op = "read"
  <2>1. Good /\ gcount' = n
    BY <1>1, <1>6 DEF CallGoesOn
  <2>2. eof = FALSE /\ fail = FALSE
    BY <2>1, Zenon DEF Good, Failed, Flags
  <2>3. Stream!Read(n)
    BY <1>1, <1>2, <1>3, <1>4, <1>6, <2>1, <2>2
       DEF Stream!Read, Good, Failed, Stream!Good, Stream!Failed, Asked, Stream!Ask
  <2>. QED
    BY <1>5, <2>3 DEF Stream!Next
<1>7. CASE call.op = "range"
  <2>1. ~Failed /\ n > 0 /\ gcount' = gcount
    BY <1>1, <1>7 DEF CallGoesOn
  <2>2. Stream!Bytes(n) \o Stream!Pads(n - n) = out
    <3>1. Stream!Pads(n - n) = <<>>
      BY <1>1 DEF Stream!Pads
    <3>2. out \o <<>> = out
      BY ConcatEmptySeq DEF PcmTyped
    <3>. QED
      BY <1>3, <3>1, <3>2
  <2>3. eof' = (eof \/ n > Stream!Left)
    BY <1>1, <1>2, Zenon DEF Flags
  <2>4. Stream!Left > 0
    BY <1>1, <1>2, <2>1
  <2>5. Stream!ReadRange(n)
    BY <1>1, <1>2, <1>4, <1>7, <2>1, <2>2, <2>3, <2>4
       DEF Stream!ReadRange, Failed, Stream!Failed, Asked, Stream!Ask
  <2>. QED
    BY <1>5, <2>5 DEF Stream!Next
<1>. QED
  BY <1>5, <1>6, <1>7

-----------------------------------------------------------------------------
(* Calls of one step.                                                      *)

\* A seek of the view is a seek of the row.
LEMMA SeekIsWithin ==
  ASSUME NEW p \in Int, NEW off \in Int, NEW way \in Way
  PROVE  SubviewSeek(p, off, way) - DataBeg
           = Stream!Within(off + (CASE way = "beg" -> 0 [] way = "cur" -> p - DataBeg [] way = "end" -> NumBytes))
<1>1. DataBeg \in Int /\ NumBytes \in Nat /\ DataEnd = DataBeg + NumBytes
  BY Sizing DEF DataEnd
<1>2. CASE way = "beg"
  BY <1>1, <1>2 DEF SubviewSeek, AbsolutePosition, AnchorOf, Clamp, Stream!Within
<1>3. CASE way = "cur"
  BY <1>1, <1>3 DEF SubviewSeek, AbsolutePosition, AnchorOf, Clamp, Stream!Within
<1>4. CASE way = "end"
  BY <1>1, <1>4 DEF SubviewSeek, AbsolutePosition, AnchorOf, Clamp, Stream!Within
<1>. QED
  BY <1>2, <1>3, <1>4 DEF Way

LEMMA SeekgIsSeek ==
  ASSUME PcmTyped, Exact, NEW off \in Offsets, NEW way \in Way, Seekg(off, way)
  PROVE  Stream!Next
<1>. DEFINE target == off + (CASE way = "beg" -> 0
                               [] way = "cur" -> Position - Len(out)
                               [] way = "end" -> NumBytes)
<1>1. /\ eof' = FALSE /\ asked' = Asked("seek", off, way) /\ result' = <<>> /\ told' = 0
      /\ UNCHANGED <<bad, gcount>> /\ out' = out /\ Idle
  BY DEF Seekg
<1>2. out = <<>> /\ Len(out) = 0 /\ At = Position
  BY <1>1, NothingDelivered
<1>3. /\ pos \in DataBeg..DataEnd /\ pos \in Int /\ InAvail \in Nat /\ Position \in 0..NumBytes
      /\ Position = pos - InAvail - DataBeg /\ DataBeg \in Nat /\ NumBytes \in Nat
      /\ pos - Len(area) >= DataBeg /\ DataEnd = DataBeg + NumBytes
      /\ next \in 0..Len(area) /\ Len(area) \in Nat /\ InAvail = Len(area) - next
  BY RowFacts, Sizing DEF PcmTyped, InAvail, Position, DataEnd
<1>4. off \in Int
  BY InputStreamAssumption DEF Offsets
<1>5. ASSUME ~Failed, fail' = fail, Position' = Stream!Within(target)
      PROVE  Stream!Seek(off, way)
  <2>1. (Position - Len(out))' = Position'
    <3>1. Position' \in Int
      <4>1. target \in Int
        <5>1. Position - Len(out) \in Int /\ NumBytes \in Int /\ 0 \in Int
          BY <1>2, <1>3
        <5>. QED
          BY <1>4, <5>1, SMTT(30) DEF Way
      <4>. HIDE DEF target
      <4>. QED
        BY <1>3, <1>5, <4>1 DEF Stream!Within
    <3>2. \A q \in Int : q - 0 = q
      OBVIOUS
    <3>3. Len(out') = 0
      BY <1>1, <1>2
    <3>4. Position' - 0 = Position'
      BY <3>1, <3>2, Zenon
    <3>. QED
      BY <3>3, <3>4
  <2>. QED
    BY <1>1, <1>5, <2>1 DEF Stream!Seek, Failed, Stream!Failed, Asked, Stream!Ask
<1>6. CASE Failed
  <2>1. fail' = TRUE /\ UNCHANGED <<pos, area, next>>
    BY <1>6 DEF Seekg, bufVars
  <2>2. (Position - Len(out))' = Position - Len(out)
    BY <1>1, <2>1 DEF Position, InAvail
  <2>. QED
    BY <1>1, <1>6, <2>1, <2>2
       DEF Stream!Next, Stream!Seek, Way, Failed, Stream!Failed, Asked, Stream!Ask
<1>7. CASE ~Failed /\ SmallSeek(off, way)
  <2>1. way = "cur" /\ -next <= off /\ off <= InAvail
    BY <1>7 DEF SmallSeek
  <2>2. pos' = pos /\ area' = area /\ next' = next + off /\ fail' = fail
    BY <1>3, <1>7, TellIsPure DEF Seekg
  <2>3. Position' = Position + off /\ Position + off \in 0..NumBytes
    BY <1>3, <1>4, <2>1, <2>2 DEF Position, InAvail
  <2>4. Stream!Within(target) = Position + off
    <3>1. target = Position + off
      BY <1>2, <1>3, <1>4, <2>1
    <3>. HIDE DEF target
    <3>. QED
      BY <1>3, <2>3, <3>1 DEF Stream!Within
  <2>. QED
    BY <1>5, <1>7, <2>2, <2>3, <2>4 DEF Stream!Next, Way
<1>8. CASE ~Failed /\ ~SmallSeek(off, way)
  <2>. PICK o : o = IF way = "cur" THEN off - InAvail ELSE off
    OBVIOUS
  <2>1. o \in Int
    BY <1>3, <1>4
  <2>2. pos' = SubviewSeek(pos, o, way) /\ area' = <<>> /\ next' = 0 /\ fail' = fail
    BY <1>8 DEF Seekg
  <2>3. SubviewSeek(pos, o, way) \in Int
    BY <1>3, <2>1, SeekStaysInView, Sizing
  <2>4. Position' = SubviewSeek(pos, o, way) - DataBeg
    BY <1>3, <2>2, <2>3 DEF Position, InAvail
  <2>5. SubviewSeek(pos, o, way) - DataBeg = Stream!Within(target)
    <3>1. CASE way = "cur"
      <4>1. o + (pos - DataBeg) = off + (Position - Len(out)) /\ o = off - InAvail
        BY <1>2, <1>3, <1>4, <3>1
      <4>2. SubviewSeek(pos, o, way) - DataBeg = Stream!Within(o + (pos - DataBeg))
        BY <1>3, <2>1, <3>1, SeekIsWithin
      <4>. QED
        BY <3>1, <4>1, <4>2
    <3>2. CASE way # "cur"
      BY <1>3, <2>1, <3>2, SeekIsWithin DEF Way
    <3>. QED
      BY <3>1, <3>2
  <2>. QED
    BY <1>5, <1>8, <2>2, <2>4, <2>5 DEF Stream!Next, Way
<1>. QED
  BY <1>6, <1>7, <1>8

LEMMA TellgIsTell ==
  ASSUME PcmTyped, Exact, Tellg
  PROVE  Stream!Next
<1>1. /\ Idle /\ UNCHANGED <<area, next, eof, bad, out, gcount>>
      /\ told' = IF Good THEN Position ELSE -1
      /\ asked' = Asked("tell", 0, "cur") /\ result' = <<>>
  BY DEF Tellg, bufVars
<1>2. pos' = pos
  BY RowFacts, TellIsPure DEF Tellg
<1>3. (Position - Len(out))' = Position - Len(out) /\ Position - Len(out) = Position
  BY <1>1, <1>2, NothingDelivered DEF Position, InAvail, At
<1>4. fail' = (fail \/ ~Good)
  BY DEF Tellg
<1>. QED
  BY <1>1, <1>3, <1>4
     DEF Stream!Next, Stream!Tell, Good, Failed, Stream!Good, Stream!Failed, Asked, Stream!Ask

LEMMA InitIsRow == Init => Stream!Init
<1>. SUFFICES ASSUME Init
              PROVE  Stream!Init
  OBVIOUS
<1>1. Len(area) = 0 /\ Len(out) = 0 /\ next = 0 /\ pos = DataBeg
  BY DEF Init
<1>2. Position - Len(out) = 0
  BY <1>1, Sizing DEF Position, InAvail
<1>. QED
  BY <1>2 DEF Init, Stream!Init, Asked, Stream!Ask

LEMMA StepOfRow ==
  ASSUME Regular, PcmTyped, Exact, Flags, CallGoesOn, [Next]_vars
  PROVE  [Stream!Next]_Stream!vars
<1>. USE DEF Stream!vars
<1>1. CASE Fill
  BY <1>1, FillIsInvisible DEF Fill, flagVars, doneVars, At
<1>2. CASE Copy
  BY <1>2, CopyIsInvisible DEF Copy, flagVars, doneVars, At
<1>3. CASE FillAtEnd \/ FillThrows \/ Return
  BY <1>3, EndIsRead, ThrowIsBrokenRead, ReturnIsRead
<1>4. ASSUME NEW n \in Sizes, BeginRead(n) \/ BeginRange(n)
      PROVE  UNCHANGED Stream!vars
  <2>1. Idle /\ out' = <<>> /\ UNCHANGED <<pos, area, next, eof, fail, bad, asked, result, told, gcount>>
    BY <1>4 DEF BeginRead, BeginRange, bufVars, flagVars, doneVars
  <2>2. out = <<>>
    BY <2>1, NothingDelivered
  <2>. QED
    BY <2>1, <2>2 DEF Position, InAvail
<1>5. ASSUME NEW off \in Offsets, NEW way \in Way, Seekg(off, way)
      PROVE  Stream!Next
  BY <1>5, SeekgIsSeek
<1>6. CASE Tellg
  BY <1>6, TellgIsTell
<1>7. CASE RefuseRead
  BY <1>7
     DEF RefuseRead, bufVars, Position, InAvail, Good, Failed, Asked,
         Stream!Next, Stream!ReadRefused, Stream!Good, Stream!Failed, Stream!Ask
<1>8. CASE Clear
  BY <1>8 DEF Clear, bufVars, Position, InAvail, Asked, Stream!Next, Stream!Clear, Stream!Ask
<1>9. CASE UNCHANGED vars
  BY <1>9 DEF vars, bufVars, flagVars, doneVars, Position, InAvail
<1>. QED
  BY <1>1, <1>2, <1>3, <1>4, <1>5, <1>6, <1>7, <1>8, <1>9 DEF Next, Internal, Client

\* Over an intact file, used in whole frames, a stream is a row of bytes with a
\* position: every call delivers the bytes that follow it, in one stretch, sets the
\* bits as if there were no buffer, and after a device that throws the position is
\* behind what was delivered (stream_buffer.h, istream.cpp, subview.h).
THEOREM StreamIsARowOfBytes ==
  ASSUME Regular
  PROVE  Spec => ImplementsSampleStream
<1>1. Regular
  OBVIOUS
<1>2. PcmTyped /\ Exact /\ Flags /\ CallGoesOn /\ [Next]_vars => [Stream!Next]_Stream!vars
  BY <1>1, StepOfRow
<1>3. Spec => [](PcmTyped /\ Exact)
  BY <1>1, ExactAlways
<1>4. Spec => []Flags
  BY FlagsAlways DEF Flags
<1>. QED
  BY <1>2, <1>3, <1>4, InitIsRow, CallAlways, PTL DEF Spec, ImplementsSampleStream, Stream!Spec
=============================================================================
