------------------------------ MODULE PcmCopy ------------------------------
(***************************************************************************)
(* pcm::copy between two ranges of bytes: iterators over formats that are  *)
(* known at run time, which dispatch makes ones of known formats, one      *)
(* sample after the other read as a value and written as a value.          *)
(***************************************************************************)
EXTENDS PcmConversion

CONSTANTS
  Formats,    \* compiletime_formats, in their order: number, bytes, endian
  Types,      \* value types of the iterators: number, bytes
  Levels,     \* the levels of the samples, One being full scale
  Counts,     \* samples of the two ranges: <<source, destination>>
  Untouched   \* the bytes of a destination before the copy

ASSUME PcmCopyAssumption ==
  /\ \A i \in 1..Len(Formats) :
       /\ Formats[i].number \in {"signed", "unsigned", "float"}
       /\ Formats[i].bytes \in IF Formats[i].number = "float" THEN {4} ELSE 1..4
       /\ Formats[i].endian \in {"big", "little"}
  /\ \A t \in Types :
       /\ t.number \in {"signed", "unsigned", "float"}
       /\ t.bytes \in IF t.number = "float" THEN {4} ELSE {1, 2, 4}
  /\ Levels \subseteq -(2 * One)..(2 * One)
  /\ Counts \subseteq Nat \X Nat

VARIABLES
  from, to,        \* runtime_format::index of the two iterators
  fromEnd, toEnd,  \* ... and of the iterators at the ends
  type,            \* Value
  source, dest,    \* the bytes
  ipos, opos,      \* the iterators, as numbers of bytes
  counts,          \* samples of the two ranges
  phase            \* start, copying, done, thrown

rangeVars == <<from, to, fromEnd, toEnd, type, source, counts>>
vars == <<rangeVars, dest, ipos, opos, phase>>

In  == Formats[from]
Out == Formats[to]

Indices == 1..Len(Formats)

\* The bytes of a sample of a format, at a level or the next it has below.
SampleAt(level, format) ==
  LET steps == Clamp(level, -One, One - 1) \div Step(format.bytes)
      value == steps * Values(Storage(format).bytes - format.bytes)
  IN
  ToBytes(CASE format.number = "float"    -> RoundToFloat(level)
            [] format.number = "signed"   -> value
            [] format.number = "unsigned" -> value + Half(Storage(format).bytes),
          format)

\* Samples of a level and of the one opposite to it, in turn.
Samples(level, format, n) ==
  LET even == SampleAt(level, format)
      odd  == SampleAt(-1 - level, format)
      place(i) == 1 + ((i - 1) % format.bytes)
  IN
  [i \in 1..(n * format.bytes) |->
     IF ((i - 1) \div format.bytes) % 2 = 0 THEN even[place(i)] ELSE odd[place(i)]]

\* A source and a destination with one sample more behind their ranges.
Init ==
  /\ from \in Indices /\ counts \in Counts
  /\ \E level \in Levels : source = Samples(level, In, counts[1] + 1)
  /\ to \in Indices
  /\ dest = [i \in 1..((counts[2] + 1) * Out.bytes) |-> Untouched]
  /\ type \in Types
  /\ \/ fromEnd = from /\ toEnd = to
     \/ fromEnd = 1    /\ toEnd = to
     \/ fromEnd = from /\ toEnd = 1
  /\ ipos = 0 /\ opos = 0
  /\ phase = "start"

\* dispatch: the formats are compared with every format there is; a function that
\* takes one format for both ends cannot be called with two.
Dispatch ==
  /\ phase = "start"
  /\ phase' = IF from = fromEnd /\ to = toEnd THEN "copying" ELSE "thrown"
  /\ UNCHANGED <<rangeVars, dest, ipos, opos>>

\* iterator::increment, by proxy::step
Advanced(p, format) == p + format.bytes

AtEnd == ipos = counts[1] * In.bytes \/ opos = counts[2] * Out.bytes

\* A copy that looks at the end of its source only.
CopyToSourceEnd ==
  LET val   == ReadSample(SubSeq(source, ipos + 1, ipos + In.bytes), In, type)
      bytes == WriteSample(val, Out, type)
  IN
  /\ phase = "copying" /\ ipos # counts[1] * In.bytes
  /\ dest' = [i \in DOMAIN dest |-> IF i - opos \in DOMAIN bytes THEN bytes[i - opos] ELSE dest[i]]
  /\ ipos' = Advanced(ipos, In)
  /\ opos' = Advanced(opos, Out)
  /\ UNCHANGED <<rangeVars, phase>>

\* *obeg = *ibeg, by way of the proxies; ++ibeg, ++obeg.
CopySample ==
  LET val   == ReadSample(SubSeq(source, ipos + 1, ipos + In.bytes), In, type)
      bytes == WriteSample(val, Out, type)
  IN
  /\ phase = "copying" /\ ~AtEnd
  /\ dest' = [i \in DOMAIN dest |-> IF i - opos \in DOMAIN bytes THEN bytes[i - opos] ELSE dest[i]]
  /\ ipos' = Advanced(ipos, In)
  /\ opos' = Advanced(opos, Out)
  /\ UNCHANGED <<rangeVars, phase>>

Finish ==
  /\ phase = "copying" /\ AtEnd
  /\ phase' = "done"
  /\ UNCHANGED <<rangeVars, dest, ipos, opos>>

Next == Dispatch \/ CopySample \/ Finish

Spec == Init /\ [][Next]_vars

-----------------------------------------------------------------------------
Copied == opos \div Out.bytes

\* The level of a sample by what its format says of its bytes: two's complement of
\* the width there is, or the level above the lowest one.
Level(b, format) ==
  LET place(i) == IF format.endian = "little" THEN i ELSE Len(b) + 1 - i
      code == Sum4([i \in 1..4 |->
                IF i \in DOMAIN b THEN b[place(i)] * Values(i - 1 + 4 - Len(b)) ELSE 0])
  IN
  CASE format.number = "float"    -> code - 4 * One
    [] format.number = "unsigned" -> code - One
    [] format.number = "signed"   -> IF code < One THEN code ELSE code - 2 * One

LevelAt(bytes, k, format) ==
  Level(SubSeq(bytes, (k - 1) * format.bytes + 1, k * format.bytes), format)

\* The levels a type can hold.
Holds(t, x) ==
  IF t.number = "float" THEN RoundToFloat(x) = x
  ELSE x \in -One..(One - 1) /\ x % Step(t.bytes) = 0

\* The levels a float can be converted from: those below the upper bound and not so
\* odd that half a unit more, which round_cast adds, is itself rounded.
Converts(x) == x <= One - Epsilon /\ (x % 2 = 0 \/ x \in -Half(3)..Half(3))

\* The coarsest unit of a type: of a float, the one it has below full scale.
Unit(t) == IF t.number = "float" THEN Epsilon \div 2 ELSE Step(t.bytes)

\* A sample keeps its level wherever every type it passes through can hold it, and
\* is otherwise off by less than the coarsest unit on the way, clipped at full
\* scale and never wrapped around: all along convert_to, the 24 bits kept in 32,
\* and the order of the bytes (converter.test.cpp tries a few values of each pair).
SamplesAreNear ==
  \A k \in 1..Copied :
    LET x == LevelAt(source, k, In)
        y == LevelAt(dest, k, Out)
        floats == {t \in {In, type, Out} : t.number = "float"}
        coarse == Larger(Unit(In), Larger(Unit(type), Unit(Out)))
    IN
    /\ Holds(type, x) /\ Holds(Out, x) /\ (floats = {} \/ Converts(x)) => y = x
    /\ floats = {} => x - y \in 0..(coarse - 1)
    /\ floats = {In, type, Out} => y = x
    /\ floats # {} /\ floats # {In, type, Out} =>
         x - y \in -coarse..coarse \/ Clamp(x, -One, One - Epsilon) - y \in -coarse..coarse

\* A copy writes the samples it has read, as many as both ranges have, and no byte
\* behind them; one that throws for the formats of its ends writes none.
OnlyTheirBytes ==
  LET common == Smaller(counts[1], counts[2])
  IN
  /\ Copied \in 0..common /\ opos = Copied * Out.bytes /\ ipos = Copied * In.bytes
  /\ \A i \in DOMAIN dest : i > opos => dest[i] = Untouched
  /\ phase = "done" => Copied = common
  /\ phase = "thrown" => opos = 0
=============================================================================
