--------------------------- MODULE PcmConversion ---------------------------
(***************************************************************************)
(* The conversions of the pcm library: how the value of a sample becomes   *)
(* that of another type, and how a value lies in the bytes of a format.    *)
(*                                                                         *)
(* The widths are those of the code in bytes.  A byte has Base values, 256 *)
(* on a real machine, and a float as many binary digits as three bytes, 24 *)
(* on a real machine.  The machine is little endian.  A float is the       *)
(* number of units it stands for, One of them being 1.0; it lies in four   *)
(* bytes too, by a code that is not IEEE's.                                *)
(***************************************************************************)
EXTENDS Positioning, Sequences

CONSTANTS
  Base,    \* the values of a byte
  Units    \* the units of a float's last digit, each twice the next

ASSUME PcmConversionAssumption ==
  /\ Base \in Nat /\ Base >= 4 /\ Base % 2 = 0
  /\ Units \subseteq 1..(2 * Base)
  /\ {1, 2 * Base} \subseteq Units
  /\ \A u \in Units : (2 * Base) % u = 0 /\ (u = 1 \/ (u % 2 = 0 /\ u \div 2 \in Units))

\* Value types and formats: number is signed, unsigned or float.
Values(bytes) ==
  CASE bytes = 0 -> 1
    [] bytes = 1 -> Base
    [] bytes = 2 -> Base * Base
    [] bytes = 3 -> Base * Base * Base
    [] bytes = 4 -> Base * Base * Base * Base

Half(bytes) == Values(bytes) \div 2
One == Half(4)

\* storage<Format>: 24 bits are kept in the upper three bytes of a 32 bit integer.
Storage(format) == [number |-> format.number, bytes |-> IF format.bytes = 3 THEN 4 ELSE format.bytes]

-----------------------------------------------------------------------------
(* convert_to                                                              *)

\* A conversion between signed and unsigned that keeps the number, not the level.
SignCastOfNumber(val, from, to, bytes) ==
  IF from = to THEN val
  ELSE IF to = "unsigned" THEN val % (2 * Half(bytes))
  ELSE IF val < Half(bytes) THEN val ELSE val - 2 * Half(bytes)

\* sign_cast turns the highest bit over: the level, half the range up or down.
SignCast(val, from, to, bytes) ==
  IF from = to THEN val
  ELSE IF to = "unsigned" THEN val + Half(bytes) ELSE val - Half(bytes)

\* shift_cast: the upper bytes are kept, the new ones zero.
ShiftCast(val, from, to) ==
  IF to <= from THEN val \div Values(from - to) ELSE val * Values(to - from)

\* The unit of a number's last digit: the mantissa fits three bytes and, but for the
\* smallest unit, fills them.
UnitOf(n) ==
  LET size == IF n < 0 THEN -n ELSE n
  IN CHOOSE u \in Units : size < Values(3) * u /\ (u = 1 \/ 2 * size >= Values(3) * u)

\* The float nearest to a number, the even one of two that are as near.
RoundToFloat(n) ==
  LET u == UnitOf(n)
      q == n \div u
      r == n % u
  IN
  IF 2 * r < u \/ (2 * r = u /\ q % 2 = 0) THEN q * u ELSE (q + 1) * u

\* numeric_limits<float>::epsilon, 2^-23 where One is 2^31
Epsilon == Base

\* The unit of an integer of so many bytes.
Step(bytes) == Values(4 - bytes)

\* round_cast, of a number of steps: away from zero at the half.
RoundCast(val, step) ==
  IF val > 0
  THEN RoundToFloat(2 * val + step) \div (2 * step)
  ELSE -(RoundToFloat(step - 2 * val) \div (2 * step))

\* fixed point <- floating point: the largest float below 1.0 that becomes no more
\* than the largest integer is the upper bound.
FloatToFixed(val, bytes) ==
  RoundCast(Clamp(val, -One, One - Larger(Step(bytes), Epsilon)), Step(bytes))

\* floating point <- fixed point
FixedToFloat(val, bytes) == RoundToFloat(val) * Step(bytes)

ConvertTo(target, val, source) ==
  CASE target.number = "float" /\ source.number = "float" -> val
    [] target.number # "float" /\ source.number = "float" ->
         SignCast(FloatToFixed(val, target.bytes), "signed", target.number, target.bytes)
    [] target.number = "float" /\ source.number # "float" ->
         FixedToFloat(SignCast(val, source.number, "signed", source.bytes), source.bytes)
    [] OTHER ->
         ShiftCast(SignCast(val, source.number, target.number, source.bytes), source.bytes, target.bytes)

-----------------------------------------------------------------------------
(* intermediate: a value and the bytes it lies in, the lowest first.       *)

\* A float's code is wider than its bytes; the highest of them takes what is over.
CodeOf(val, type) ==
  IF type.number = "float" THEN val + 4 * One ELSE val % (2 * Half(type.bytes))

ValueOf(code, type) ==
  CASE type.number = "float" -> code - 4 * One
    [] type.number = "signed" /\ code >= Half(type.bytes) -> code - 2 * Half(type.bytes)
    [] OTHER -> code

BytesOf(val, type) ==
  [i \in 1..type.bytes |->
     LET rest == CodeOf(val, type) \div Values(i - 1)
     IN IF i = type.bytes THEN rest ELSE rest % Base]

Sum4(b) == b[1] + b[2] + b[3] + b[4]

\* Bytes that are not there are zero.
CodeOfBytes(b) == Sum4([i \in 1..4 |-> IF i \in DOMAIN b THEN b[i] * Values(i - 1) ELSE 0])

Padding(format) == Storage(format).bytes - format.bytes

InOrder(b, format) == IF format.endian = "little" THEN b ELSE [i \in DOMAIN b |-> b[Len(b) + 1 - i]]

\* The padding below the bytes of the format keeps its zeros.
FromBytes(b, format) ==
  ValueOf(CodeOfBytes([i \in 1..Padding(format) |-> 0] \o InOrder(b, format)), Storage(format))

ToBytes(val, format) ==
  InOrder(SubSeq(BytesOf(val, Storage(format)), Padding(format) + 1, Storage(format).bytes), format)

\* read, write
ReadSample(b, format, type) == ConvertTo(type, FromBytes(b, format), Storage(format))
WriteSample(val, format, type) == ToBytes(ConvertTo(Storage(format), val, type), format)
=============================================================================
