---------------------------- MODULE ReopenProofs ----------------------------
(***************************************************************************)
(* What a reader meets in the file of an output stream, for every          *)
(* container, size of frame and buffer, for all writes, failures of the    *)
(* device, and kills.                                                      *)
(***************************************************************************)
EXTENDS Reopen, OutputStreamProofs

-----------------------------------------------------------------------------
(* The bytes of a number.                                                  *)

LEMMA Division ==
  ASSUME NEW a \in Nat, NEW b \in Nat \ {0}
  PROVE  /\ a \div b \in Nat /\ a % b \in 0..(b - 1)
         /\ a = (a \div b) * b + (a % b)
         /\ \A n \in Nat, i \in 0..(b - 1) : a = n * b + i => a \div b = n
<1>1. a \div b \in Nat /\ a % b \in 0..(b - 1) /\ a = (a \div b) * b + (a % b)
  OBVIOUS
<1>2. \A n \in Nat, i \in 0..(b - 1) : (n * b + i) \div b = n
  OBVIOUS
<1>. QED
  BY <1>1, <1>2

LEMMA Divided ==
  ASSUME NEW a \in Nat, NEW b \in Nat \ {0}
  PROVE  \E q \in Nat, e \in 0..(b - 1) : q = a \div b /\ e = a % b /\ a = q * b + e
<1>1. a \div b \in Nat /\ a % b \in 0..(b - 1) /\ a = (a \div b) * b + (a % b)
  BY Division
<1>. QED
  BY <1>1, Zenon

LEMMA Products ==
  /\ \A x, y \in Nat : x * y \in Nat
  /\ \A x, y \in Nat \ {0} : x * y \in Nat \ {0}
  /\ \A x, y, z \in Nat : x <= y => x * z <= y * z
OBVIOUS

LEMMA Nested ==
  ASSUME NEW s \in Nat, NEW c \in Nat, NEW t \in Nat, NEW b \in Nat, NEW r \in Nat
  PROVE  (s * c + t) * b + r = s * (b * c) + (t * b + r)
OBVIOUS

LEMMA Below ==
  ASSUME NEW b \in Nat \ {0}, NEW c \in Nat \ {0}, NEW t \in 0..(c - 1), NEW r \in 0..(b - 1)
  PROVE  t * b + r \in 0..(b * c - 1)
<1>1. (t + 1) * b <= c * b
  <2>1. t + 1 \in Nat /\ c \in Nat /\ b \in Nat /\ t + 1 <= c
    OBVIOUS
  <2>. QED
    BY <2>1, Products
<1>2. (t + 1) * b = t * b + b /\ c * b = b * c /\ t * b \in Nat /\ b * c \in Nat
  OBVIOUS
<1>. QED
  BY <1>1, <1>2

LEMMA TwiceDivided ==
  ASSUME NEW a \in Nat, NEW b \in Nat \ {0}, NEW c \in Nat \ {0}
  PROVE  a \div (b * c) = (a \div b) \div c
<1>1. PICK q \in Nat, r \in 0..(b - 1) : q = a \div b /\ r = a % b /\ a = q * b + r
  BY Divided, Zenon
<1>2. PICK s \in Nat, t \in 0..(c - 1) : s = q \div c /\ t = q % c /\ q = s * c + t
  BY Divided, Zenon
<1>3. PICK i : i = t * b + r
  OBVIOUS
<1>4. i \in 0..(b * c - 1) /\ b * c \in Nat \ {0}
  BY <1>3, Below, Products
<1>5. a = s * (b * c) + i
  <2>1. (s * c + t) * b + r = s * (b * c) + (t * b + r)
    <3>1. c \in Nat /\ t \in Nat /\ b \in Nat /\ r \in Nat
      OBVIOUS
    <3>. QED
      BY <3>1, Nested
  <2>. QED
    BY <1>1, <1>2, <1>3, <2>1, Zenon
<1>6. a \div (b * c) = s
  BY <1>4, <1>5, Division, Zenon
<1>. QED
  BY <1>1, <1>2, <1>6, Zenon

LEMMA Unfolded ==
  ASSUME NEW b \in Nat, NEW e1 \in Nat, NEW e2 \in Nat, NEW e3 \in Nat, NEW e4 \in Nat
  PROVE  ((e4 * b + e3) * b + e2) * b + e1
           = e1 + (b * e2) + ((b * b) * e3) + ((b * b * b) * e4)
OBVIOUS

LEMMA Leading ==
  ASSUME NEW b \in Nat \ {0}, NEW w \in Nat \ {0}, NEW e \in Nat, w * e < b * w
  PROVE  e < b
OBVIOUS

\* A number of four bytes is the sum of them.
LEMMA FourBytes ==
  ASSUME NEW b \in Nat \ {0}, NEW v \in Nat, v < b * (b * b * b)
  PROVE  \E d1, d2, d3, d4 \in Nat :
           /\ d1 = 1 * ((v \div 1) % b)
           /\ d2 = b * ((v \div b) % b)
           /\ d3 = (b * b) * ((v \div (b * b)) % b)
           /\ d4 = (b * b * b) * ((v \div (b * b * b)) % b)
           /\ d1 + d2 + d3 + d4 = v
<1>1. PICK v1 \in Nat, e1 \in 0..(b - 1) : v1 = v \div b /\ e1 = v % b /\ v = v1 * b + e1
  BY Divided, Zenon
<1>2. PICK v2 \in Nat, e2 \in 0..(b - 1) : v2 = v1 \div b /\ e2 = v1 % b /\ v1 = v2 * b + e2
  BY Divided, Zenon
<1>3. PICK v3 \in Nat, e3 \in 0..(b - 1) : v3 = v2 \div b /\ e3 = v2 % b /\ v2 = v3 * b + e3
  BY Divided, Zenon
<1>4. b * b \in Nat \ {0} /\ b * b * b \in Nat \ {0}
  BY Products
<1>5. v \div (b * b) = v2
  <2>1. v \div (b * b) = (v \div b) \div b
    BY TwiceDivided, Zenon
  <2>. QED
    BY <1>1, <1>2, <2>1, Zenon
<1>6. v \div (b * b * b) = v3
  <2>1. v \div ((b * b) * b) = (v \div (b * b)) \div b
    BY <1>4, TwiceDivided, Zenon
  <2>. QED
    BY <1>3, <1>5, <2>1, Zenon
<1>. DEFINE d2 == b * e2
            d3 == (b * b) * e3
            d4 == (b * b * b) * v3
<1>7. v = e1 + d2 + d3 + d4
  <2>1. b \in Nat /\ e1 \in Nat /\ e2 \in Nat /\ e3 \in Nat
    OBVIOUS
  <2>2. ((v3 * b + e3) * b + e2) * b + e1 = e1 + d2 + d3 + d4
    BY <2>1, Unfolded
  <2>. QED
    BY <1>1, <1>2, <1>3, <2>2, Zenon
<1>8. e1 \in Nat /\ d2 \in Nat /\ d3 \in Nat /\ d4 \in Nat
  <2>1. b \in Nat /\ e1 \in Nat /\ e2 \in Nat /\ e3 \in Nat /\ b * b \in Nat /\ b * b * b \in Nat
    BY <1>4
  <2>. QED
    BY <2>1, Products, Zenon
<1>9. v3 % b = v3
  <2>. DEFINE w == b * b * b
  <2>1. d4 < b * w
    <3>1. b * w \in Nat
      BY <1>4, Products
    <3>. HIDE DEF d2, d3, d4, w
    <3>2. v < b * w
      BY DEF w
    <3>. QED
      BY <1>7, <1>8, <3>1, <3>2
  <2>2. w \in Nat \ {0}
    BY <1>4
  <2>. HIDE DEF w
  <2>3. d4 = w * v3
    BY DEF w
  <2>4. v3 < b
    BY <2>1, <2>2, <2>3, Leading, Zenon
  <2>. QED
    BY <2>4
<1>10. e1 = 1 * ((v \div 1) % b)
  <2>1. v \div 1 = v /\ 1 * e1 = e1
    OBVIOUS
  <2>. QED
    BY <1>1, <2>1, Zenon
<1>11. /\ d2 = b * ((v \div b) % b)
       /\ d3 = (b * b) * ((v \div (b * b)) % b)
       /\ d4 = (b * b * b) * ((v \div (b * b * b)) % b)
  BY <1>1, <1>2, <1>3, <1>5, <1>6, <1>9, Zenon
<1>. QED
  BY <1>7, <1>8, <1>10, <1>11, Zenon

LEMMA ZeroBytes == \A w, b \in Nat \ {0} : w * ((0 \div w) % b) = 0
<1>. SUFFICES ASSUME NEW w \in Nat \ {0}, NEW b \in Nat \ {0}
              PROVE  w * ((0 \div w) % b) = 0
  OBVIOUS
<1>1. 0 \div w = 0 /\ 0 % b = 0 /\ w * 0 = 0
  OBVIOUS
<1>. QED
  BY <1>1, Zenon

LEMMA Weights ==
  ASSUME format \in Formats
  PROVE  /\ \A k \in 1..4 : Weight(k) \in Nat \ {0}
         /\ format = "wav"  => /\ Weight(1) = 1 /\ Weight(2) = Base
                              /\ Weight(3) = Base * Base /\ Weight(4) = Base * Base * Base
         /\ format = "aiff" => /\ Weight(4) = 1 /\ Weight(3) = Base
                              /\ Weight(2) = Base * Base /\ Weight(1) = Base * Base * Base
<1>1. Base * Base \in Nat \ {0} /\ Base * Base * Base \in Nat \ {0}
  BY Products, ReopenAssumption
<1>2. format \in {"wav", "aiff"}
  BY Sizing
<1>. PICK b : b = Base
  OBVIOUS
<1>. PICK c : c = Base * Base
  OBVIOUS
<1>. PICK d : d = Base * Base * Base
  OBVIOUS
<1>3. \A k : Weight(k) = <<1, b, c, d>>[IF format = "wav" THEN k ELSE 5 - k]
  BY DEF Weight
<1>4. b \in Nat \ {0} /\ c \in Nat \ {0} /\ d \in Nat \ {0}
  BY <1>1, ReopenAssumption
<1>5. CASE format = "wav"
  BY <1>3, <1>4, <1>5
<1>6. CASE format = "aiff"
  BY <1>3, <1>4, <1>6
<1>. QED
  BY <1>2, <1>5, <1>6

\* A field whose bytes are of one number or zero is no larger than the number.
LEMMA FieldOf ==
  ASSUME format \in Formats, NEW p \in Nat, p + 4 <= Len(file), Len(file) \in Nat,
         NEW v \in Nat, v < 2^SizeBits,
         \A k \in 1..4 : file[p + k].value \in {0, v}
  PROVE  /\ Field(p) \in 0..v
         /\ (\A k \in 1..4 : file[p + k].value = v) => Field(p) = v
<1>. DEFINE byte(k) == Weight(k) * ((file[p + k].value \div Weight(k)) % Base)
            part(k) == Weight(k) * ((v \div Weight(k)) % Base)
<1>1. Field(p) = byte(1) + byte(2) + byte(3) + byte(4)
  <2>1. ~(Len(file) < p + 4)
    OBVIOUS
  <2>. QED
    BY <2>1, Zenon DEF Field
<1>2. ASSUME NEW k \in 1..4
      PROVE  byte(k) = 0 \/ byte(k) = part(k)
  <2>1. Weight(k) \in Nat \ {0} /\ Base \in Nat \ {0}
    BY Weights, ReopenAssumption
  <2>2. CASE file[p + k].value = 0
    BY <2>1, <2>2, ZeroBytes, Zenon
  <2>3. CASE file[p + k].value = v
    BY <2>3, Zenon
  <2>. QED
    BY <2>2, <2>3
<1>3. /\ part(1) \in Nat /\ part(2) \in Nat /\ part(3) \in Nat /\ part(4) \in Nat
      /\ part(1) + part(2) + part(3) + part(4) = v
  <2>1. v < Base * (Base * Base * Base) /\ Base \in Nat \ {0}
    BY ReopenAssumption
  <2>2. PICK d1, d2, d3, d4 \in Nat :
          /\ d1 = 1 * ((v \div 1) % Base)
          /\ d2 = Base * ((v \div Base) % Base)
          /\ d3 = (Base * Base) * ((v \div (Base * Base)) % Base)
          /\ d4 = (Base * Base * Base) * ((v \div (Base * Base * Base)) % Base)
          /\ d1 + d2 + d3 + d4 = v
    BY <2>1, FourBytes, ZenonT(30)
  <2>3. CASE format = "wav"
    <3>1. part(1) = d1 /\ part(2) = d2 /\ part(3) = d3 /\ part(4) = d4
      BY <2>2, <2>3, Weights, Zenon
    <3>. QED
      BY <2>2, <3>1, Zenon
  <2>4. CASE format = "aiff"
    <3>1. part(1) = d4 /\ part(2) = d3 /\ part(3) = d2 /\ part(4) = d1
      BY <2>2, <2>4, Weights, Zenon
    <3>2. d4 + d3 + d2 + d1 = v
      BY <2>2
    <3>. QED
      BY <3>1, <3>2, Zenon
  <2>. QED
    BY <2>3, <2>4, Sizing
<1>4. ASSUME \A k \in 1..4 : file[p + k].value = v
      PROVE  \A k \in 1..4 : byte(k) = part(k)
  BY <1>4, Zenon
<1>. HIDE DEF byte, part
<1>5. /\ byte(1) = 0 \/ byte(1) = part(1)
      /\ byte(2) = 0 \/ byte(2) = part(2)
      /\ byte(3) = 0 \/ byte(3) = part(3)
      /\ byte(4) = 0 \/ byte(4) = part(4)
  BY <1>2
<1>6. Field(p) \in 0..v
  <2>1. PICK b1, b2, b3, b4 : b1 = byte(1) /\ b2 = byte(2) /\ b3 = byte(3) /\ b4 = byte(4)
    OBVIOUS
  <2>2. PICK p1, p2, p3, p4 \in Nat :
          /\ p1 = part(1) /\ p2 = part(2) /\ p3 = part(3) /\ p4 = part(4)
    BY <1>3, Zenon
  <2>3. /\ b1 = 0 \/ b1 = p1
        /\ b2 = 0 \/ b2 = p2
        /\ b3 = 0 \/ b3 = p3
        /\ b4 = 0 \/ b4 = p4
    BY <1>5, <2>1, <2>2, Zenon
  <2>4. b1 + b2 + b3 + b4 \in 0..(p1 + p2 + p3 + p4)
    <3>1. b1 \in 0..p1 /\ b2 \in 0..p2 /\ b3 \in 0..p3 /\ b4 \in 0..p4
      BY <2>3
    <3>. QED
      BY <3>1
  <2>5. Field(p) = b1 + b2 + b3 + b4 /\ p1 + p2 + p3 + p4 = v
    BY <1>1, <1>3, <2>1, <2>2, Zenon
  <2>. QED
    BY <2>4, <2>5, Zenon
<1>7. (\A k \in 1..4 : byte(k) = part(k)) => Field(p) = v
  BY <1>1, <1>3
<1>. QED
  BY <1>4, <1>6, <1>7

-----------------------------------------------------------------------------
(* The fields of a file.                                                   *)


LEMMA Wraps ==
  ASSUME NEW M \in Nat \ {0}, NEW x \in Int, -M <= x, x < M
  PROVE  x % M = IF x < 0 THEN x + M ELSE x
<1>1. CASE x < 0
  <2>1. x + M \in 0..(M - 1) /\ x = (-1) * M + (x + M)
    BY <1>1
  <2>. QED
    BY <1>1, <2>1
<1>2. CASE ~(x < 0)
  BY <1>2
<1>. QED
  BY <1>1, <1>2

\* What close takes for the size of the sound is never more than there is.
LEMMA SoundFits ==
  ASSUME NEW f \in Formats, NEW n \in Nat, n >= HeaderLen(f)
  PROVE  Uint32(Uint32(n) - HeaderLen(f)) \in 0..(n - HeaderLen(f))
<1>1. PICK M \in Nat \ {0} : M = 2^SizeBits /\ M > 64
  <2>1. 2^SizeBits \in Nat /\ 2^SizeBits > 64
    BY Widths, ReopenAssumption
  <2>. QED
    BY <2>1
<1>2. PICK h \in 44..58 : h = HeaderLen(f) /\ n >= h
  BY HeaderLengths
<1>3. \A x : Uint32(x) = x % M
  BY <1>1 DEF Uint32
<1>4. PICK q \in Nat, r \in 0..(M - 1) : q = n \div M /\ r = n % M /\ n = q * M + r
  BY Divided, Zenon
<1>5. PICK w \in Nat : w = q * M /\ (w = 0 \/ M <= w)
  <2>1. q * M \in Nat /\ (q = 0 => q * M = 0) /\ (1 <= q => 1 * M <= q * M) /\ 1 * M = M
    BY Products
  <2>. QED
    BY <2>1
<1>6. n = w + r
  BY <1>4, <1>5, Zenon
<1>7. Uint32(n) = r
  BY <1>3, <1>4, Zenon
<1>8. (r - h) % M = IF r - h < 0 THEN (r - h) + M ELSE r - h
  <2>1. r - h \in Int /\ -M <= r - h /\ r - h < M
    BY <1>1
  <2>. QED
    BY <2>1, Wraps
<1>9. (r - h) % M \in 0..(n - h)
  <2>. PICK x : x = (r - h) % M
    OBVIOUS
  <2>1. CASE r - h < 0
    <3>1. x = (r - h) + M
      BY <1>8, <2>1
    <3>2. M <= w
      BY <1>2, <1>5, <1>6, <2>1
    <3>3. x \in 0..(n - h)
      BY <1>1, <1>6, <3>1, <3>2
    <3>. QED
      BY <3>3
  <2>2. CASE ~(r - h < 0)
    <3>1. x = r - h
      BY <1>8, <2>2
    <3>2. x \in 0..(n - h)
      BY <1>6, <2>2, <3>1
    <3>. QED
      BY <3>2
  <2>. QED
    BY <2>1, <2>2
<1>. QED
  BY <1>2, <1>3, <1>7, <1>9, Zenon

LEMMA FinalFits ==
  ASSUME NEW f \in Formats, NEW n \in Nat, NEW name
  PROVE  Final(f, n, name) < 2^SizeBits
<1>. DEFINE M   == 2^SizeBits
            pcm == Uint32(Uint32(n) - HeaderLen(f))
<1>1. M \in Nat /\ \A x \in Int : Uint32(x) \in 0..(M - 1)
  BY Widths
<1>2. pcm \in 0..(M - 1) /\ Uint32(Uint32(n) - 8) \in 0..(M - 1)
  <2>1. HeaderLen(f) \in Int /\ Uint32(n) \in Int
    BY <1>1, HeaderLengths
  <2>. QED
    BY <1>1, <2>1
<1>3. Final(f, n, name) \in {Uint32(Uint32(n) - 8), pcm \div BytesPerFrame, pcm, Uint32(pcm + 8)}
  BY DEF Final
<1>. HIDE DEF M, pcm
<1>4. Uint32(pcm + 8) \in 0..(M - 1)
  BY <1>1, <1>2
<1>5. pcm \div BytesPerFrame \in 0..(M - 1)
  <2>1. \A x \in Nat, b \in Nat \ {0} : x \div b \in Nat /\ x \div b <= x
    OBVIOUS
  <2>2. pcm \div BytesPerFrame \in Nat /\ pcm \div BytesPerFrame <= pcm
    BY <1>2, <2>1, Sizing
  <2>. QED
    BY <1>1, <1>2, <2>2
<1>. QED
  BY <1>1, <1>2, <1>3, <1>4, <1>5 DEF M

\* What the header announces, in frames, and where a reader finds it.
Announces == IF format = "wav" THEN Field(40) \div BytesPerFrame ELSE Field(22)

\* A field is nothing, a part of its final value or, in a closed file, all of it.
LEMMA FieldFacts ==
  ASSUME IInv, NEW p \in Nat, NEW name \in Names, p + 4 <= H,
         \A k \in 1..4 : FieldAt(format, p + k) = name
  PROVE  /\ Field(p) \in Nat
         /\ Field(p) = 0 \/ (Len(file) >= H /\ Field(p) <= Final(format, Len(file), name))
         /\ phase = "closed" => Field(p) = Final(format, Len(file), name)
<1>. DEFINE n == Len(file)
            final == Final(format, n, name)
<1>1. format \in Formats /\ n \in Nat /\ final \in Nat /\ H \in 44..58
  BY FinalIsSize, HeaderLengths DEF IInv, Shape, H
<1>2. final < 2^SizeBits
  BY <1>1, FinalFits
<1>3. CASE n < p + 4
  <2>1. Field(p) = 0
    BY <1>3 DEF Field
  <2>2. phase # "closed"
    BY <1>1, <1>3 DEF IInv, Places
  <2>. QED
    BY <2>1, <2>2
<1>4. CASE p + 4 <= n
  <2>1. \A k \in 1..4 : p + k \in 1..n /\ p + k <= H
    BY <1>1, <1>4
  <2>2. \A k \in 1..4 : file[p + k].field = name
    BY <2>1 DEF IInv, Layout
  <2>3. CASE n >= H
    <3>1. \A k \in 1..4 : file[p + k].value \in {0, final}
      BY <2>1, <2>2 DEF IInv, Sizes
    <3>2. phase = "closed" => \A k \in 1..4 : file[p + k].value = final
      <4>1. phase = "closed" => patches = <<>>
        BY DEF IInv, Patching
      <4>2. phase = "closed" => \A j \in 1..Len(patches) : FALSE
        BY <4>1
      <4>. QED
        BY <2>1, <2>2, <4>2 DEF IInv, Patching
    <3>. HIDE DEF final
    <3>3. /\ Field(p) \in 0..final
          /\ (\A k \in 1..4 : file[p + k].value = final) => Field(p) = final
      BY <1>1, <1>2, <1>4, <3>1, FieldOf
    <3>4. Field(p) \in Nat /\ Field(p) <= final /\ (phase = "closed" => Field(p) = final)
      BY <1>1, <3>2, <3>3
    <3>. QED
      BY <2>3, <3>4 DEF final
  <2>4. CASE ~(n >= H)
    <3>1. \A k \in 1..4 : file[p + k].value \in {0, 0}
      BY <2>1, <2>2, <2>4 DEF IInv, Sizes
    <3>2. phase # "closed"
      BY <2>4 DEF IInv, Places
    <3>3. 0 < 2^SizeBits /\ 0 \in Nat
      BY Widths, ReopenAssumption
    <3>4. Field(p) \in 0..0
      BY <1>1, <1>4, <3>1, <3>3, FieldOf
    <3>. QED
      BY <3>2, <3>4
  <2>. QED
    BY <2>3, <2>4
<1>. QED
  BY <1>1, <1>3, <1>4

-----------------------------------------------------------------------------
(* What the walk meets.                                                    *)

LEMMA WalkFacts ==
  ASSUME format \in Formats
  PROVE  /\ Media.kind = format /\ Media.form /\ Media.aifc
         /\ \A p, n : Walk!CanFetch(p, n) <=> p + n <= Len(file)
         /\ \A x : Walk!Uint32(x) = Uint32(x)
         /\ format = "wav" => /\ Walk!TagAt(12) = Tag("fmt", 16, BytesPerFrame, 0)
                              /\ Walk!TagAt(36) = Tag("data", Field(40), 0, 0)
         /\ format = "aiff" => /\ Walk!TagAt(12) = Tag("COMM", 22, BytesPerFrame, Field(22))
                               /\ Walk!TagAt(42) = Tag("SSND", Field(46), 0, 0)
                               /\ \A p : p \notin {12, 42} => Walk!TagAt(p) = Tag("else", 0, 0, 0)
<1>1. /\ Media.kind = format /\ Media.form /\ Media.aifc /\ Media.len = Len(file)
      /\ Media.junk = Tag("else", 0, 0, 0)
      /\ Media.tags = IF format = "wav"
                      THEN [p \in {12, 36} |-> IF p = 12 THEN Tag("fmt", 16, BytesPerFrame, 0)
                                                         ELSE Tag("data", Field(40), 0, 0)]
                      ELSE [p \in {12, 42} |-> IF p = 12 THEN Tag("COMM", 22, BytesPerFrame, Field(22))
                                                         ELSE Tag("SSND", Field(46), 0, 0)]
  BY DEF Media
<1>2. \A p, n : Walk!CanFetch(p, n) <=> p + n <= Len(file)
  BY <1>1 DEF Walk!CanFetch
<1>3. \A x : Walk!Uint32(x) = Uint32(x)
  BY DEF Walk!Uint32, Uint32
<1>4. \A p : Walk!TagAt(p) = IF p \in DOMAIN Media.tags THEN Media.tags[p] ELSE Media.junk
  BY DEF Walk!TagAt
<1>5. CASE format = "wav"
  BY <1>1, <1>2, <1>3, <1>4, <1>5
<1>6. CASE format = "aiff"
  BY <1>1, <1>2, <1>3, <1>4, <1>6
<1>. QED
  BY <1>5, <1>6, Sizing

Frames(n) == n * BytesPerFrame

\* No more is announced than is there, and after a close all of it.
LEMMA AnnouncesFacts ==
  ASSUME IInv
  PROVE  /\ Announces \in Nat /\ Frames(Announces) \in Nat
         /\ Announces = 0 \/ (Len(file) >= H /\ H + Frames(Announces) <= Len(file))
         /\ Announces = 0 => Frames(Announces) = 0
         /\ phase = "closed" /\ Fits =>
              /\ Announces = (Len(file) - H) \div BytesPerFrame
              /\ format = "wav" => Field(40) = Len(file) - H
         /\ format = "wav" => Field(40) \in Nat
<1>. DEFINE n == Len(file)
<1>1. /\ format \in Formats /\ n \in Nat /\ H \in 44..58 /\ BytesPerFrame \in Nat \ {0}
      /\ format \in {"wav", "aiff"}
  BY HeaderLengths, Sizing DEF IInv, Shape, H
<1>2. \A x \in Nat : /\ x \div BytesPerFrame \in Nat
                     /\ Frames(x \div BytesPerFrame) \in Nat /\ Frames(x \div BytesPerFrame) <= x
  <2>1. \A x \in Nat, b \in Nat \ {0} : x \div b \in Nat /\ (x \div b) * b \in Nat /\ (x \div b) * b <= x
    OBVIOUS
  <2>. QED
    BY <1>1, <2>1, Zenon DEF Frames
<1>3. phase = "closed" => n >= H
  BY DEF IInv, Places
<1>4. Fits /\ n >= H => /\ Final(format, n, "data") = (n - H) + (IF format = "aiff" THEN 8 ELSE 0)
                       /\ Final(format, n, "frames") = (n - H) \div BytesPerFrame
  BY <1>1, FinalSizes DEF Fits, H
<1>. DEFINE pcm == Uint32(Uint32(n) - H)
<1>5. n >= H => pcm \in 0..(n - H)
  BY <1>1, SoundFits DEF H
<1>6. Frames(0) = 0 /\ \A x \in Nat : Frames(x) \in Nat
  BY <1>1, Products DEF Frames
<1>7. \A x, y \in Nat : x <= y => Frames(x) <= Frames(y)
  BY <1>1, Products DEF Frames
<1>8. CASE format = "wav"
  <2>1. H = 44 /\ \A k \in 1..4 : FieldAt(format, 40 + k) = "data"
    BY <1>8 DEF H, HeaderLen, FieldAt
  <2>2. /\ Field(40) \in Nat
        /\ Field(40) = 0 \/ (n >= H /\ Field(40) <= Final(format, n, "data"))
        /\ phase = "closed" => Field(40) = Final(format, n, "data")
    <3>1. 40 \in Nat /\ "data" \in Names /\ 40 + 4 <= H
      BY <2>1 DEF Names
    <3>. QED
      BY <2>1, <3>1, FieldFacts
  <2>3. Announces = Field(40) \div BytesPerFrame
    BY <1>8 DEF Announces
  <2>4. Final(format, n, "data") = pcm
    BY <1>8 DEF Final, H
  <2>. HIDE DEF pcm, n
  <2>5. Field(40) = 0 \/ (n >= H /\ H + Field(40) <= n)
    BY <1>1, <1>5, <2>2, <2>4
  <2>6. Announces \in Nat /\ Frames(Announces) \in Nat /\ Frames(Announces) <= Field(40)
    BY <1>2, <2>2, <2>3
  <2>7. Field(40) = 0 => Announces = 0
    <3>1. \A b \in Nat \ {0} : 0 \div b = 0
      OBVIOUS
    <3>. QED
      BY <1>1, <2>3, <3>1
  <2>8. Announces = 0 \/ (n >= H /\ H + Frames(Announces) <= n)
    BY <1>1, <2>2, <2>5, <2>6, <2>7
  <2>9. phase = "closed" /\ Fits => Field(40) = n - H
    <3>1. (n - H) + 0 = n - H
      BY <1>1 DEF n
    <3>. QED
      BY <1>3, <1>4, <1>8, <2>2, <3>1
  <2>. QED
    BY <1>6, <1>8, <2>2, <2>3, <2>6, <2>8, <2>9 DEF n
<1>9. CASE format = "aiff"
  <2>1. H = 58 /\ \A k \in 1..4 : FieldAt(format, 22 + k) = "frames"
    BY <1>9 DEF H, HeaderLen, FieldAt
  <2>2. /\ Field(22) \in Nat
        /\ Field(22) = 0 \/ (n >= H /\ Field(22) <= Final(format, n, "frames"))
        /\ phase = "closed" => Field(22) = Final(format, n, "frames")
    <3>1. 22 \in Nat /\ "frames" \in Names /\ 22 + 4 <= H
      BY <2>1 DEF Names
    <3>. QED
      BY <2>1, <3>1, FieldFacts
  <2>3. Announces = Field(22) /\ format # "wav"
    BY <1>9 DEF Announces
  <2>4. Final(format, n, "frames") = pcm \div BytesPerFrame
    BY <1>9 DEF Final, H
  <2>. HIDE DEF pcm, n
  <2>5. Announces = 0 \/ (n >= H /\ H + Frames(Announces) <= n)
    <3>. SUFFICES ASSUME n >= H, Announces <= pcm \div BytesPerFrame
                  PROVE  H + Frames(Announces) <= n
      BY <2>2, <2>3, <2>4
    <3>1. pcm \in Nat /\ pcm <= n - H
      BY <1>1, <1>5
    <3>2. Frames(Announces) <= Frames(pcm \div BytesPerFrame)
      BY <1>2, <1>7, <2>2, <2>3, <3>1
    <3>3. Frames(pcm \div BytesPerFrame) \in Nat /\ Frames(pcm \div BytesPerFrame) <= pcm
      BY <1>2, <3>1
    <3>4. Frames(Announces) \in Nat
      BY <1>6, <2>2, <2>3
    <3>. QED
      BY <1>1, <3>1, <3>2, <3>3, <3>4
  <2>. QED
    BY <1>3, <1>4, <1>6, <2>2, <2>3, <2>5 DEF n
<1>. QED
  BY <1>1, <1>8, <1>9

-----------------------------------------------------------------------------
(* The reader.                                                             *)

Found == [unit |-> BytesPerFrame, frames |-> Announces]

\* A close leaves nothing in the buffer.
Emptied == phase \in {"synced", "patching", "closed"} => buf = <<>> /\ todo = <<>>

Whole == phase = "closed" /\ faults = 0 /\ Fits

\* Where the walk is: WAV from fmt to data; AIFF anywhere in the first pass, when it
\* takes PCM for tags, and in the second from COMM to SSND.
Walks ==
  /\ pass = "form" => at = 0 /\ info = Walk!NoInfo
  /\ pass = "chunks" /\ format = "wav" =>
       \/ at = 12 /\ info = Walk!NoInfo
       \/ at = 36 /\ info = [unit |-> BytesPerFrame, frames |-> 0]
  /\ pass = "chunks" /\ format = "aiff" => (at = 12 /\ info = Walk!NoInfo) \/ info = Found
  /\ pass = "sound" => format = "aiff" /\ at \in {12, 42} /\ info = Found
  /\ pass = "opened" => /\ Len(file) >= H /\ info = Found
                        /\ seen = [beg |-> H, end |-> H + Frames(Announces)]
  /\ pass = "refused" /\ Whole => handed < BytesPerFrame

Reads ==
  /\ pass \in {"form", "chunks", "sound", "opened", "refused"}
  /\ pass # "form" => Over
  /\ Walks

RInv == IInv /\ Emptied /\ Reads

LEMMA FileStays ==
  ASSUME UNCHANGED vars
  PROVE  UNCHANGED <<format, file, phase, faults, handed, H, Announces, Found, Whole, Over>>
<1>1. UNCHANGED <<format, file, phase, faults, handed>>
  BY DEF vars
<1>2. UNCHANGED H
  BY <1>1 DEF H
<1>3. UNCHANGED <<Field(40), Field(22)>>
  BY <1>1 DEF Field, Weight
<1>4. UNCHANGED Announces
  BY <1>1, <1>3 DEF Announces
<1>5. UNCHANGED Found
  BY <1>4 DEF Found
<1>6. UNCHANGED <<Whole, Over>>
  BY <1>1 DEF Whole, Fits, Over
<1>. QED
  BY <1>1, <1>2, <1>4, <1>5, <1>6

LEMMA ReadsNext ==
  ASSUME UNCHANGED vars, Over,
         pass' \in {"chunks", "sound", "opened", "refused"},
         pass' = "chunks" /\ format = "wav" =>
           \/ at' = 12 /\ info' = Walk!NoInfo
           \/ at' = 36 /\ info' = [unit |-> BytesPerFrame, frames |-> 0],
         pass' = "chunks" /\ format = "aiff" => (at' = 12 /\ info' = Walk!NoInfo) \/ info' = Found,
         pass' = "sound" => format = "aiff" /\ at' \in {12, 42} /\ info' = Found,
         pass' = "opened" => /\ Len(file) >= H /\ info' = Found
                            /\ seen' = [beg |-> H, end |-> H + Frames(Announces)],
         pass' = "refused" /\ Whole => handed < BytesPerFrame
  PROVE  Reads'
<1>1. UNCHANGED <<format, file, phase, faults, handed, H, Announces, Found, Whole, Over>>
  BY FileStays
<1>2. Walks'
  BY <1>1 DEF Walks, Walk!NoInfo, Frames
<1>. QED
  BY <1>1, <1>2 DEF Reads

\* A file closed on a device that worked holds what was handed over.
LEMMA WholeFacts ==
  ASSUME IInv, Emptied, Whole
  PROVE  /\ Len(file) \in Nat /\ H \in 44..58 /\ Len(file) >= H /\ handed = Len(file) - H
         /\ BytesPerFrame \in Nat \ {0}
         /\ Announces = handed \div BytesPerFrame
         /\ format = "wav" => H = 44 /\ Field(40) = handed
         /\ format = "aiff" => H = 58
         /\ \A i \in 1..handed : file[H + i].value = i
         /\ Announces < 1 => handed < BytesPerFrame
<1>1. /\ Len(file) \in Nat /\ H \in 44..58 /\ Len(file) >= H /\ BytesPerFrame \in Nat \ {0}
  BY HeaderLengths, Sizing DEF IInv, Shape, H, Places, Whole
<1>2. buf = <<>> /\ todo = <<>>
  BY DEF Emptied, Whole
<1>3. Sound = Len(file) - H
  BY <1>1 DEF Sound
<1>4. /\ \A i \in 1..Sound : file[H + i].value = i
      /\ Sound + Len(buf) + Len(todo) = handed
  BY DEF IInv, Order, Whole
<1>5. handed = Len(file) - H
  BY <1>1, <1>2, <1>3, <1>4
<1>6. format = "wav" => H = 44
  BY DEF H, HeaderLen
<1>7. format = "aiff" => H = 58
  BY DEF H, HeaderLen
<1>8. Announces = handed \div BytesPerFrame /\ (format = "wav" => Field(40) = handed)
  BY <1>5, AnnouncesFacts DEF Whole
<1>9. Announces < 1 => handed < BytesPerFrame
  <2>1. \A x \in Nat, b \in Nat \ {0} : x \div b < 1 => x < b
    OBVIOUS
  <2>2. handed \in Nat
    BY <1>1, <1>5
  <2>. QED
    BY <1>1, <1>8, <2>1, <2>2, Zenon
<1>. QED
  BY <1>1, <1>3, <1>4, <1>5, <1>6, <1>7, <1>8, <1>9

LEMMA WalksOn ==
  /\ Uint32(12 + 8 + 16 + 1) = 37 /\ Uint32(12 + 8 + 16) = 36 /\ Uint32(36 + 1) = 37
  /\ Uint32(12 + 8 + 22) = 42
<1>1. \A x \in 0..63 : Uint32(x) = x
  <2>. PICK M \in Nat : M = 2^SizeBits /\ M > 64
    BY Widths, ReopenAssumption
  <2>1. \A x \in 0..(M - 1) : Uint32(x) = x
    BY Widths
  <2>. QED
    BY <2>1
<1>. QED
  BY <1>1

LEMMA FormKeeps ==
  ASSUME RInv, Over, UNCHANGED vars, Walk!ReadForm
  PROVE  Reads'
<1>1. pass = "form" /\ at = 0 /\ info = Walk!NoInfo /\ IInv /\ Emptied
  BY DEF Walk!ReadForm, RInv, Reads, Walks
<1>2. format \in Formats
  BY <1>1 DEF IInv, Shape
<1>3. CASE 0 + 12 <= Len(file)
  <2>1. at' = 12 /\ pass' = "chunks" /\ info' = info
    BY <1>1, <1>2, <1>3, WalkFacts DEF Walk!ReadForm, Walk!FormBytes
  <2>. QED
    BY <1>1, <2>1, ReadsNext
<1>4. CASE ~(0 + 12 <= Len(file))
  <2>1. pass' = "refused"
    BY <1>1, <1>2, <1>4, WalkFacts DEF Walk!ReadForm, Walk!FormBytes, Walk!Refuse
  <2>2. ~Whole
    BY <1>1, <1>4, WholeFacts
  <2>. QED
    BY <2>1, <2>2, ReadsNext
<1>. QED
  BY <1>3, <1>4

\* WAV: the walk meets fmt and then data.
LEMMA WavKeeps ==
  ASSUME RInv, Over, UNCHANGED vars, format = "wav", pass = "chunks",
         Walk!WavFormat \/ Walk!WavData \/ Walk!WavOther \/ Walk!NoTag
  PROVE  Reads'
<1>1. IInv /\ Emptied /\ format \in Formats /\ Len(file) \in Nat /\ BytesPerFrame \in Nat \ {0}
  BY Sizing DEF RInv, IInv, Shape
<1>2. \/ at = 12 /\ info = Walk!NoInfo
      \/ at = 36 /\ info = [unit |-> BytesPerFrame, frames |-> 0]
  BY DEF RInv, Reads, Walks
<1>. USE DEF Walk!At, Walk!HasTag, Walk!Tag, Walk!Body, Walk!TagBytes, Tag
<1>3. CASE at = 12 /\ info = Walk!NoInfo
  <2>1. Walk!TagAt(at) = Tag("fmt", 16, BytesPerFrame, 0)
    BY <1>1, <1>3, WalkFacts
  <2>2. CASE Walk!WavFormat
    <3>1. CASE 36 <= Len(file)
      <4>1. /\ info' = [info EXCEPT !.unit = BytesPerFrame] /\ at' = Walk!Following(at)
            /\ pass' = pass
        BY <1>1, <1>3, <2>1, <2>2, <3>1, WalkFacts DEF Walk!WavFormat, Walk!FormatNeeds, Walk!Skip
      <4>2. info' = [unit |-> BytesPerFrame, frames |-> 0]
        BY <1>3, <4>1 DEF Walk!NoInfo
      <4>3. Walk!Following(at) = 36
        <5>1. Media.kind = "wav" /\ Walk!TagAt(12).length = 16 /\ \A x : Walk!Uint32(x) = Uint32(x)
          BY <1>1, <1>3, <2>1, WalkFacts
        <5>2. Uint32(12 + 8 + 16) = 36 /\ Uint32(36 + 1) = 37 /\ 37 - (37 % 2) = 36
          BY WalksOn
        <5>. QED
          BY <1>3, <5>1, <5>2 DEF Walk!Following
      <4>. QED
        BY <4>1, <4>2, <4>3, ReadsNext
    <3>2. CASE ~(36 <= Len(file))
      <4>1. pass' = "refused"
        BY <1>1, <1>3, <2>1, <2>2, <3>2, WalkFacts DEF Walk!WavFormat, Walk!FormatNeeds, Walk!Refuse
      <4>2. ~Whole
        BY <1>1, <3>2, WholeFacts
      <4>. QED
        BY <4>1, <4>2, ReadsNext
    <3>. QED
      BY <3>1, <3>2
  <2>3. ~Walk!WavData /\ ~Walk!WavOther
    BY <2>1 DEF Walk!WavData, Walk!WavOther
  <2>4. CASE Walk!NoTag
    <3>1. pass' = "refused"
      BY <1>1, <2>4, WalkFacts DEF Walk!NoTag, Walk!Refuse
    <3>2. ~(20 <= Len(file))
      BY <1>1, <1>3, <2>1, <2>4, WalkFacts DEF Walk!NoTag
    <3>3. ~Whole
      BY <1>1, <3>2, WholeFacts
    <3>. QED
      BY <3>1, <3>3, ReadsNext
  <2>. QED
    BY <2>2, <2>3, <2>4
<1>4. CASE at = 36 /\ info = [unit |-> BytesPerFrame, frames |-> 0]
  <2>1. Walk!TagAt(at) = Tag("data", Field(40), 0, 0) /\ Field(40) \in Nat
    BY <1>1, <1>4, WalkFacts, AnnouncesFacts
  <2>2. CASE Walk!WavData
    <3>1. Announces = Field(40) \div BytesPerFrame /\ Announces \in Nat
      BY <1>1, AnnouncesFacts DEF Announces
    <3>2. CASE Announces >= 1
      <4>1. /\ info' = [info EXCEPT !.frames = Announces] /\ pass' = "opened"
            /\ seen' = [beg |-> 36 + 8, end |-> 36 + 8 + Announces * BytesPerFrame]
        BY <1>1, <1>4, <2>1, <2>2, <3>1, <3>2, WalkFacts DEF Walk!WavData, Walk!OpenAt
      <4>2. info' = Found
        BY <1>4, <4>1 DEF Found
      <4>3. H = 44 /\ Len(file) >= H
        BY <1>1, <3>2, AnnouncesFacts DEF H, HeaderLen
      <4>. QED
        BY <4>1, <4>2, <4>3, ReadsNext DEF Frames
    <3>3. CASE Announces < 1
      <4>1. pass' = "refused"
        BY <1>1, <1>4, <2>1, <2>2, <3>1, <3>3, WalkFacts DEF Walk!WavData, Walk!Refuse
      <4>2. Whole => handed < BytesPerFrame
        BY <1>1, <3>3, WholeFacts
      <4>. QED
        BY <4>1, <4>2, ReadsNext
    <3>. QED
      BY <3>1, <3>2, <3>3
  <2>3. ~Walk!WavFormat /\ ~Walk!WavOther
    BY <2>1 DEF Walk!WavFormat, Walk!WavOther
  <2>4. CASE Walk!NoTag
    <3>1. pass' = "refused"
      BY <1>1, <2>4, WalkFacts DEF Walk!NoTag, Walk!Refuse
    <3>2. ~(44 <= Len(file)) \/ Field(40) = 0
      BY <1>1, <1>4, <2>1, <2>4, WalkFacts DEF Walk!NoTag
    <3>3. Whole => handed < BytesPerFrame
      BY <1>1, <3>2, WholeFacts
    <3>. QED
      BY <3>1, <3>3, ReadsNext
  <2>. QED
    BY <2>2, <2>3, <2>4
<1>. QED
  BY <1>2, <1>3, <1>4

\* AIFF, the first pass: COMM is met before the pass ends.
LEMMA AiffKeeps ==
  ASSUME RInv, Over, UNCHANGED vars, format = "aiff", pass = "chunks",
         Walk!AiffCommon \/ Walk!AiffOther \/ Walk!NoTag
  PROVE  Reads'
<1>1. /\ IInv /\ Emptied /\ format \in Formats /\ Len(file) \in Nat /\ BytesPerFrame \in Nat \ {0}
      /\ Announces = Field(22) /\ Announces \in Nat
  BY Sizing, AnnouncesFacts DEF RInv, IInv, Shape, Announces
<1>2. (at = 12 /\ info = Walk!NoInfo) \/ info = Found
  BY DEF RInv, Reads, Walks
<1>3. Found # Walk!NoInfo
  BY <1>1 DEF Found, Walk!NoInfo
<1>. USE DEF Walk!At, Walk!HasTag, Walk!Tag, Walk!Body, Walk!TagBytes, Tag
<1>4. CASE Walk!AiffCommon
  <2>1. at = 12 /\ Walk!TagAt(12) = Tag("COMM", 22, BytesPerFrame, Field(22))
    <3>1. Walk!TagAt(at).id = "COMM"
      BY <1>4 DEF Walk!AiffCommon
    <3>2. at \in {12, 42}
      BY <1>1, <3>1, WalkFacts
    <3>. QED
      BY <1>1, <3>1, <3>2, WalkFacts
  <2>2. Walk!CommonNeeds = 22
    BY <1>1, <2>1, WalkFacts DEF Walk!CommonNeeds
  <2>3. CASE 42 <= Len(file) /\ Announces >= 1
    <3>1. info' = [unit |-> BytesPerFrame, frames |-> Field(22)] /\ pass' = pass
      BY <1>1, <1>4, <2>1, <2>2, <2>3, WalkFacts DEF Walk!AiffCommon
    <3>2. info' = Found
      BY <1>1, <3>1 DEF Found
    <3>. QED
      BY <3>1, <3>2, ReadsNext
  <2>4. CASE ~(42 <= Len(file)) \/ Announces < 1
    <3>1. pass' = "refused"
      BY <1>1, <1>4, <2>1, <2>2, <2>4, WalkFacts DEF Walk!AiffCommon, Walk!Refuse
    <3>2. Whole => handed < BytesPerFrame
      BY <1>1, <2>4, WholeFacts
    <3>. QED
      BY <3>1, <3>2, ReadsNext
  <2>. QED
    BY <1>1, <2>3, <2>4
<1>5. CASE Walk!AiffOther
  <2>1. at # 12 /\ Walk!TagAt(at).id \notin {"MARK", "INST"}
    BY <1>1, <1>5, WalkFacts DEF Walk!AiffOther, Walk!Ids
  <2>2. info' = info /\ pass' = pass
    BY <1>5, <2>1 DEF Walk!AiffOther
  <2>. QED
    BY <1>2, <2>1, <2>2, ReadsNext
<1>6. CASE Walk!NoTag
  <2>1. CASE info # Walk!NoInfo
    <3>1. at' = 12 /\ pass' = "sound" /\ info' = info
      BY <1>1, <1>6, <2>1, WalkFacts DEF Walk!NoTag, Walk!FormBytes
    <3>. QED
      BY <1>2, <2>1, <3>1, ReadsNext
  <2>2. CASE info = Walk!NoInfo
    <3>1. pass' = "refused"
      BY <1>6, <2>2 DEF Walk!NoTag, Walk!Refuse
    <3>2. at = 12
      BY <1>2, <1>3, <2>2
    <3>3. ~(20 <= Len(file))
      BY <1>1, <1>6, <3>2, WalkFacts DEF Walk!NoTag
    <3>4. ~Whole
      BY <1>1, <3>3, WholeFacts
    <3>. QED
      BY <3>1, <3>4, ReadsNext
  <2>. QED
    BY <2>1, <2>2
<1>. QED
  BY <1>4, <1>5, <1>6

\* AIFF, the second pass: over COMM to SSND.
LEMMA SoundKeeps ==
  ASSUME RInv, Over, UNCHANGED vars, format = "aiff", pass = "sound",
         Walk!AiffSound \/ Walk!AiffSkip \/ Walk!NoTag
  PROVE  Reads'
<1>1. IInv /\ Emptied /\ format \in Formats /\ Len(file) \in Nat
  BY DEF RInv, IInv, Shape
<1>2. at \in {12, 42} /\ info = Found
  BY DEF RInv, Reads, Walks
<1>. USE DEF Walk!At, Walk!HasTag, Walk!Tag, Walk!Body, Walk!TagBytes, Tag
<1>3. /\ Walk!TagAt(12) = Tag("COMM", 22, BytesPerFrame, Field(22))
      /\ Walk!TagAt(42) = Tag("SSND", Field(46), 0, 0)
  BY <1>1, WalkFacts
<1>4. H = 58
  BY DEF H, HeaderLen
<1>5. CASE Walk!AiffSound
  <2>1. at = 42
    BY <1>2, <1>3, <1>5 DEF Walk!AiffSound
  <2>2. CASE 58 <= Len(file)
    <3>1. /\ info' = info /\ pass' = "opened"
          /\ seen' = [beg |-> 42 + 8 + 8 + 0, end |-> 42 + 8 + 8 + 0 + info.frames * info.unit]
      BY <1>1, <1>3, <1>5, <2>1, <2>2, WalkFacts DEF Walk!AiffSound, Walk!OpenAt
    <3>2. seen' = [beg |-> H, end |-> H + Frames(Announces)]
      BY <1>2, <1>4, <3>1 DEF Found, Frames
    <3>. QED
      BY <1>2, <1>4, <2>2, <3>1, <3>2, ReadsNext
  <2>3. CASE ~(58 <= Len(file))
    <3>1. pass' = "refused"
      BY <1>1, <1>3, <1>5, <2>1, <2>3, WalkFacts DEF Walk!AiffSound, Walk!Refuse
    <3>2. ~Whole
      BY <1>1, <1>4, <2>3, WholeFacts
    <3>. QED
      BY <3>1, <3>2, ReadsNext
  <2>. QED
    BY <2>2, <2>3
<1>6. CASE Walk!AiffSkip
  <2>1. at = 12
    BY <1>2, <1>3, <1>6 DEF Walk!AiffSkip, Walk!Ids
  <2>2. at' = Walk!Following(12) /\ pass' = pass /\ info' = info
    BY <1>6, <2>1 DEF Walk!AiffSkip, Walk!Skip
  <2>3. Walk!Following(12) = 42
    <3>1. /\ Media.kind = "aiff" /\ Walk!TagAt(12).length = 22
          /\ \A x : Walk!Uint32(x) = Uint32(x)
      BY <1>1, <1>3, WalkFacts
    <3>2. Uint32(12 + 8 + 22) = 42 /\ 42 + (22 % 2) = 42
      BY WalksOn
    <3>. QED
      BY <3>1, <3>2 DEF Walk!Following
  <2>. QED
    BY <1>2, <2>2, <2>3, ReadsNext
<1>7. CASE Walk!NoTag
  <2>1. pass' = "refused"
    BY <1>7 DEF Walk!NoTag, Walk!Refuse
  <2>2. ~(at + 8 <= Len(file))
    BY <1>1, <1>7, WalkFacts DEF Walk!NoTag
  <2>3. ~Whole
    BY <1>1, <1>2, <1>4, <2>2, WholeFacts
  <2>. QED
    BY <2>1, <2>3, ReadsNext
<1>. QED
  BY <1>5, <1>6, <1>7

LEMMA WalkKeeps ==
  ASSUME RInv, Over, UNCHANGED vars, Walk!Next
  PROVE  Reads'
<1>1. format \in {"wav", "aiff"} /\ Media.kind = format
  BY Sizing, WalkFacts DEF RInv, IInv, Shape
<1>2. CASE Walk!ReadForm
  BY <1>2, FormKeeps
<1>3. CASE Walk!WavFormat \/ Walk!WavData \/ Walk!WavOther
  <2>1. format = "wav" /\ pass = "chunks"
    BY <1>1, <1>3 DEF Walk!WavFormat, Walk!WavData, Walk!WavOther, Walk!At
  <2>. QED
    BY <1>3, <2>1, WavKeeps
<1>4. CASE Walk!AiffCommon \/ Walk!AiffOther
  <2>1. format = "aiff" /\ pass = "chunks"
    BY <1>1, <1>4 DEF Walk!AiffCommon, Walk!AiffOther, Walk!At
  <2>. QED
    BY <1>4, <2>1, AiffKeeps
<1>5. CASE Walk!AiffSound \/ Walk!AiffSkip
  <2>1. format = "aiff" /\ pass = "sound"
    BY <1>1, <1>5 DEF Walk!AiffSound, Walk!AiffSkip, Walk!At
  <2>. QED
    BY <1>5, <2>1, SoundKeeps
<1>6. CASE Walk!NoTag
  <2>1. pass = "chunks" \/ (pass = "sound" /\ format = "aiff")
    BY <1>6 DEF Walk!NoTag, RInv, Reads, Walks
  <2>. QED
    BY <1>1, <1>6, <2>1, WavKeeps, AiffKeeps, SoundKeeps
<1>. QED
  BY <1>2, <1>3, <1>4, <1>5, <1>6 DEF Walk!Next

-----------------------------------------------------------------------------
(* The invariant of both.                                                  *)

LEMMA WriterIsThere == Next => ~Over
BY DEF Next, Over, Create, Write, RefuseWrite, Store, Overflow, Tellp, Clear, CloseSync, CloseSink,
       PatchField, CloseFile, Kill

LEMMA EmptiedStep == IInv /\ Emptied /\ [Next]_vars => Emptied'
<1>. SUFFICES ASSUME IInv, Emptied, [Next]_vars
              PROVE  Emptied'
  OBVIOUS
<1>1. CASE phase = "open" \/ phase = "creating"
  <2>1. CASE CloseSync
    BY <2>1 DEF CloseSync, Emptied
  <2>2. CASE ~CloseSync
    BY <1>1, <2>2 DEF Next, Create, Write, RefuseWrite, Store, Overflow, Tellp, Clear, CloseSink, PatchField,
                      CloseFile, Kill, Emptied, vars
  <2>. QED
    BY <2>1, <2>2
<1>2. CASE phase \in {"synced", "patching"}
  BY <1>2 DEF Next, Create, Write, RefuseWrite, Store, Overflow, Tellp, Clear, CloseSync, CloseSink,
              PatchField, CloseFile, Kill, Emptied, vars
<1>3. CASE Over
  <2>1. UNCHANGED vars
    BY <1>3, WriterIsThere
  <2>. QED
    BY <2>1 DEF vars, Emptied
<1>. QED
  BY <1>1, <1>2, <1>3 DEF IInv, Shape, Over

LEMMA ReopenInits == ReopenInit => RInv
<1>. SUFFICES ASSUME ReopenInit
              PROVE  RInv
  OBVIOUS
<1>1. IInv
  BY InitIInv DEF ReopenInit
<1>2. Emptied
  BY DEF ReopenInit, Init, Emptied
<1>3. Reads
  BY DEF ReopenInit, Reads, Walks
<1>. QED
  BY <1>1, <1>2, <1>3 DEF RInv

LEMMA ReopenKeeps == RInv /\ [ReopenNext]_<<vars, reader>> => RInv'
<1>. SUFFICES ASSUME RInv, [ReopenNext]_<<vars, reader>>
              PROVE  RInv'
  OBVIOUS
<1>1. [Next]_vars
  BY DEF ReopenNext, Writing, Reading
<1>2. IInv' /\ Emptied'
  BY <1>1, IInvStep, EmptiedStep DEF RInv
<1>3. CASE Writing
  <2>1. pass = "form" /\ UNCHANGED reader
    BY <1>3, WriterIsThere DEF Writing, RInv, Reads
  <2>. QED
    BY <1>2, <2>1 DEF RInv, Reads, Walks, reader, Walk!NoInfo
<1>4. CASE Reading
  BY <1>2, <1>4, WalkKeeps DEF Reading, RInv
<1>5. CASE UNCHANGED <<vars, reader>>
  <2>1. UNCHANGED <<format, file, phase, faults, handed, H, Announces, Found, Whole, Over>>
    BY <1>5, FileStays
  <2>2. UNCHANGED <<at, pass, info, seen>>
    BY <1>5 DEF reader
  <2>3. Walks'
    BY <2>1, <2>2 DEF RInv, Reads, Walks, Walk!NoInfo, Frames
  <2>. QED
    BY <1>2, <2>1, <2>2, <2>3 DEF RInv, Reads
<1>. QED
  BY <1>3, <1>4, <1>5 DEF ReopenNext

LEMMA RInvAlways == ReopenSpec => []RInv
BY ReopenInits, ReopenKeeps, PTL DEF ReopenSpec

-----------------------------------------------------------------------------
(* What follows.                                                           *)

\* A file that was closed on a device that worked opens with every frame that was
\* handed over, in order, whatever the size of the writes and of the buffer; it is
\* refused only when there is no frame in it (the WAV and AIFF sinks' close, and the
\* readers' walk through the header).
THEOREM ClosedFilesReadBack == ReopenSpec => []ClosedFileReadsBack
<1>1. ASSUME RInv, Whole
      PROVE  /\ Walk!Opened =>
                  /\ info = [unit |-> BytesPerFrame, frames |-> handed \div BytesPerFrame]
                  /\ \A i \in 1..(seen.end - seen.beg) : file[seen.beg + i].value = i
             /\ Walk!Refused => handed < BytesPerFrame
  <2>1. IInv /\ Emptied /\ Reads
    BY <1>1 DEF RInv
  <2>2. /\ handed \in Nat /\ H \in 44..58 /\ Announces = handed \div BytesPerFrame
        /\ H + handed = Len(file)
        /\ \A i \in 1..handed : file[H + i].value = i
    <3>1. /\ Len(file) \in Nat /\ H \in 44..58 /\ Len(file) >= H /\ handed = Len(file) - H
          /\ Announces = handed \div BytesPerFrame
          /\ \A i \in 1..handed : file[H + i].value = i
      BY <1>1, <2>1, WholeFacts, Zenon
    <3>2. \A n \in Nat, h \in 44..58 : n >= h => n - h \in Nat /\ h + (n - h) = n
      OBVIOUS
    <3>. QED
      BY <3>1, <3>2, Zenon
  <2>3. Frames(Announces) \in Nat /\ Frames(Announces) <= handed
    <3>1. /\ Frames(Announces) \in Nat
          /\ Announces = 0 \/ H + Frames(Announces) <= Len(file)
          /\ Announces = 0 => Frames(Announces) = 0
      BY <2>1, AnnouncesFacts
    <3>2. Frames(Announces) = 0 \/ H + Frames(Announces) <= H + handed
      BY <2>2, <3>1
    <3>3. PICK x \in Nat, h \in 44..58 : x = Frames(Announces) /\ h = H
      BY <2>2, <3>1
    <3>4. x = 0 \/ h + x <= h + handed
      BY <3>2, <3>3, Zenon
    <3>5. x <= handed
      BY <2>2, <3>4
    <3>. QED
      BY <3>1, <3>3, <3>5, Zenon
  <2>4. ASSUME pass = "opened"
        PROVE  /\ info = [unit |-> BytesPerFrame, frames |-> handed \div BytesPerFrame]
               /\ \A i \in 1..(seen.end - seen.beg) : file[seen.beg + i].value = i
    <3>1. info = Found /\ seen.beg = H /\ seen.end = H + Frames(Announces)
      BY <2>1, <2>4 DEF Reads, Walks
    <3>2. \A i \in 1..(seen.end - seen.beg) : i \in 1..handed
      BY <2>2, <2>3, <3>1
    <3>. QED
      BY <2>2, <3>1, <3>2 DEF Found
  <2>5. pass = "refused" => handed < BytesPerFrame
    BY <1>1, <2>1 DEF Reads, Walks
  <2>. QED
    BY <2>4, <2>5 DEF Walk!Opened, Walk!Refused
<1>2. RInv => ClosedFileReadsBack
  BY <1>1 DEF ClosedFileReadsBack, Whole
<1>. QED
  BY <1>2, RInvAlways, PTL

\* However a recording ended, what opens has every frame its header speaks of: patched
\* sizes, half patched ones and placeholders never send a reader behind the data.
THEOREM InterruptedFilesHaveTheirFrames == ReopenSpec => []InterruptedFileHasItsFrames
<1>1. ASSUME RInv, pass = "opened"
      PROVE  /\ seen.end <= Len(file)
             /\ \A i \in seen.beg + 1..seen.end : file[i].field = "pcm"
             /\ faults = 0 => \A i \in 1..(seen.end - seen.beg) : file[seen.beg + i].value = i
  <2>1. IInv /\ Reads
    BY <1>1 DEF RInv
  <2>2. Len(file) \in Nat /\ H \in 44..58 /\ Len(file) >= H
    BY <1>1, <2>1, HeaderLengths DEF IInv, Shape, H, Reads, Walks
  <2>3. seen.beg = H /\ seen.end = H + Frames(Announces)
    BY <1>1, <2>1 DEF Reads, Walks
  <2>4. Frames(Announces) \in Nat /\ H + Frames(Announces) <= Len(file)
    BY <2>1, <2>2, AnnouncesFacts
  <2>5. \A i \in seen.beg + 1..seen.end : file[i].field = "pcm"
    <3>1. \A i \in seen.beg + 1..seen.end : i \in 1..Len(file) /\ ~(i <= H)
      BY <2>2, <2>3, <2>4
    <3>. QED
      BY <2>1, <3>1 DEF IInv, Layout
  <2>6. faults = 0 => \A i \in 1..(seen.end - seen.beg) : file[seen.beg + i].value = i
    <3>1. Sound = Len(file) - H
      BY <2>2 DEF Sound
    <3>2. \A i \in 1..(seen.end - seen.beg) : i \in 1..Sound
      BY <2>2, <2>3, <2>4, <3>1
    <3>3. phase # "creating"
      BY <1>1, <2>1 DEF Reads, Over
    <3>. QED
      BY <2>1, <2>3, <3>2, <3>3 DEF IInv, Order
  <2>. QED
    BY <2>2, <2>3, <2>4, <2>5, <2>6
<1>2. RInv => InterruptedFileHasItsFrames
  BY <1>1 DEF InterruptedFileHasItsFrames, Walk!Opened
<1>. QED
  BY <1>2, RInvAlways, PTL
=============================================================================
