--------------------------- MODULE PcmCopyProofs ---------------------------
(***************************************************************************)
(* That a copy between any two formats stays inside both its ranges and    *)
(* keeps the levels of its samples, for ranges of any lengths, samples of  *)
(* any levels and bytes of any even number of values.                       *)
(*                                                                         *)
(* The levels: a float is a multiple of a unit that its size chooses       *)
(* (UnitChosen), so a rounded number lies on the same side of every        *)
(* multiple as the number itself (Rounds).  From that and from division    *)
(* follows what each of the four conversions of convert_to makes of a      *)
(* level (ConvertsLevel), and what the bytes of a format keep of it        *)
(* (BytesKeepLevel); WayIsNear puts the three of a copy together.          *)
(***************************************************************************)
EXTENDS PcmCopy, SequenceTheorems, WellFoundedInduction, TLAPS

-----------------------------------------------------------------------------
(* Numbers.                                                                *)

LEMMA LeastNumber ==
  ASSUME NEW T \in SUBSET Nat, T # {}
  PROVE  \E n \in T : \A m \in T : n <= m
<1>. DEFINE R == {ss \in Nat \X Nat : ss[1] < ss[2]}
<1>1. IsWellFoundedOn(R, Nat)
  BY NatLessThanWellFounded DEF OpToRel
<1>. HIDE DEF R
<1>2. PICK n \in T : \A m \in T : <<m, n>> \notin R
  BY <1>1, WFMin
<1>3. \A m \in T : ~(m < n)
  BY <1>2 DEF R
<1>. QED
  BY <1>3

LEMMA Products ==
  /\ \A x, y \in Int : x * y \in Int
  /\ \A x, y \in Nat : x * y \in Nat
  /\ \A x, y \in Nat \ {0} : x * y \in Nat \ {0}
  /\ \A x, y \in Int, z \in Nat : x <= y => x * z <= y * z
  /\ \A x, y, z \in Int : (x * y) * z = x * (y * z) /\ x * y = y * x
  /\ \A x, y, z \in Int : (x + y) * z = x * z + y * z /\ (x - y) * z = x * z - y * z
OBVIOUS

LEMMA Division ==
  ASSUME NEW a \in Int, NEW b \in Nat \ {0}
  PROVE  /\ a \div b \in Int /\ a % b \in 0..(b - 1)
         /\ a = (a \div b) * b + (a % b)
OBVIOUS

LEMMA Quotient ==
  ASSUME NEW b \in Nat \ {0}, NEW q \in Int, NEW r \in 0..(b - 1)
  PROVE  (q * b + r) \div b = q /\ (q * b + r) % b = r
<1>. DEFINE a == q * b + r
<1>1. PICK x \in Int, y \in 0..(b - 1) : a = x * b + y /\ x = a \div b /\ y = a % b
  <2>1. a \in Int
    BY Products
  <2>. QED
    BY <2>1, Division, Zenon
<1>2. (x - q) * b = r - y
  BY <1>1
<1>3. x - q = 0
  <2>1. x - q >= 1 => (x - q) * b >= b
    OBVIOUS
  <2>2. x - q <= -1 => (x - q) * b <= -b
    OBVIOUS
  <2>. QED
    BY <1>2, <2>1, <2>2
<1>4. x = q /\ r = y
  BY <1>2, <1>3
<1>. QED
  BY <1>1, <1>4

\* n is a whole number of units.
Multiple(n, u) == \E k \in Int : n = k * u

LEMMA Multiples ==
  ASSUME NEW u \in Nat \ {0}, NEW n \in Int, NEW m \in Int, Multiple(n, u), Multiple(m, u)
  PROVE  /\ Multiple(n + m, u) /\ Multiple(n - m, u) /\ Multiple(-n, u)
         /\ n < m => n + u <= m
         /\ n % u = 0
<1>1. PICK k \in Int : n = k * u
  BY DEF Multiple
<1>2. PICK l \in Int : m = l * u
  BY DEF Multiple
<1>3. n + m = (k + l) * u /\ n - m = (k - l) * u /\ -n = (-k) * u
  BY <1>1, <1>2
<1>4. ASSUME n < m
      PROVE  n + u <= m
  <2>1. k >= l => k * u >= l * u
    OBVIOUS
  <2>2. ~(k >= l)
    BY <1>1, <1>2, <1>4, <2>1
  <2>3. (k + 1) * u <= l * u
    BY <2>2
  <2>4. (k + 1) * u = k * u + u
    OBVIOUS
  <2>. QED
    BY <1>1, <1>2, <2>3, <2>4
<1>5. n % u = 0
  <2>1. (k * u + 0) % u = 0
    BY Quotient
  <2>2. n = k * u + 0
    BY <1>1
  <2>. QED
    BY <2>1, <2>2, Zenon
<1>6. k + l \in Int /\ k - l \in Int /\ -k \in Int
  OBVIOUS
<1>7. Multiple(n + m, u) /\ Multiple(n - m, u) /\ Multiple(-n, u)
  BY <1>3, <1>6, Zenon DEF Multiple
<1>. QED
  BY <1>4, <1>5, <1>7

LEMMA MultiplesNest ==
  ASSUME NEW u \in Int, NEW v \in Int, NEW n \in Int, Multiple(n, u), Multiple(u, v)
  PROVE  Multiple(n, v)
<1>1. PICK k \in Int : n = k * u
  BY DEF Multiple
<1>2. PICK l \in Int : u = l * v
  BY DEF Multiple
<1>3. n = (k * l) * v /\ k * l \in Int
  BY <1>1, <1>2, Products
<1>. QED
  BY <1>3 DEF Multiple

LEMMA Remainder ==
  ASSUME NEW u \in Nat \ {0}, NEW n \in Int
  PROVE  /\ n - (n % u) = (n \div u) * u /\ Multiple(n - (n % u), u)
         /\ n % u \in 0..(u - 1)
         /\ n % u = 0 => Multiple(n, u)
<1>1. /\ n \div u \in Int /\ n % u \in 0..(u - 1)
      /\ n = (n \div u) * u + (n % u)
  BY Division
<1>2. n - (n % u) = (n \div u) * u
  BY <1>1
<1>3. n % u = 0 => n = (n \div u) * u
  BY <1>1
<1>. QED
  BY <1>1, <1>2, <1>3 DEF Multiple

\* The multiple below a number, of a unit and then of a coarser one.
LEMMA Floors ==
  ASSUME NEW u \in Nat \ {0}, NEW n \in Int, NEW m \in Int, Multiple(m, u), n - m \in 0..(u - 1)
  PROVE  m = n - (n % u) /\ (n \div u) * u = m
<1>1. PICK k \in Int : m = k * u
  BY DEF Multiple
<1>2. n = k * u + (n - m)
  BY <1>1
<1>3. n % u = n - m /\ n \div u = k
  <2>1. PICK r \in 0..(u - 1) : r = n - m
    OBVIOUS
  <2>2. (k * u + r) % u = r /\ (k * u + r) \div u = k
    BY Quotient
  <2>3. n = k * u + r
    BY <1>2, <2>1
  <2>. QED
    BY <2>1, <2>2, <2>3, Zenon
<1>4. m = n - (n % u)
  <2>1. \A r : r = n - m => m = n - r
    OBVIOUS
  <2>. QED
    BY <1>3, <2>1, Zenon
<1>5. (n \div u) * u = m
  BY <1>1, <1>3, Zenon
<1>. QED
  BY <1>4, <1>5

-----------------------------------------------------------------------------
(* Widths.                                                                 *)

LEMMA Sizes ==
  /\ Base \in Nat \ {0} /\ Base >= 4
  /\ Values(0) = 1 /\ Values(1) = Base /\ Values(2) = Base * Base
  /\ Values(3) = Values(2) * Base /\ Values(4) = Values(3) * Base
  /\ Values(4) = Values(2) * Values(2)
  /\ \A b \in 0..4 : Values(b) \in Nat \ {0}
BY PcmConversionAssumption DEF Values

LEMMA Halves ==
  /\ \A b \in 1..4 : Half(b) \in Nat \ {0} /\ Values(b) = 2 * Half(b)
  /\ \E h \in Nat \ {0} : /\ h >= 2 /\ Base = 2 * h
                           /\ Half(1) = h /\ Half(2) = h * Base /\ Half(3) = h * Values(2)
                           /\ Half(4) = h * Values(3)
<1>1. PICK h \in Nat \ {0} : Base = 2 * h /\ h >= 2
  <2>1. Base = 2 * (Base \div 2)
    BY PcmConversionAssumption
  <2>. QED
    BY <2>1, PcmConversionAssumption
<1>2. /\ Values(1) = 2 * h /\ Values(2) = 2 * (h * Base)
      /\ Values(3) = 2 * (h * Values(2)) /\ Values(4) = 2 * (h * Values(3))
  <2>1. /\ Values(2) = (2 * h) * Base
        /\ Values(3) = (2 * h) * Values(2) /\ Values(4) = (2 * h) * Values(3)
    BY <1>1, Sizes, Products
  <2>2. \A w \in Nat : (2 * h) * w = 2 * (h * w)
    OBVIOUS
  <2>3. Base \in Nat /\ Values(2) \in Nat /\ Values(3) \in Nat
    BY Sizes
  <2>. QED
    BY <1>1, <2>1, <2>2, <2>3, Sizes
<1>3. h * Base \in Nat \ {0} /\ h * Values(2) \in Nat \ {0} /\ h * Values(3) \in Nat \ {0}
  BY Sizes, Products
<1>4. \A x \in Nat : (2 * x) \div 2 = x
  OBVIOUS
<1>5. /\ Half(1) = h /\ Half(2) = h * Base /\ Half(3) = h * Values(2)
      /\ Half(4) = h * Values(3)
  BY <1>2, <1>3, <1>4 DEF Half
<1>6. \A b \in 1..4 : b = 1 \/ b = 2 \/ b = 3 \/ b = 4
  OBVIOUS
<1>. QED
  BY <1>1, <1>2, <1>3, <1>5, <1>6

-----------------------------------------------------------------------------
(* Units of floats.                                                        *)

LEMMA UnitTypes ==
  /\ \A u \in Units : u \in Nat \ {0} /\ u <= 2 * Base
  /\ 1 \in Units /\ Base \in Units /\ 2 * Base \in Units
  /\ \A u \in Units : u = 1 \/ \E w \in Units : u = 2 * w
<1>1. \A u \in Units : u \in Nat \ {0} /\ u <= 2 * Base
  BY PcmConversionAssumption
<1>2. \A u \in Units : u % 2 = 0 => u = 2 * (u \div 2)
  BY <1>1
<1>3. \A u \in Units : u = 1 \/ \E w \in Units : u = 2 * w
  BY <1>2, PcmConversionAssumption
<1>4. Base \in Units
  <2>1. 2 * Base \in Units /\ 2 * Base # 1
    BY PcmConversionAssumption
  <2>2. PICK w \in Units : 2 * Base = 2 * w
    BY <1>3, <2>1
  <2>3. w = Base
    BY <1>1, <2>2, PcmConversionAssumption
  <2>. QED
    BY <2>3
<1>. QED
  BY <1>1, <1>3, <1>4, PcmConversionAssumption

\* A unit is a whole number of each that is no larger.
LEMMA UnitsNest ==
  ASSUME NEW s \in Units, NEW u \in Units, u <= s
  PROVE  Multiple(s, u)
<1>. DEFINE T == {t \in Units : \E v \in Units : v <= t /\ ~Multiple(t, v)}
<1>1. SUFFICES ASSUME T # {} PROVE FALSE
  OBVIOUS
<1>2. PICK t \in T : \A m \in T : t <= m
  <2>1. T \in SUBSET Nat
    BY UnitTypes
  <2>. HIDE DEF T
  <2>. QED
    BY <1>1, <2>1, LeastNumber
<1>3. PICK v \in Units : v <= t /\ ~Multiple(t, v)
  OBVIOUS
<1>4. t \in Nat \ {0} /\ v \in Nat \ {0} /\ t \in Units
  BY UnitTypes
<1>5. v # 1
  <2>1. t = t * 1
    BY <1>4
  <2>. QED
    BY <1>3, <1>4, <2>1 DEF Multiple
<1>6. PICK w \in Units : v = 2 * w
  BY <1>5, UnitTypes
<1>7. PICK r \in Units : t = 2 * r
  BY <1>3, <1>4, <1>5, UnitTypes
<1>8. w \in Nat \ {0} /\ r \in Nat \ {0}
  BY UnitTypes
<1>9. r < t /\ w <= r
  BY <1>3, <1>6, <1>7, <1>8
<1>10. r \notin T
  BY <1>2, <1>4, <1>8, <1>9
<1>11. PICK k \in Int : r = k * w
  BY <1>9, <1>10 DEF Multiple
<1>12. t = k * v
  BY <1>6, <1>7, <1>8, <1>11
<1>. QED
  BY <1>3, <1>12 DEF Multiple

LEMMA UnitsDouble ==
  ASSUME NEW s \in Units, NEW u \in Units, u < s
  PROVE  2 * u <= s
<1>1. s \in Nat \ {0} /\ u \in Nat \ {0}
  BY UnitTypes
<1>2. Multiple(s, u) /\ Multiple(u, u)
  <2>1. u = 1 * u
    BY <1>1
  <2>. QED
    BY <1>1, <2>1, UnitsNest DEF Multiple
<1>3. u + u <= s
  BY <1>1, <1>2, Multiples
<1>. QED
  BY <1>1, <1>3

Size(n) == IF n < 0 THEN -n ELSE n

\* Every number up to four times full scale has a unit.
LEMMA UnitChosen ==
  ASSUME NEW n \in Int, Size(n) < 4 * One
  PROVE  /\ UnitOf(n) \in Units
         /\ Size(n) < Values(3) * UnitOf(n)
         /\ UnitOf(n) = 1 \/ 2 * Size(n) >= Values(3) * UnitOf(n)
<1>. DEFINE T == {u \in Units : Size(n) < Values(3) * u}
<1>1. 2 * Base \in T
  <2>1. 2 * One = Values(4) /\ One \in Nat
    BY Halves DEF One
  <2>2. Values(3) * (2 * Base) = 2 * Values(4)
    BY Sizes
  <2>. QED
    BY <2>1, <2>2, UnitTypes
<1>2. PICK u \in T : \A m \in T : u <= m
  <2>1. T \in SUBSET Nat
    BY UnitTypes
  <2>. HIDE DEF T
  <2>. QED
    BY <1>1, <2>1, LeastNumber
<1>3. u = 1 \/ 2 * Size(n) >= Values(3) * u
  <2>1. SUFFICES ASSUME u # 1 PROVE 2 * Size(n) >= Values(3) * u
    OBVIOUS
  <2>2. PICK w \in Units : u = 2 * w
    BY <2>1, UnitTypes
  <2>3. w \in Nat \ {0} /\ w < u
    BY <2>2, UnitTypes
  <2>4. w \notin T
    BY <1>2, <2>3
  <2>5. Size(n) >= Values(3) * w
    <3>1. Size(n) \in Nat /\ Values(3) * w \in Nat
      BY <2>3, Sizes, Products DEF Size
    <3>. QED
      BY <2>4, <3>1
  <2>6. Values(3) * u = 2 * (Values(3) * w)
    BY <2>2, <2>3, Sizes
  <2>7. Size(n) \in Nat /\ Values(3) * w \in Nat
    BY <2>3, Sizes, Products DEF Size
  <2>. QED
    BY <2>5, <2>6, <2>7
<1>4. \E v \in Units : Size(n) < Values(3) * v /\ (v = 1 \/ 2 * Size(n) >= Values(3) * v)
  BY <1>3
<1>. QED
  BY <1>4 DEF UnitOf, Size

\* Rounding goes to a multiple of the unit that is no more than half of it away, and
\* never past another multiple.
LEMMA Rounds ==
  ASSUME NEW n \in Int, Size(n) < 4 * One
  PROVE  \E r \in Int, u \in Units :
           /\ r = RoundToFloat(n) /\ u = UnitOf(n)
           /\ Multiple(r, u) /\ 2 * (r - n) <= u /\ 2 * (n - r) <= u
           /\ \A m \in Int : Multiple(m, u) => (m <= n => m <= r) /\ (n <= m => r <= m)
<1>1. PICK u \in Units : u = UnitOf(n)
  BY UnitChosen
<1>2. u \in Nat \ {0}
  BY UnitTypes
<1>3. PICK q \in Int, e \in 0..(u - 1) : q = n \div u /\ e = n % u /\ n = q * u + e
  <2>1. n \div u \in Int /\ n % u \in 0..(u - 1) /\ n = (n \div u) * u + (n % u)
    BY <1>2, Division
  <2>. QED
    BY <2>1, Zenon
<1>4. PICK f \in Int : f = q * u
  BY <1>2, Products
<1>5. f + u = (q + 1) * u
  BY <1>2, <1>4, Products
<1>6. PICK r : r = RoundToFloat(n)
  OBVIOUS
<1>7. r = IF 2 * e < u \/ (2 * e = u /\ q % 2 = 0) THEN f ELSE f + u
  <2>1. r = IF 2 * e < u \/ (2 * e = u /\ q % 2 = 0) THEN q * u ELSE (q + 1) * u
    BY <1>1, <1>3, <1>6, Zenon DEF RoundToFloat
  <2>. QED
    BY <1>4, <1>5, <2>1, Zenon
<1>8. Multiple(f, u) /\ Multiple(f + u, u)
  BY <1>4, <1>5 DEF Multiple
<1>9. n = f + e /\ r \in {f, f + u}
  BY <1>3, <1>4, <1>7
<1>10. r \in Int /\ Multiple(r, u) /\ 2 * (r - n) <= u /\ 2 * (n - r) <= u
  BY <1>2, <1>7, <1>8, <1>9
<1>11. ASSUME NEW m \in Int, Multiple(m, u)
       PROVE  (m <= n => m <= r) /\ (n <= m => r <= m)
  <2>1. f < m => f + u <= m
    BY <1>2, <1>8, <1>11, Multiples
  <2>2. m <= n => m <= f
    BY <1>2, <1>9, <2>1
  <2>3. n <= m => r <= m
    BY <1>2, <1>7, <1>9, <2>1
  <2>. QED
    BY <1>2, <1>9, <2>2, <2>3
<1>. QED
  BY <1>1, <1>6, <1>10, <1>11

\* The numbers a float can have: a mantissa of three bytes, in one of the units.
Float(x) == \E u \in Units, k \in 0..Values(3) : Size(x) = k * u

\* A float that is as large as a unit's mantissas is a multiple of that unit.
LEMMA FillsUnit ==
  ASSUME NEW x \in Int, Float(x), NEW w \in Units, Values(3) * w <= 2 * Size(x)
  PROVE  Multiple(Size(x), w)
<1>1. PICK s \in Units, k \in 0..Values(3) : Size(x) = k * s
  BY DEF Float
<1>2. s \in Nat \ {0} /\ w \in Nat \ {0} /\ k \in Nat /\ Values(3) \in Nat \ {0}
  BY UnitTypes, Sizes
<1>3. k * s <= Values(3) * s
  BY <1>2, Products
<1>4. w <= 2 * s
  <2>1. Values(3) * w <= Values(3) * (2 * s)
    BY <1>1, <1>2, <1>3
  <2>2. ~(w >= 2 * s + 1)
    <3>1. w >= 2 * s + 1 => Values(3) * w >= Values(3) * (2 * s + 1)
      BY <1>2, Products
    <3>2. Values(3) * (2 * s + 1) = Values(3) * (2 * s) + Values(3)
      BY <1>2
    <3>. QED
      BY <1>2, <2>1, <3>1, <3>2
  <2>. QED
    BY <1>2, <2>2
<1>5. Multiple(k * s, s)
  <2>1. k \in Int
    BY <1>2
  <2>. QED
    BY <2>1, Zenon DEF Multiple
<1>6. CASE w <= s
  BY <1>1, <1>2, <1>5, <1>6, UnitsNest, MultiplesNest
<1>7. CASE w > s
  <2>1. w = 2 * s
    BY <1>2, <1>4, <1>7, UnitsDouble
  <2>2. Values(3) * s <= k * s
    <3>1. Values(3) * w = 2 * (Values(3) * s)
      BY <1>2, <2>1
    <3>. QED
      BY <1>1, <1>2, <3>1
  <2>3. PICK h \in Int : Values(3) = 2 * h
    BY Halves
  <2>4. k * s = h * w
    <3>1. k * s = Values(3) * s
      BY <1>2, <1>3, <2>2
    <3>2. (2 * h) * s = h * (2 * s)
      BY <1>2
    <3>. QED
      BY <2>1, <2>3, <3>1, <3>2, Zenon
  <2>. QED
    BY <1>1, <2>4 DEF Multiple
<1>. QED
  BY <1>2, <1>6, <1>7

\* What is rounded is a float, and a float is rounded to itself.
LEMMA RoundedIsFloat ==
  ASSUME NEW n \in Int, Size(n) < 4 * One
  PROVE  RoundToFloat(n) \in Int /\ Float(RoundToFloat(n))
<1>1. PICK r \in Int, u \in Units :
           /\ r = RoundToFloat(n) /\ u = UnitOf(n)
           /\ Multiple(r, u)
           /\ \A m \in Int : Multiple(m, u) => (m <= n => m <= r) /\ (n <= m => r <= m)
  BY Rounds
<1>2. u \in Nat \ {0} /\ Values(3) \in Nat
  BY UnitTypes, Sizes
<1>3. PICK top \in Int : top = Values(3) * u
  <2>1. Values(3) * u \in Int
    BY <1>2, Products
  <2>. QED
    BY <2>1, Zenon
<1>4. Multiple(top, u) /\ Multiple(-top, u) /\ -top \in Int
  <2>1. Multiple(top, u)
    <3>1. Values(3) \in Int
      BY <1>2
    <3>. QED
      BY <1>3, <3>1, Zenon DEF Multiple
  <2>. QED
    BY <1>2, <2>1, Multiples
<1>5. -top <= n /\ n <= top
  <2>1. Size(n) < top
    BY <1>1, <1>3, UnitChosen
  <2>. QED
    BY <2>1 DEF Size
<1>6. -top <= r /\ r <= top
  BY <1>1, <1>4, <1>5
<1>7. PICK k \in Int : Size(r) = k * u
  <2>1. Multiple(Size(r), u)
    BY <1>1, <1>2, Multiples DEF Size
  <2>. QED
    BY <2>1 DEF Multiple
<1>8. k \in 0..Values(3)
  <2>1. 0 <= k * u /\ k * u <= Values(3) * u
    BY <1>3, <1>6, <1>7 DEF Size
  <2>2. k < 0 => k * u < 0
    BY <1>2
  <2>3. k > Values(3) => k * u > Values(3) * u
    <3>1. k > Values(3) => k * u >= (Values(3) + 1) * u
      BY <1>2, Products
    <3>2. (Values(3) + 1) * u = Values(3) * u + u
      BY <1>2
    <3>. QED
      BY <1>2, <1>3, <3>1, <3>2
  <2>. QED
    BY <1>2, <2>1, <2>2, <2>3
<1>. QED
  BY <1>1, <1>7, <1>8 DEF Float

LEMMA FloatsStay ==
  ASSUME NEW x \in Int, Float(x), Size(x) < 4 * One
  PROVE  RoundToFloat(x) = x
<1>1. PICK r \in Int, u \in Units :
           /\ r = RoundToFloat(x) /\ u = UnitOf(x)
           /\ \A m \in Int : Multiple(m, u) => (m <= x => m <= r) /\ (x <= m => r <= m)
  BY Rounds
<1>2. u = 1 \/ Values(3) * u <= 2 * Size(x)
  <2>1. u = 1 \/ 2 * Size(x) >= Values(3) * u
    BY <1>1, UnitChosen
  <2>2. Values(3) * u \in Int /\ Size(x) \in Int
    BY UnitTypes, Sizes, Products DEF Size
  <2>. QED
    BY <2>1, <2>2
<1>3. Multiple(x, u)
  <2>1. CASE u = 1
    <3>1. x = x * 1
      OBVIOUS
    <3>. QED
      BY <2>1, <3>1 DEF Multiple
  <2>2. CASE Values(3) * u <= 2 * Size(x)
    <3>1. Multiple(Size(x), u) /\ u \in Nat \ {0} /\ Size(x) \in Int
      BY <2>2, FillsUnit, UnitTypes DEF Size
    <3>2. Multiple(-Size(x), u)
      BY <3>1, Multiples
    <3>3. x = Size(x) \/ x = -Size(x)
      BY DEF Size
    <3>. QED
      BY <3>1, <3>2, <3>3
  <2>. QED
    BY <1>2, <2>1, <2>2
<1>. QED
  BY <1>1, <1>3

\* Below three bytes' values every number is a float.
LEMMA SmallOnesStay ==
  ASSUME NEW n \in Int, Size(n) < Values(3)
  PROVE  RoundToFloat(n) = n
<1>1. Float(n)
  <2>1. 1 \in Units /\ Size(n) \in 0..Values(3) /\ Size(n) = Size(n) * 1
    BY UnitTypes, Sizes DEF Size
  <2>. QED
    BY <2>1, Zenon DEF Float
<1>2. Size(n) < 4 * One
  <2>1. 2 * One = Values(4) /\ Values(4) = Values(3) * Base /\ One \in Nat
    BY Sizes, Halves DEF One
  <2>2. Values(3) * Base >= Values(3) * 1
    BY Sizes, Products
  <2>3. Size(n) \in Int /\ Values(3) \in Nat
    BY Sizes DEF Size
  <2>. QED
    BY <2>1, <2>2, <2>3
<1>. QED
  BY <1>1, <1>2, FloatsStay

\* Up to full scale a float is off by half of the unit it has there at most, and on
\* the same side of every whole number of epsilons.
LEMMA RoundsNear ==
  ASSUME NEW x \in -One..One
  PROVE  /\ RoundToFloat(x) \in Int
         /\ 4 * (RoundToFloat(x) - x) <= Base /\ 4 * (x - RoundToFloat(x)) <= Base
         /\ \A m \in Int : Multiple(m, Base) =>
              (m <= x => m <= RoundToFloat(x)) /\ (x <= m => RoundToFloat(x) <= m)
<1>0. /\ One \in Nat \ {0} /\ 2 * One = Values(3) * Base /\ Base \in Nat \ {0}
      /\ Values(3) \in Nat \ {0} /\ Multiple(One, Base)
  <2>1. /\ One \in Nat \ {0} /\ 2 * One = Values(3) * Base /\ Base \in Nat \ {0}
        /\ Values(3) \in Nat \ {0}
    BY Sizes, Halves DEF One
  <2>2. PICK h \in Nat : One = h * Values(3)
    BY Halves DEF One
  <2>3. One = (h * Values(2)) * Base
    BY <2>2, Sizes
  <2>4. h * Values(2) \in Int
    BY Sizes, Products
  <2>. QED
    BY <2>1, <2>3, <2>4, Zenon DEF Multiple
<1>1. x \in Int /\ Size(x) <= One /\ Size(x) < 4 * One
  BY <1>0 DEF Size
<1>2. PICK r \in Int, u \in Units :
           /\ r = RoundToFloat(x) /\ u = UnitOf(x)
           /\ 2 * (r - x) <= u /\ 2 * (x - r) <= u
           /\ \A m \in Int : Multiple(m, u) => (m <= x => m <= r) /\ (x <= m => r <= m)
  BY <1>1, Rounds
<1>3. u \in Nat \ {0} /\ (u = 1 \/ Values(3) * u <= 2 * Size(x))
  <2>1. u = 1 \/ 2 * Size(x) >= Values(3) * u
    BY <1>1, <1>2, UnitChosen
  <2>2. u \in Nat \ {0} /\ Values(3) * u \in Int /\ Size(x) \in Int
    BY <1>1, UnitTypes, Sizes, Products DEF Size
  <2>. QED
    BY <2>1, <2>2
<1>4. u <= Base
  <2>1. CASE u = 1
    BY <2>1, <1>0
  <2>2. CASE Values(3) * u <= 2 * Size(x)
    <3>1. Values(3) * u <= Values(3) * Base
      BY <1>0, <1>1, <1>3, <2>2 DEF Size
    <3>2. u > Base => Values(3) * u >= Values(3) * Base + Values(3)
      <4>1. u > Base => Values(3) * u >= Values(3) * (Base + 1)
        BY <1>0, <1>3, Products
      <4>2. Values(3) * (Base + 1) = Values(3) * Base + Values(3)
        BY <1>0
      <4>. QED
        BY <4>1, <4>2
    <3>. QED
      BY <1>0, <1>3, <3>1, <3>2
  <2>. QED
    BY <1>3, <2>1, <2>2
<1>5. Multiple(Base, u)
  BY <1>4, UnitsNest, UnitTypes
<1>6. \A m \in Int : Multiple(m, Base) => (m <= x => m <= r) /\ (x <= m => r <= m)
  <2>1. Base \in Int /\ u \in Int
    BY <1>0, <1>3
  <2>2. \A m \in Int : Multiple(m, Base) => Multiple(m, u)
    BY <1>5, <2>1, MultiplesNest
  <2>. QED
    BY <1>2, <2>2
<1>7. 4 * (r - x) <= Base /\ 4 * (x - r) <= Base
  <2>1. CASE u < Base
    <3>1. 2 * u <= Base
      BY <2>1, UnitsDouble, UnitTypes
    <3>. QED
      BY <1>0, <1>1, <1>2, <1>3, <3>1
  <2>2. CASE u = Base
    <3>1. u # 1
      BY <2>2, PcmConversionAssumption
    <3>2. 2 * One <= 2 * Size(x)
      BY <1>0, <1>3, <2>2, <3>1
    <3>3. x = One \/ x = -One
      BY <1>0, <1>1, <3>2 DEF Size
    <3>4. Multiple(-One, Base) /\ -One \in Int /\ One \in Int
      BY <1>0, Multiples
    <3>5. r = x
      BY <1>0, <1>1, <1>2, <1>6, <3>3, <3>4
    <3>. QED
      BY <1>0, <1>1, <3>5
  <2>. QED
    BY <1>0, <1>3, <1>4, <2>1, <2>2
<1>. QED
  BY <1>2, <1>6, <1>7

\* Half a unit added to a float of the finest units and rounded: a unit too much at
\* most, and only to odd numbers too large for it.
LEMMA RoundsFine ==
  ASSUME NEW z \in 0..One, Float(z)
  PROVE  \E c \in {z, z + 1} : /\ RoundToFloat(2 * z + 1) \div 2 = c
                              /\ (z % 2 = 0 \/ z <= Half(3) => c = z)
<1>0. z \in Nat /\ One \in Nat \ {0} /\ Size(z) = z
  BY Halves DEF One, Size
<1>. DEFINE n == 2 * z + 1
<1>1. n \in Int /\ Size(n) = n /\ Size(n) < 4 * One
  BY <1>0 DEF Size
<1>2. PICK u \in Units : u = UnitOf(n) /\ (u = 1 \/ 2 * n >= Values(3) * u)
  BY <1>1, UnitChosen
<1>3. \A x \in Nat : (2 * x) \div 2 = x /\ (2 * x + 1) \div 2 = x /\ (2 * x + 2) \div 2 = x + 1
  OBVIOUS
<1>4. CASE u = 1
  <2>1. RoundToFloat(n) = n
    <3>1. PICK r \in Int, v \in Units :
           /\ r = RoundToFloat(n) /\ v = UnitOf(n)
           /\ 2 * (r - n) <= v /\ 2 * (n - r) <= v
      BY <1>1, Rounds
    <3>2. v = 1
      BY <1>2, <1>4, <3>1
    <3>3. r = n
      BY <1>0, <3>1, <3>2
    <3>. QED
      BY <3>1, <3>3
  <2>. QED
    BY <1>0, <1>3, <2>1
<1>5. CASE u # 1
  <2>1. PICK w \in Units : u = 2 * w
    BY <1>5, UnitTypes
  <2>2. /\ w \in Nat \ {0} /\ Values(3) \in Nat \ {0} /\ Values(3) = 2 * Half(3)
        /\ Half(3) \in Nat \ {0}
    BY UnitTypes, Sizes, Halves
  <2>3. PICK p \in Nat : p = Half(3) * w
    <3>1. Half(3) * w \in Nat
      BY <2>2
    <3>. QED
      BY <3>1, Zenon
  <2>4. Values(3) * w = 2 * p /\ Values(3) * u = 4 * p
    BY <2>1, <2>2, <2>3
  <2>5. p <= z
    BY <1>0, <1>2, <1>5, <2>4
  <2>6. Multiple(z, w)
    <3>1. Values(3) * w <= 2 * Size(z)
      BY <1>0, <2>4, <2>5
    <3>. QED
      BY <1>0, <3>1, FillsUnit
  <2>7. PICK j \in Int : z = j * w
    BY <2>6 DEF Multiple
  <2>8. n = j * u + 1
    BY <1>0, <2>1, <2>2, <2>7
  <2>9. n \div u = j /\ n % u = 1
    <3>1. u \in Nat \ {0} /\ 1 \in 0..(u - 1)
      BY <2>1, <2>2
    <3>2. (j * u + 1) \div u = j /\ (j * u + 1) % u = 1
      BY <3>1, Quotient
    <3>. QED
      BY <2>8, <3>2, Zenon
  <2>10. RoundToFloat(n) = IF 2 * 1 < u \/ (2 * 1 = u /\ j % 2 = 0) THEN j * u ELSE (j + 1) * u
    BY <1>2, <2>9, Zenon DEF RoundToFloat
  <2>11. j * u = 2 * z
    BY <1>0, <2>1, <2>2, <2>7
  <2>12. CASE w # 1
    <3>1. 2 * 1 < u
      BY <2>1, <2>2, <2>12
    <3>2. RoundToFloat(n) = 2 * z
      BY <2>10, <2>11, <3>1, Zenon
    <3>. QED
      BY <1>0, <1>3, <3>2
  <2>13. CASE w = 1
    <3>1. j = z /\ u = 2
      BY <1>0, <2>1, <2>7, <2>13
    <3>2. RoundToFloat(n) = IF z % 2 = 0 THEN 2 * z ELSE 2 * z + 2
      BY <1>0, <2>10, <3>1
    <3>3. z <= Half(3) => z % 2 = 0
      <4>1. PICK k \in Nat : Half(3) = 2 * k
        <5>1. PICK h \in Nat \ {0} : Base = 2 * h /\ Half(3) = h * Values(2)
          BY Halves
        <5>2. Half(3) = 2 * (h * (h * Base))
          BY <5>1, Sizes
        <5>3. h * (h * Base) \in Nat
          BY <5>1, Sizes, Products
        <5>. QED
          BY <5>2, <5>3, Zenon
      <4>2. p = Half(3)
        BY <2>2, <2>3, <2>13
      <4>. QED
        BY <1>0, <2>5, <4>1, <4>2
    <3>. QED
      BY <1>0, <1>3, <3>2, <3>3
  <2>. QED
    BY <2>12, <2>13
<1>. QED
  BY <1>4, <1>5

\* In coarser units than epsilon the rounding of the float does not count.
LEMMA RoundsCoarse ==
  ASSUME NEW z \in 0..One, NEW s \in Nat, Base < s, s <= One
  PROVE  \E c \in Int : /\ c = RoundToFloat(2 * z + s) \div (2 * s)
                        /\ 2 * (c * s - z) <= s + Base /\ 2 * (z - c * s) <= s + Base
                        /\ (Multiple(z, s) => c * s = z)
<1>0. z \in Nat /\ One \in Nat \ {0} /\ Base \in Nat /\ s \in Nat \ {0}
  BY Sizes, Halves DEF One
<1>. DEFINE n == 2 * z + s
<1>1. n \in Int /\ Size(n) = n /\ Size(n) < 4 * One
  BY <1>0 DEF Size
<1>2. PICK r \in Int, u \in Units :
           r = RoundToFloat(n) /\ 2 * (r - n) <= u /\ 2 * (n - r) <= u
  BY <1>1, Rounds
<1>3. r - n <= Base /\ n - r <= Base
  BY <1>0, <1>2, UnitTypes
<1>4. PICK c \in Int, e \in 0..(2 * s - 1) : c = r \div (2 * s) /\ r = c * (2 * s) + e
  <2>1. 2 * s \in Nat \ {0}
    BY <1>0
  <2>2. /\ r \div (2 * s) \in Int /\ r % (2 * s) \in 0..(2 * s - 1)
        /\ r = (r \div (2 * s)) * (2 * s) + (r % (2 * s))
    BY <2>1, Division
  <2>. QED
    BY <2>2, Zenon
<1>5. PICK y \in Int : y = c * s
  <2>1. c * s \in Int
    BY <1>0, Products
  <2>. QED
    BY <2>1, Zenon
<1>6. r = 2 * y + e
  BY <1>0, <1>4, <1>5
<1>7. 2 * (y - z) <= s + Base /\ 2 * (z - y) <= s + Base
  BY <1>0, <1>3, <1>6
<1>8. ASSUME Multiple(z, s)
      PROVE  y = z
  <2>1. Multiple(y, s)
    BY <1>5 DEF Multiple
  <2>2. (y < z => y + s <= z) /\ (z < y => z + s <= y)
    BY <1>0, <1>8, <2>1, Multiples
  <2>. QED
    BY <1>0, <1>7, <2>2
<1>9. c = RoundToFloat(n) \div (2 * s)
  BY <1>2, <1>4, Zenon
<1>. QED
  BY <1>5, <1>7, <1>8, <1>9

-----------------------------------------------------------------------------
(* The bounds of floats that become integers.                              *)

LEMMA Steps ==
  /\ Step(4) = 1 /\ Step(3) = Base /\ Step(2) = Values(2) /\ Step(1) = Values(3)
  /\ \A b \in 1..4 : Step(b) \in Nat \ {0} /\ One = Half(b) * Step(b)
  /\ One \in Nat \ {0} /\ 2 * One = Values(4) /\ Multiple(One, Base) /\ Multiple(Base, 2)
  /\ Base < Values(2) /\ Values(2) < Values(3) /\ 2 * Values(3) <= One
  /\ Multiple(Values(2), Base) /\ Multiple(Values(3), Values(2))
<1>1. Step(4) = 1 /\ Step(3) = Base /\ Step(2) = Values(2) /\ Step(1) = Values(3)
  BY Sizes DEF Step
<1>2. PICK h \in Nat \ {0} : /\ h >= 2 /\ Base = 2 * h
                           /\ Half(1) = h /\ Half(2) = h * Base /\ Half(3) = h * Values(2)
                           /\ Half(4) = h * Values(3)
  BY Halves
<1>3. One = Half(1) * Values(3) /\ One = Half(2) * Values(2) /\ One = Half(3) * Base
      /\ One = Half(4) * 1
  <2>1. One = h * Values(3) /\ Values(3) = Values(2) * Base /\ Values(2) = Base * Base
    BY <1>2, Sizes DEF One
  <2>2. Values(2) \in Nat \ {0} /\ Values(3) \in Nat \ {0} /\ Base \in Nat \ {0}
    BY Sizes
  <2>3. h * Values(3) = (h * Base) * Values(2) /\ h * Values(3) = (h * Values(2)) * Base
    BY <2>1, <2>2
  <2>4. Half(4) \in Nat
    BY Halves
  <2>. QED
    BY <1>2, <2>1, <2>3, <2>4 DEF One
<1>4. \A b \in 1..4 : Step(b) \in Nat \ {0} /\ One = Half(b) * Step(b)
  <2>1. \A b \in 1..4 : b = 1 \/ b = 2 \/ b = 3 \/ b = 4
    OBVIOUS
  <2>2. \A b \in 1..4 : Step(b) \in Nat \ {0}
    BY <1>1, <2>1, Sizes
  <2>3. \A b \in 1..4 : One = Half(b) * Step(b)
    BY <1>1, <1>3, <2>1, Zenon
  <2>. QED
    BY <2>2, <2>3
<1>5. One \in Nat \ {0} /\ 2 * One = Values(4)
  BY Halves DEF One
<1>6. Multiple(One, Base) /\ Multiple(Base, 2)
  <2>1. Half(3) \in Int /\ h \in Int /\ Base = h * 2
    BY <1>2, Halves
  <2>. QED
    BY <1>3, <2>1, Zenon DEF Multiple
<1>7. Base < Values(2) /\ Values(2) < Values(3) /\ 2 * Values(3) <= One
  <2>1. \A x \in Nat \ {0} : x < x * Base
    BY Sizes
  <2>2. Base < Base * Base /\ Values(2) < Values(2) * Base
    BY <2>1, Sizes
  <2>3. 2 * Values(3) <= h * Values(3)
    BY <1>2, Sizes, Products
  <2>. QED
    BY <1>2, <2>2, <2>3, Sizes DEF One
<1>8. Multiple(Values(2), Base) /\ Multiple(Values(3), Values(2))
  <2>1. Values(2) = Base * Base /\ Values(3) = Base * Values(2) /\ Base \in Int
    BY Sizes
  <2>. QED
    BY <2>1, Zenon DEF Multiple
<1>. QED
  BY <1>1, <1>4, <1>5, <1>6, <1>7, <1>8

\* Full scale, and an epsilon less, are floats.
LEMMA EndsAreFloats == Float(-One) /\ Float(One - Base)
<1>1. /\ One = Half(3) * Base /\ Half(3) \in Nat \ {0} /\ Values(3) = 2 * Half(3)
      /\ Base \in Nat \ {0} /\ Base \in Units /\ One \in Nat \ {0} /\ Base < One
  BY Steps, Sizes, Halves, UnitTypes
<1>2. Size(-One) = Half(3) * Base /\ Size(One - Base) = (Half(3) - 1) * Base
  BY <1>1 DEF Size
<1>3. Half(3) \in 0..Values(3) /\ Half(3) - 1 \in 0..Values(3)
  BY <1>1
<1>. QED
  BY <1>1, <1>2, <1>3, Zenon DEF Float

\* What FloatToFixed makes of a float, clipped at full scale.
Clipped(x, b) == Clamp(x, -One, One - Larger(Step(b), Epsilon))

LEMMA ClippedFloats ==
  ASSUME NEW x \in Int, Float(x), NEW b \in {1, 2, 4}
  PROVE  /\ Clipped(x, b) \in -One..(One - Step(b)) /\ Size(Clipped(x, b)) \in 0..One
         /\ b = 4 => Clipped(x, b) <= One - Base /\ Float(Size(Clipped(x, b)))
<1>1. Larger(Step(b), Epsilon) = (IF b = 4 THEN Base ELSE Step(b))
  BY Steps, Sizes DEF Larger, Epsilon
<1>2. /\ One \in Nat \ {0} /\ Base \in Nat \ {0} /\ Base < One /\ Step(b) \in Nat \ {0}
      /\ Step(b) <= One /\ (b = 4 => Step(b) = 1)
  BY Steps, Sizes
<1>3. /\ Clipped(x, b) \in -One..(One - Step(b)) /\ Size(Clipped(x, b)) \in 0..One
      /\ b = 4 => Clipped(x, b) <= One - Base
      /\ b = 4 => Clipped(x, b) \in {x, -One, One - Base}
  BY <1>1, <1>2 DEF Clipped, Clamp, Size
<1>4. b = 4 => Float(Clipped(x, b))
  BY <1>3, EndsAreFloats
<1>5. Size(Size(Clipped(x, b))) = Size(Clipped(x, b))
  BY <1>3 DEF Size
<1>6. b = 4 => Float(Size(Clipped(x, b)))
  BY <1>4, <1>5, Zenon DEF Float
<1>. QED
  BY <1>3, <1>6

\* To 32 bits: a unit off at most, and on the same side of all even levels.
LEMMA FixedFine ==
  ASSUME NEW x \in Int, Float(x)
  PROVE  \E y \in Int :
           /\ y = FloatToFixed(x, 4) /\ y - Clipped(x, 4) \in -1..1
           /\ Clipped(x, 4) % 2 = 0 \/ Size(Clipped(x, 4)) <= Half(3) => y = Clipped(x, 4)
           /\ \A m \in Int : m % 2 = 0 =>
                (m <= Clipped(x, 4) => m <= y) /\ (Clipped(x, 4) <= m => y <= m)
<1>1. PICK p \in Int, z \in 0..One : p = Clipped(x, 4) /\ z = Size(p) /\ Float(z)
  <2>1. Clipped(x, 4) \in Int /\ Size(Clipped(x, 4)) \in 0..One /\ Float(Size(Clipped(x, 4)))
    BY ClippedFloats, Steps
  <2>. QED
    BY <2>1, Zenon
<1>2. PICK c \in {z, z + 1} : /\ RoundToFloat(2 * z + 1) \div 2 = c
                            /\ (z % 2 = 0 \/ z <= Half(3) => c = z)
  BY <1>1, RoundsFine, Zenon
<1>3. Step(4) = 1 /\ One \in Nat /\ z \in Nat /\ c \in Nat
  BY Steps
<1>12. RoundToFloat(2 * z + 1) \div 2 = c
  BY <1>2
<1>13. (z % 2 = 0 \/ z <= Half(3)) => c = z
  BY <1>2
<1>4. FloatToFixed(x, 4) = RoundCast(p, 1)
  BY <1>1, <1>3, Zenon DEF FloatToFixed, Clipped
<1>5. RoundCast(p, 1) = IF p > 0 THEN c ELSE -c
  <2>1. CASE p > 0
    <3>1. 2 * p + 1 = 2 * z + 1 /\ 2 * 1 = 2
      BY <1>1, <2>1 DEF Size
    <3>. QED
      <4>1. RoundCast(p, 1) = RoundToFloat(2 * p + 1) \div (2 * 1)
        BY <2>1 DEF RoundCast
      <4>2. RoundToFloat(2 * p + 1) = RoundToFloat(2 * z + 1)
        BY <3>1, Zenon
      <4>3. RoundCast(p, 1) = c
        BY <1>12, <3>1, <4>1, <4>2, Zenon
      <4>. QED
        BY <2>1, <4>3, Zenon
  <2>2. CASE ~(p > 0)
    <3>1. 1 - 2 * p = 2 * z + 1 /\ 2 * 1 = 2
      BY <1>1, <2>2 DEF Size
    <3>. QED
      <4>1. RoundCast(p, 1) = -(RoundToFloat(1 - 2 * p) \div (2 * 1))
        BY <2>2 DEF RoundCast
      <4>2. RoundToFloat(1 - 2 * p) = RoundToFloat(2 * z + 1)
        BY <3>1, Zenon
      <4>3. RoundCast(p, 1) = -c
        BY <1>12, <3>1, <4>1, <4>2, Zenon
      <4>. QED
        BY <2>2, <4>3, Zenon
  <2>. QED
    BY <2>1, <2>2
<1>6. PICK y \in Int : y = (IF p > 0 THEN c ELSE -c)
  BY <1>3
<1>7. p % 2 = 0 <=> z % 2 = 0
  BY <1>1 DEF Size
<1>8. y - p \in -1..1 /\ (p % 2 = 0 \/ z <= Half(3) => y = p)
  <2>1. y - p \in -1..1 /\ (c = z => y = p)
    BY <1>1, <1>3, <1>6 DEF Size
  <2>2. p % 2 = 0 \/ z <= Half(3) => c = z
    BY <1>13, <1>7, Zenon
  <2>. QED
    BY <2>1, <2>2, Zenon
<1>9. ASSUME NEW m \in Int, m % 2 = 0
      PROVE  (m <= p => m <= y) /\ (p <= m => y <= m)
  <2>1. CASE p % 2 = 0
    BY <1>8, <2>1
  <2>2. CASE p % 2 # 0
    <3>1. p # m
      BY <1>9, <2>2
    <3>. QED
      BY <1>8, <3>1
  <2>. QED
    BY <2>1, <2>2
<1>10. y = FloatToFixed(x, 4)
  BY <1>4, <1>5, <1>6
<1>. QED
  BY <1>1, <1>8, <1>9, <1>10

\* To 16 and 8 bits: off by little more than half a unit.
LEMMA FixedCoarse ==
  ASSUME NEW x \in Int, Float(x), NEW b \in {1, 2}
  PROVE  \E y \in Int :
           /\ y = FloatToFixed(x, b) * Step(b) /\ FloatToFixed(x, b) \in Int
           /\ 2 * (y - Clipped(x, b)) <= Step(b) + Base /\ 2 * (Clipped(x, b) - y) <= Step(b) + Base
           /\ Multiple(Clipped(x, b), Step(b)) => y = Clipped(x, b)
<1>1. PICK p \in Int, z \in 0..One : p = Clipped(x, b) /\ z = Size(p)
  <2>1. Clipped(x, b) \in Int /\ Size(Clipped(x, b)) \in 0..One
    BY ClippedFloats, Steps
  <2>. QED
    BY <2>1, Zenon
<1>2. PICK s \in Nat \ {0} : s = Step(b) /\ Base < s /\ s <= One
  <2>1. Step(b) \in Nat \ {0} /\ Base < Step(b) /\ Step(b) <= One
    BY Steps, Sizes
  <2>. QED
    BY <2>1, Zenon
<1>3. PICK c \in Int : /\ c = RoundToFloat(2 * z + s) \div (2 * s)
                     /\ 2 * (c * s - z) <= s + Base /\ 2 * (z - c * s) <= s + Base
                     /\ (Multiple(z, s) => c * s = z)
  BY <1>2, RoundsCoarse
<1>4. PICK d \in Int : d = c * s
  <2>1. c * s \in Int
    BY <1>2, Products
  <2>. QED
    BY <2>1, Zenon
<1>11. c = RoundToFloat(2 * z + s) \div (2 * s)
  BY <1>3, Zenon
<1>5. FloatToFixed(x, b) = RoundCast(p, s)
  BY <1>1, <1>2, Zenon DEF FloatToFixed, Clipped
<1>6. RoundCast(p, s) = IF p > 0 THEN c ELSE -c
  <2>1. CASE p > 0
    <3>1. 2 * p + s = 2 * z + s
      BY <1>1, <2>1 DEF Size
    <3>. QED
      <4>1. RoundCast(p, s) = RoundToFloat(2 * p + s) \div (2 * s)
        BY <2>1 DEF RoundCast
      <4>2. RoundToFloat(2 * p + s) = RoundToFloat(2 * z + s)
        BY <3>1, Zenon
      <4>3. RoundCast(p, s) = c
        BY <1>11, <4>1, <4>2, Zenon
      <4>. QED
        BY <2>1, <4>3, Zenon
  <2>2. CASE ~(p > 0)
    <3>1. s - 2 * p = 2 * z + s
      BY <1>1, <1>2, <2>2 DEF Size
    <3>. QED
      <4>1. RoundCast(p, s) = -(RoundToFloat(s - 2 * p) \div (2 * s))
        BY <2>2 DEF RoundCast
      <4>2. RoundToFloat(s - 2 * p) = RoundToFloat(2 * z + s)
        BY <3>1, Zenon
      <4>3. RoundCast(p, s) = -c
        BY <1>11, <4>1, <4>2, Zenon
      <4>. QED
        BY <2>2, <4>3, Zenon
  <2>. QED
    BY <2>1, <2>2
<1>7. PICK y \in Int : y = (IF p > 0 THEN d ELSE -d)
  BY <1>4
<1>8. y = FloatToFixed(x, b) * Step(b) /\ FloatToFixed(x, b) \in Int
  <2>1. (-c) * s = -(c * s)
    BY <1>2
  <2>2. CASE p > 0
    BY <1>2, <1>4, <1>5, <1>6, <1>7, <2>2, Zenon
  <2>3. CASE ~(p > 0)
    <3>1. y = (-c) * s
      BY <1>4, <1>7, <2>1, <2>3, Zenon
    <3>2. RoundCast(p, s) = -c /\ -c \in Int
      BY <1>6, <2>3
    <3>. QED
      BY <1>2, <1>5, <3>1, <3>2, Zenon
  <2>. QED
    BY <2>2, <2>3, Zenon
<1>9. 2 * (y - p) <= s + Base /\ 2 * (p - y) <= s + Base
  <2>1. 2 * (d - z) <= s + Base /\ 2 * (z - d) <= s + Base
    BY <1>3, <1>4, Zenon
  <2>2. Base \in Nat
    BY Sizes
  <2>. QED
    BY <1>1, <1>2, <1>4, <1>7, <2>1, <2>2 DEF Size
<1>10. ASSUME Multiple(p, s)
       PROVE  y = p
  <2>1. Multiple(z, s)
    BY <1>1, <1>2, <1>10, Multiples DEF Size
  <2>2. d = z
    BY <1>3, <1>4, <2>1
  <2>. QED
    BY <1>1, <1>7, <2>2 DEF Size
<1>. QED
  BY <1>1, <1>2, <1>8, <1>9, <1>10

LEMMA Ratios ==
  ASSUME NEW b \in 1..4, NEW c \in 1..4, c <= b
  PROVE  /\ Values(b - c) \in Nat \ {0}
         /\ Half(b) = Half(c) * Values(b - c) /\ Step(c) = Values(b - c) * Step(b)
         /\ Multiple(Step(c), Step(b))
<1>1. /\ b - c = 0 => c = b
      /\ b - c = 1 => <<c, b>> \in {<<1, 2>>, <<2, 3>>, <<3, 4>>}
      /\ b - c = 2 => <<c, b>> \in {<<1, 3>>, <<2, 4>>}
      /\ b - c = 3 => c = 1 /\ b = 4
      /\ b - c \in {0, 1, 2, 3}
  OBVIOUS
<1>2. PICK h \in Nat \ {0} : /\ h >= 2 /\ Base = 2 * h
                           /\ Half(1) = h /\ Half(2) = h * Base /\ Half(3) = h * Values(2)
                           /\ Half(4) = h * Values(3)
  BY Halves
<1>3. /\ Values(0) = 1 /\ Values(1) = Base /\ Values(2) = Base * Base
      /\ Values(3) = Base * (Base * Base)
      /\ Step(4) = 1 /\ Step(3) = Base /\ Step(2) = Base * Base /\ Step(1) = Base * (Base * Base)
      /\ \A i \in 1..4 : Step(i) \in Nat \ {0} /\ Half(i) \in Nat \ {0}
  BY Sizes, Steps, Halves, Products
<1>4. /\ Half(2) = Half(1) * Base /\ Half(3) = Half(2) * Base /\ Half(4) = Half(3) * Base
      /\ Half(3) = Half(1) * Values(2) /\ Half(4) = Half(2) * Values(2)
      /\ Half(4) = Half(1) * Values(3)
  BY <1>2, <1>3, Products
<1>5. Values(b - c) \in Nat \ {0}
  BY Sizes
<1>6. Half(b) = Half(c) * Values(b - c)
  <2>1. CASE b - c = 0
    <3>1. Half(c) * 1 = Half(c)
      BY <1>3
    <3>. QED
      BY <1>1, <1>3, <2>1, <3>1, Zenon
  <2>2. CASE b - c = 1
    BY <1>1, <1>3, <1>4, <2>2
  <2>3. CASE b - c = 2
    BY <1>1, <1>3, <1>4, <2>3
  <2>4. CASE b - c = 3
    BY <1>1, <1>3, <1>4, <2>4
  <2>. QED
    BY <1>1, <2>1, <2>2, <2>3, <2>4
<1>7. Step(c) = Values(b - c) * Step(b)
  <2>1. CASE b - c = 0
    <3>1. 1 * Step(c) = Step(c)
      BY <1>3
    <3>. QED
      BY <1>1, <1>3, <2>1, <3>1, Zenon
  <2>2. CASE b - c = 1
    BY <1>1, <1>3, <2>2
  <2>3. CASE b - c = 2
    BY <1>1, <1>3, <2>3
  <2>4. CASE b - c = 3
    BY <1>1, <1>3, <2>4
  <2>. QED
    BY <1>1, <2>1, <2>2, <2>3, <2>4
<1>. QED
  BY <1>5, <1>6, <1>7 DEF Multiple

\* The numbers of steps there are, and the levels they are at.
LEMMA WholeLevels ==
  ASSUME NEW b \in 1..4, NEW d \in Int
  PROVE  /\ d * Step(b) \in Int /\ Multiple(d * Step(b), Step(b))
         /\ d * Step(b) \in -One..(One - 1) <=> d \in -Half(b)..(Half(b) - 1)
<1>1. PICK s \in Nat \ {0}, h \in Nat \ {0} : s = Step(b) /\ h = Half(b) /\ One = h * s
  <2>1. Step(b) \in Nat \ {0} /\ Half(b) \in Nat \ {0} /\ One = Half(b) * Step(b)
    BY Steps, Halves
  <2>. QED
    BY <2>1, Zenon
<1>2. PICK x \in Int : x = d * s
  <2>1. d * s \in Int
    BY Products
  <2>. QED
    BY <2>1, Zenon
<1>3. (-h) * s = -(h * s) /\ (h - 1) * s = h * s - s
  OBVIOUS
<1>4. ASSUME d \in -h..(h - 1)
      PROVE  x \in -One..(One - 1)
  <2>1. (-h) * s <= d * s /\ d * s <= (h - 1) * s
    BY <1>4, Products
  <2>. QED
    BY <1>1, <1>2, <1>3, <2>1
<1>5. ASSUME x \in -One..(One - 1)
      PROVE  d \in -h..(h - 1)
  <2>1. d < h
    <3>1. SUFFICES ASSUME d >= h PROVE FALSE
      OBVIOUS
    <3>2. h * s <= d * s
      BY <3>1, Products
    <3>. QED
      BY <1>1, <1>2, <1>5, <3>2
  <2>2. d >= -h
    <3>1. SUFFICES ASSUME d <= -h - 1 PROVE FALSE
      OBVIOUS
    <3>2. d * s <= (-h - 1) * s /\ (-h - 1) * s = -(h * s) - s
      BY <3>1, Products
    <3>. QED
      BY <1>1, <1>2, <1>5, <3>2
  <2>. QED
    BY <2>1, <2>2
<1>6. d * Step(b) \in Int /\ Multiple(d * Step(b), Step(b))
  BY <1>1, <1>2, Zenon DEF Multiple
<1>7. d * Step(b) \in -One..(One - 1) <=> d \in -Half(b)..(Half(b) - 1)
  BY <1>1, <1>2, <1>4, <1>5, Zenon
<1>. QED
  BY <1>6, <1>7

-----------------------------------------------------------------------------
(* The level a value stands for, and what conversions make of it.          *)

Kind(t) ==
  /\ t.number \in {"signed", "unsigned", "float"}
  /\ t.bytes \in IF t.number = "float" THEN {4} ELSE {1, 2, 4}

Zero(t) == IF t.number = "unsigned" THEN Half(t.bytes) ELSE 0

\* The levels of the values of a type.
Fits(x, t) ==
  IF t.number = "float" THEN x \in Int /\ Float(x) /\ Size(x) < 4 * One
  ELSE x \in -One..(One - 1) /\ Multiple(x, Step(t.bytes))

Stands(v, x, t) ==
  Fits(x, t) /\ v \in Int /\ (v - Zero(t)) * Step(t.bytes) = x

LEMMA ZeroInNat ==
  ASSUME NEW t, Kind(t)
  PROVE  Zero(t) \in Nat /\ t.bytes \in 1..4 /\ Step(t.bytes) \in Nat \ {0}
<1>1. t.bytes \in 1..4
  BY DEF Kind
<1>2. Half(t.bytes) \in Nat /\ Step(t.bytes) \in Nat \ {0}
  BY <1>1, Halves, Steps
<1>. QED
  BY <1>1, <1>2 DEF Zero

\* Between integers: the level below that the other has.
LEMMA ShiftsLevel ==
  ASSUME NEW t, Kind(t), t.number # "float", NEW u, Kind(u), u.number # "float",
         NEW v, NEW x, Stands(v, x, t)
  PROVE  \E y \in Int : /\ Stands(ConvertTo(u, v, t), y, u)
                        /\ x - y \in 0..(Step(u.bytes) - 1)
                        /\ (Multiple(x, Step(u.bytes)) => y = x)
<1>1. PICK d \in Int : d = v - Zero(t)
  <2>1. v - Zero(t) \in Int
    BY ZeroInNat DEF Stands
  <2>. QED
    BY <2>1, Zenon
<1>2. /\ x = d * Step(t.bytes) /\ x \in -One..(One - 1) /\ x \in Int /\ v \in Int
      /\ Zero(t) \in Nat /\ Zero(u) \in Nat
      /\ t.bytes \in 1..4 /\ u.bytes \in 1..4 /\ One \in Nat
  BY <1>1, ZeroInNat, Steps DEF Stands, Fits
<1>3. PICK a \in 1..4, b \in 1..4 : a = t.bytes /\ b = u.bytes
  BY <1>2
<1>4. PICK s \in Nat \ {0}, r \in Nat \ {0} : s = Step(a) /\ r = Step(b)
  BY Steps
<1>5. PICK w \in Nat : w = IF u.number = "unsigned" THEN Half(a) ELSE 0
  BY Halves
<1>6. SignCast(v, t.number, u.number, t.bytes) = d + w
  <2>1. Half(a) \in Nat
    BY Halves
  <2>2. v = d + Zero(t)
    BY <1>1, <1>2
  <2>. QED
    BY <1>2, <1>3, <1>5, <2>1, <2>2 DEF Kind, SignCast, Zero
<1>7. ConvertTo(u, v, t) = ShiftCast(d + w, a, b)
  BY <1>3, <1>6 DEF ConvertTo, Kind
<1>8. ASSUME NEW e \in Int, ConvertTo(u, v, t) = e + Zero(u), NEW y \in Int, y = e * r,
             x - y \in 0..(r - 1)
      PROVE  \E z \in Int : /\ Stands(ConvertTo(u, v, t), z, u)
                            /\ x - z \in 0..(Step(u.bytes) - 1)
                            /\ (Multiple(x, Step(u.bytes)) => z = x)
  <2>1. Multiple(y, r) /\ Multiple(One, r) /\ Multiple(-One, r)
    <3>1. One = Half(b) * Step(b) /\ Half(b) \in Int /\ One \in Int
      BY Halves, Steps
    <3>2. Multiple(One, r)
      BY <1>4, <3>1, Zenon DEF Multiple
    <3>3. Multiple(-One, r)
      BY <3>1, <3>2, Multiples
    <3>. QED
      BY <1>8, <3>2, <3>3, Zenon DEF Multiple
  <2>2. y >= -One
    <3>1. y < -One => y + r <= -One
      BY <2>1, <1>2, Multiples
    <3>. QED
      BY <1>2, <1>8, <3>1
  <2>3. y \in -One..(One - 1)
    BY <1>2, <1>8, <2>2
  <2>4. (ConvertTo(u, v, t) - Zero(u)) = e /\ ConvertTo(u, v, t) \in Int
    BY <1>2, <1>8
  <2>5. Stands(ConvertTo(u, v, t), y, u)
    BY <1>3, <1>4, <1>8, <2>1, <2>3, <2>4 DEF Stands, Fits
  <2>6. ASSUME Multiple(x, r) PROVE y = x
    <3>1. y < x => y + r <= x
      BY <1>2, <2>1, <2>6, Multiples
    <3>. QED
      BY <1>2, <1>8, <3>1
  <2>7. x - y \in 0..(Step(u.bytes) - 1) /\ (Multiple(x, Step(u.bytes)) => y = x)
    BY <1>3, <1>4, <1>8, <2>6, Zenon
  <2>. QED
    BY <2>5, <2>7, Zenon
<1>9. CASE b <= a
  <2>1. PICK m \in Nat \ {0} : m = Values(a - b) /\ r = m * s /\ Half(a) = Half(b) * m
    BY <1>4, <1>9, Ratios
  <2>2. PICK e \in Int, f \in 0..(m - 1) : d = e * m + f
    BY Division
  <2>3. Zero(u) = IF u.number = "unsigned" THEN Half(b) ELSE 0
    BY <1>3 DEF Zero
  <2>4. w = Zero(u) * m
    <3>1. 0 * m = 0
      OBVIOUS
    <3>. QED
      BY <1>5, <2>1, <2>3, <3>1, Zenon
  <2>5. d + w = (e + Zero(u)) * m + f
    BY <1>2, <2>2, <2>4, Products
  <2>6. (d + w) \div m = e + Zero(u)
    <3>1. e + Zero(u) \in Int
      BY <1>2
    <3>. QED
      BY <2>5, <3>1, Quotient
  <2>7. ConvertTo(u, v, t) = e + Zero(u)
    BY <1>7, <1>9, <2>1, <2>6 DEF ShiftCast
  <2>8. PICK y \in Int : y = e * r
    <3>1. e * r \in Int
      BY Products
    <3>. QED
      BY <3>1, Zenon
  <2>9. x = y + f * s /\ f * s \in 0..(r - 1)
    <3>1. d * s = (e * m) * s + f * s
      BY <2>2, Products
    <3>2. (e * m) * s = e * (m * s)
      BY Products
    <3>3. 0 * s <= f * s /\ f * s <= (m - 1) * s /\ (m - 1) * s = m * s - s /\ 0 * s = 0
      BY Products
    <3>4. PICK g \in Int : g = f * s
      BY Products
    <3>5. x = y + g
      <4>1. x = d * s
        BY <1>2, <1>3, <1>4, Zenon
      <4>2. e * (m * s) = y
        BY <2>1, <2>8, Zenon
      <4>. QED
        BY <3>1, <3>2, <3>4, <4>1, <4>2
    <3>6. 0 <= g /\ g <= r - s
      BY <2>1, <3>3, <3>4
    <3>. QED
      BY <3>4, <3>5, <3>6
  <2>10. x - y \in 0..(r - 1)
    BY <2>9
  <2>. QED
    BY <1>8, <2>7, <2>8, <2>10
<1>10. CASE a < b
  <2>1. PICK m \in Nat \ {0} : m = Values(b - a) /\ s = m * r /\ Half(b) = Half(a) * m
    BY <1>4, <1>10, Ratios
  <2>2. Zero(u) = IF u.number = "unsigned" THEN Half(b) ELSE 0
    BY <1>3 DEF Zero
  <2>3. Zero(u) = w * m
    <3>1. 0 * m = 0
      OBVIOUS
    <3>. QED
      BY <1>5, <2>1, <2>2, <3>1, Zenon
  <2>4. PICK e \in Int : e = d * m
    <3>1. d * m \in Int
      BY Products
    <3>. QED
      BY <3>1, Zenon
  <2>5. ConvertTo(u, v, t) = e + Zero(u)
    <3>1. ~(b <= a)
      BY <1>10
    <3>2. ConvertTo(u, v, t) = (d + w) * m
      BY <1>7, <2>1, <3>1 DEF ShiftCast
    <3>3. (d + w) * m = d * m + w * m
      BY Products
    <3>. QED
      BY <2>3, <2>4, <3>2, <3>3, Zenon
  <2>6. x = e * r
    <3>1. d * (m * r) = (d * m) * r
      BY Products
    <3>2. x = d * s
      BY <1>2, <1>3, <1>4, Zenon
    <3>. QED
      BY <2>1, <2>4, <3>1, <3>2, Zenon
  <2>7. x - x \in 0..(r - 1)
    BY <1>2
  <2>. QED
    BY <1>2, <1>8, <2>5, <2>6, <2>7
<1>. QED
  BY <1>9, <1>10

\* From an integer to a float: the float nearest to the level.
LEMMA FloatsLevel ==
  ASSUME NEW t, Kind(t), t.number # "float", NEW u, Kind(u), u.number = "float",
         NEW v, NEW x, Stands(v, x, t)
  PROVE  /\ x \in -One..(One - 1)
         /\ RoundToFloat(x) \in -One..One
         /\ Stands(ConvertTo(u, v, t), RoundToFloat(x), u)
<1>1. PICK d \in Int : d = v - Zero(t)
  <2>1. v - Zero(t) \in Int
    BY ZeroInNat DEF Stands
  <2>. QED
    BY <2>1, Zenon
<1>2. /\ x = d * Step(t.bytes) /\ x \in -One..(One - 1) /\ x \in Int /\ v \in Int
      /\ Zero(t) \in Nat /\ t.bytes \in 1..4 /\ t.bytes \in {1, 2, 4} /\ One \in Nat
      /\ Multiple(x, Step(t.bytes))
  BY <1>1, ZeroInNat, Steps DEF Stands, Fits, Kind
<1>3. PICK b \in 1..4, s \in Nat \ {0} : b = t.bytes /\ s = Step(b)
  <2>1. t.bytes \in 1..4 /\ Step(t.bytes) \in Nat \ {0}
    BY <1>2, Steps
  <2>. QED
    BY <2>1, Zenon
<1>4. SignCast(v, t.number, "signed", t.bytes) = d
  <2>1. Half(b) \in Nat
    BY Halves
  <2>. QED
    BY <1>1, <1>2, <1>3, <2>1 DEF Kind, SignCast, Zero
<1>5. ConvertTo(u, v, t) = RoundToFloat(d) * s
  <2>1. ConvertTo(u, v, t) = FixedToFloat(SignCast(v, t.number, "signed", t.bytes), t.bytes)
    BY DEF ConvertTo
  <2>. QED
    BY <1>3, <1>4, <2>1, Zenon DEF FixedToFloat
<1>6. PICK y \in Int : y = RoundToFloat(x) /\ y \in -One..One
  <2>1. x \in -One..One
    BY <1>2
  <2>2. RoundToFloat(x) \in Int
    BY <2>1, RoundsNear
  <2>3. Multiple(One, Base) /\ Multiple(-One, Base) /\ One \in Int /\ -One \in Int
    <3>1. Multiple(One, Base) /\ One \in Int /\ Base \in Nat \ {0}
      BY Steps, Sizes
    <3>. QED
      BY <3>1, Multiples
  <2>4. RoundToFloat(x) <= One /\ -One <= RoundToFloat(x)
    BY <2>1, <2>3, RoundsNear
  <2>. QED
    BY <1>2, <2>2, <2>4
<1>7. ConvertTo(u, v, t) = y
  <2>1. CASE b = 4
    <3>1. s = 1 /\ d * 1 = d /\ y * 1 = y
      BY <1>3, <2>1, Steps
    <3>2. x = d
      BY <1>2, <1>3, <3>1, Zenon
    <3>. QED
      BY <1>5, <1>6, <3>1, <3>2, Zenon
  <2>2. CASE b # 4
    <3>1. b \in {1, 2}
      BY <1>2, <1>3, <2>2
    <3>2. d \in -Half(b)..(Half(b) - 1)
      <4>1. d * Step(b) \in -One..(One - 1)
        BY <1>2, <1>3, Zenon
      <4>. QED
        BY <4>1, WholeLevels
    <3>3. RoundToFloat(d) = d
      <4>1. Half(1) \in Nat /\ Half(2) \in Nat /\ Half(1) < Values(3) /\ Half(2) < Values(3)
        <5>1. Values(1) = 2 * Half(1) /\ Values(2) = 2 * Half(2) /\ Half(1) \in Nat /\ Half(2) \in Nat
          BY Halves
        <5>2. Values(1) < Values(2) /\ Values(2) < Values(3) /\ Values(1) \in Nat /\ Values(2) \in Nat
          BY Steps, Sizes
        <5>. QED
          BY <5>1, <5>2, Sizes
      <4>2. Size(d) < Values(3)
        BY <3>1, <3>2, <4>1, Sizes DEF Size
      <4>. QED
        BY <4>2, SmallOnesStay
    <3>4. Multiple(x, Base)
      <4>1. Multiple(s, Base)
        <5>1. /\ Multiple(Values(2), Base) /\ Multiple(Values(3), Values(2))
              /\ Values(2) \in Int /\ Values(3) \in Int /\ Base \in Int
          BY Steps, Sizes
        <5>2. Multiple(Values(3), Base)
          BY <5>1, MultiplesNest
        <5>. QED
          BY <1>3, <3>1, <5>1, <5>2, Steps
      <4>2. Multiple(x, s) /\ Base \in Int
        BY <1>2, <1>3, Sizes
      <4>. QED
        BY <1>2, <4>1, <4>2, MultiplesNest
    <3>5. RoundToFloat(x) = x
      BY <1>2, <1>6, <3>4, RoundsNear
    <3>. QED
      BY <1>2, <1>3, <1>5, <1>6, <3>3, <3>5, Zenon
  <2>. QED
    BY <2>1, <2>2
<1>8. Fits(y, u)
  <2>1. Size(x) < 4 * One /\ Size(y) < 4 * One
    <3>1. One \in Nat \ {0}
      BY Steps
    <3>. QED
      BY <1>2, <1>6, <3>1 DEF Size
  <2>2. Float(y)
    BY <1>2, <1>6, <2>1, RoundedIsFloat
  <2>. QED
    BY <1>6, <2>1, <2>2, Zenon DEF Fits
<1>9. (y - Zero(u)) * Step(u.bytes) = y
  <2>1. Zero(u) = 0 /\ Step(u.bytes) = 1
    BY Steps DEF Zero, Kind
  <2>. QED
    BY <1>6, <2>1
<1>10. Stands(ConvertTo(u, v, t), y, u)
  BY <1>6, <1>7, <1>8, <1>9, Zenon DEF Stands
<1>. QED
  BY <1>2, <1>6, <1>10, Zenon

\* What becomes of a float's level in an integer of four bytes, or of fewer.
Fixed(y, x, b) ==
  LET p == Clipped(x, b)
  IN
  /\ b = 4 => /\ y - p \in -1..1
              /\ (p % 2 = 0 \/ Size(p) <= Half(3) => y = p)
              /\ \A m \in Int : m % 2 = 0 => (m <= p => m <= y) /\ (p <= m => y <= m)
  /\ b # 4 => /\ 2 * (y - p) <= Step(b) + Base /\ 2 * (p - y) <= Step(b) + Base
              /\ (Multiple(p, Step(b)) => y = p)

LEMMA FixesLevel ==
  ASSUME NEW t, Kind(t), t.number = "float", NEW u, Kind(u), u.number # "float",
         NEW v, NEW x, Stands(v, x, t)
  PROVE  \E y \in Int : Stands(ConvertTo(u, v, t), y, u) /\ Fixed(y, x, u.bytes)
<1>1. v = x /\ x \in Int /\ Float(x)
  <2>1. Zero(t) = 0 /\ Step(t.bytes) = 1
    BY Steps DEF Zero, Kind
  <2>. QED
    BY <2>1 DEF Stands, Fits
<1>2. PICK b \in 1..4 : b = u.bytes /\ b \in {1, 2, 4}
  BY DEF Kind
<1>3. PICK s \in Nat \ {0} : s = Step(b)
  BY Steps
<1>4. \E y \in Int : /\ y = FloatToFixed(x, b) * Step(b) /\ FloatToFixed(x, b) \in Int
                     /\ y \in -One..(One - 1) /\ Fixed(y, x, b)
  <2>1. CASE b = 4
    <3>1. PICK y \in Int :
             /\ y = FloatToFixed(x, 4) /\ y - Clipped(x, 4) \in -1..1
             /\ (Clipped(x, 4) % 2 = 0 \/ Size(Clipped(x, 4)) <= Half(3) => y = Clipped(x, 4))
             /\ \A m \in Int : m % 2 = 0 =>
                  (m <= Clipped(x, 4) => m <= y) /\ (Clipped(x, 4) <= m => y <= m)
      BY <1>1, FixedFine
    <3>2. y * 1 = y /\ Step(4) = 1
      BY Steps
    <3>3. y \in -One..(One - 1)
      <4>1. /\ One \in Int /\ -One \in Int /\ One - Base \in Int /\ Base \in Nat \ {0}
            /\ One % 2 = 0 /\ (-One) % 2 = 0 /\ (One - Base) % 2 = 0
        <5>1. PICK h \in Int : Base = h * 2
          BY Steps DEF Multiple
        <5>2. PICK k \in Int : One = k * Base
          BY Steps DEF Multiple
        <5>3. One = (k * h) * 2 /\ k * h \in Int
          BY <5>1, <5>2, Products
        <5>. QED
          BY <5>1, <5>3, Sizes
      <4>2. Clipped(x, 4) <= One - Base /\ -One <= Clipped(x, 4)
        BY <1>1, <4>1, ClippedFloats
      <4>3. -One <= y /\ y <= One - Base
        BY <3>1, <4>1, <4>2
      <4>. QED
        BY <4>1, <4>3
    <3>4. Fixed(y, x, 4)
      BY <3>1, Zenon DEF Fixed
    <3>. QED
      BY <2>1, <3>1, <3>2, <3>3, <3>4, Zenon
  <2>2. CASE b # 4
    <3>1. b \in {1, 2}
      BY <1>2, <2>2
    <3>2. PICK y \in Int :
           /\ y = FloatToFixed(x, b) * Step(b) /\ FloatToFixed(x, b) \in Int
           /\ 2 * (y - Clipped(x, b)) <= Step(b) + Base /\ 2 * (Clipped(x, b) - y) <= Step(b) + Base
           /\ (Multiple(Clipped(x, b), Step(b)) => y = Clipped(x, b))
      BY <1>1, <3>1, FixedCoarse
    <3>3. y \in -One..(One - 1)
      <4>1. Base < s /\ Base \in Nat
        BY <1>3, <3>1, Steps, Sizes
      <4>2. Clipped(x, b) \in -One..(One - s) /\ One \in Int
        BY <1>1, <1>3, <3>1, ClippedFloats, Steps
      <4>3. y < One /\ -One - s < y
        BY <1>3, <3>2, <4>1, <4>2
      <4>4. Multiple(y, s) /\ Multiple(One, s) /\ Multiple(-One, s) /\ -One \in Int
        <5>1. Multiple(y, s)
          BY <1>3, <3>2, Zenon DEF Multiple
        <5>2. One = Half(b) * Step(b) /\ Half(b) \in Int
          BY Steps, Halves
        <5>3. Multiple(One, s)
          BY <1>3, <5>2, Zenon DEF Multiple
        <5>. QED
          BY <4>2, <5>1, <5>3, Multiples
      <4>5. y < -One => y + s <= -One
        BY <4>4, Multiples
      <4>. QED
        BY <4>2, <4>3, <4>5
    <3>4. Fixed(y, x, b)
      BY <2>2, <3>2, Zenon DEF Fixed
    <3>. QED
      BY <3>2, <3>3, <3>4, Zenon
  <2>. QED
    BY <2>1, <2>2
<1>5. PICK y \in Int, f \in Int : /\ y = f * Step(b) /\ f = FloatToFixed(x, b)
                                  /\ y \in -One..(One - 1) /\ Fixed(y, x, b)
  BY <1>4, Zenon
<1>6. ConvertTo(u, v, t) = f + Zero(u)
  <2>1. ConvertTo(u, v, t) = SignCast(f, "signed", u.number, b)
    BY <1>1, <1>2, <1>5 DEF ConvertTo
  <2>. QED
    BY <1>2, <2>1 DEF SignCast, Zero, Kind
<1>7. ConvertTo(u, v, t) \in Int /\ ConvertTo(u, v, t) - Zero(u) = f
  BY <1>6, ZeroInNat
<1>8. Fits(y, u)
  <2>1. Multiple(y, Step(u.bytes))
    BY <1>2, <1>5, Zenon DEF Multiple
  <2>. QED
    BY <1>5, <2>1, Zenon DEF Fits
<1>9. Stands(ConvertTo(u, v, t), y, u)
  BY <1>2, <1>5, <1>7, <1>8, Zenon DEF Stands
<1>. QED
  BY <1>2, <1>5, <1>9, Zenon

-----------------------------------------------------------------------------
(* The bytes of a value.                                                   *)

IsFormat(f) ==
  /\ f.number \in {"signed", "unsigned", "float"}
  /\ f.bytes \in IF f.number = "float" THEN {4} ELSE 1..4
  /\ f.endian \in {"big", "little"}

LEMMA Stored ==
  ASSUME NEW f, IsFormat(f)
  PROVE  /\ Kind(Storage(f)) /\ Storage(f).number = f.number /\ f.bytes \in 1..4
         /\ Storage(f).bytes \in 1..4 /\ f.bytes <= Storage(f).bytes
         /\ Padding(f) = Storage(f).bytes - f.bytes
         /\ \/ f.bytes = 1 /\ Storage(f).bytes = 1 /\ Padding(f) = 0
            \/ f.bytes = 2 /\ Storage(f).bytes = 2 /\ Padding(f) = 0
            \/ f.bytes = 3 /\ Storage(f).bytes = 4 /\ Padding(f) = 1 /\ f.number # "float"
            \/ f.bytes = 4 /\ Storage(f).bytes = 4 /\ Padding(f) = 0
BY DEF IsFormat, Kind, Storage, Padding

\* A number is the sum of its digits.
LEMMA Digits ==
  ASSUME NEW c \in Int
  PROVE  \E e1, e2, e3 \in 0..(Base - 1), c1, c2, c3 \in Int :
           /\ e1 = c % Base /\ c1 = c \div Base /\ c = c1 * Base + e1
           /\ e2 = c1 % Base /\ c2 = c \div Values(2) /\ c1 = c2 * Base + e2
           /\ e3 = c2 % Base /\ c3 = c \div Values(3) /\ c2 = c3 * Base + e3
           /\ e2 = (c \div Values(1)) % Base /\ e3 = (c \div Values(2)) % Base
           /\ e1 = (c \div Values(0)) % Base
           /\ c = e1 + e2 * Base + e3 * Values(2) + c3 * Values(3)
<1>1. PICK b \in Nat \ {0} : /\ b = Base /\ Values(0) = 1 /\ Values(1) = b
                           /\ Values(2) = b * b /\ Values(3) = (b * b) * b
  BY Sizes
<1>2. PICK c1 \in Int, e1 \in 0..(b - 1) : c1 = c \div b /\ e1 = c % b /\ c = c1 * b + e1
  BY Division
<1>3. PICK c2 \in Int, e2 \in 0..(b - 1) : c2 = c1 \div b /\ e2 = c1 % b /\ c1 = c2 * b + e2
  BY Division
<1>4. PICK c3 \in Int, e3 \in 0..(b - 1) : c3 = c2 \div b /\ e3 = c2 % b /\ c2 = c3 * b + e3
  BY Division
<1>5. PICK q \in Nat \ {0} : q = b * b
  <2>1. b * b \in Nat \ {0}
    BY Products
  <2>. QED
    BY <2>1, Zenon
<1>6. PICK f \in Int : f = e2 * b + e1 /\ f \in 0..(q - 1)
  <2>1. 0 * b <= e2 * b /\ e2 * b <= (b - 1) * b /\ 0 * b = 0 /\ (b - 1) * b = b * b - b
    BY Products
  <2>2. e2 * b \in Int
    BY Products
  <2>3. e2 * b + e1 \in 0..(q - 1) /\ e2 * b + e1 \in Int
    BY <1>5, <2>1, <2>2
  <2>. QED
    BY <2>3, Zenon
<1>7. c = c2 * q + f
  <2>1. (c2 * b + e2) * b = (c2 * b) * b + e2 * b /\ (c2 * b) * b = c2 * (b * b)
    BY Products
  <2>2. c1 * b = (c2 * b + e2) * b
    BY <1>3, Zenon
  <2>3. c2 * (b * b) = c2 * q
    BY <1>5, Zenon
  <2>4. PICK x1 \in Int, x2 \in Int, x3 \in Int : x1 = c1 * b /\ x2 = c2 * q /\ x3 = e2 * b
    BY Products
  <2>5. x1 = x2 + x3
    BY <2>1, <2>2, <2>3, <2>4, Zenon
  <2>. QED
    BY <1>2, <1>6, <2>4, <2>5
<1>8. c \div q = c2
  BY <1>6, <1>7, Quotient
<1>9. PICK p \in Nat \ {0} : p = q * b
  <2>1. q * b \in Nat \ {0}
    BY Products
  <2>. QED
    BY <2>1, Zenon
<1>10. PICK g \in Int : g = e3 * q + f /\ g \in 0..(p - 1)
  <2>1. 0 * q <= e3 * q /\ e3 * q <= (b - 1) * q /\ 0 * q = 0 /\ (b - 1) * q = b * q - q /\ b * q = q * b
    BY Products
  <2>2. PICK x \in Int, y \in Int : x = e3 * q /\ y = b * q
    BY Products
  <2>3. 0 <= x /\ x <= y - q /\ y = p
    BY <1>9, <2>1, <2>2
  <2>4. x + f \in 0..(p - 1) /\ x + f \in Int
    BY <1>6, <2>3
  <2>. QED
    BY <2>2, <2>4, Zenon
<1>11. c = c3 * p + g
  <2>1. (c3 * b + e3) * q = (c3 * b) * q + e3 * q /\ (c3 * b) * q = c3 * (b * q) /\ b * q = q * b
    BY Products
  <2>2. c2 * q = (c3 * b + e3) * q
    BY <1>4, Zenon
  <2>3. c3 * (b * q) = c3 * p
    BY <1>9, <2>1, Zenon
  <2>4. PICK x1 \in Int, x2 \in Int, x3 \in Int : x1 = c2 * q /\ x2 = c3 * p /\ x3 = e3 * q
    BY Products
  <2>5. x1 = x2 + x3
    BY <2>1, <2>2, <2>3, <2>4, Zenon
  <2>. QED
    BY <1>7, <1>10, <2>4, <2>5
<1>12. c \div p = c3
  BY <1>10, <1>11, Quotient
<1>13. Base = b /\ Values(2) = q /\ Values(3) = p /\ Values(1) = b /\ Values(0) = 1
  BY <1>1, <1>5, <1>9, Zenon
<1>14. c = e1 + e2 * b + e3 * q + c3 * p
  <2>1. PICK x1 \in Int, x2 \in Int, x3 \in Int : x1 = e2 * b /\ x2 = e3 * q /\ x3 = c3 * p
    BY Products
  <2>2. c = x3 + g /\ g = x2 + f /\ f = x1 + e1
    BY <1>6, <1>10, <1>11, <2>1, Zenon
  <2>3. c = e1 + x1 + x2 + x3
    BY <2>2
  <2>. QED
    BY <2>1, <2>3, Zenon
<1>15. c \div 1 = c
  OBVIOUS
<1>16. /\ e1 = c % b /\ c1 = c \div b /\ c = c1 * b + e1
       /\ e2 = c1 % b /\ c2 = c \div q /\ c1 = c2 * b + e2
       /\ e3 = c2 % b /\ c3 = c \div p /\ c2 = c3 * b + e3
       /\ e2 = (c \div b) % b /\ e3 = (c \div q) % b /\ e1 = (c \div 1) % b
       /\ c = e1 + e2 * b + e3 * q + c3 * p
  BY <1>2, <1>3, <1>4, <1>8, <1>12, <1>14, <1>15, Zenon
<1>17. e1 \in 0..(Base - 1) /\ e2 \in 0..(Base - 1) /\ e3 \in 0..(Base - 1)
  BY <1>13
<1>18. /\ e1 = c % Base /\ c1 = c \div Base /\ c = c1 * Base + e1
       /\ e2 = c1 % Base /\ c2 = c \div Values(2) /\ c1 = c2 * Base + e2
       /\ e3 = c2 % Base /\ c3 = c \div Values(3) /\ c2 = c3 * Base + e3
  BY <1>13, <1>16, Zenon
<1>19. /\ e2 = (c \div Values(1)) % Base /\ e3 = (c \div Values(2)) % Base
       /\ e1 = (c \div Values(0)) % Base
       /\ c = e1 + e2 * Base + e3 * Values(2) + c3 * Values(3)
  BY <1>13, <1>16, Zenon
<1>. QED
  BY <1>17, <1>18, <1>19, Zenon

\* The place of a byte of a format, counted from the lowest.
Place(i, f) == IF f.endian = "little" THEN i ELSE f.bytes + 1 - i

\* b are the bytes of a format that hold the digits e of the type it is stored as.
Holding(b, e, f) ==
  /\ b \in Seq(Int) /\ Len(b) = f.bytes
  /\ \A i \in 1..f.bytes : b[Place(i, f)] = e[i + Padding(f)]

LEMMA WritesDigits ==
  ASSUME NEW f, IsFormat(f), NEW v, CodeOf(v, Storage(f)) \in Int
  PROVE  /\ Holding(ToBytes(v, f), BytesOf(v, Storage(f)), f)
         /\ \A i \in 1..Storage(f).bytes : BytesOf(v, Storage(f))[i] \in Int
<1>. DEFINE e == BytesOf(v, Storage(f))
            n == Storage(f).bytes
            w == f.bytes
            pad == Padding(f)
            s == SubSeq(e, pad + 1, n)
<1>1. w \in 1..4 /\ n \in 1..4 /\ pad \in Nat /\ n = w + pad
  BY Stored
<1>2. \A i \in 1..n : e[i] \in Int
  <2>1. TAKE i \in 1..n
  <2>2. i - 1 \in 0..4
    BY <1>1
  <2>3. Values(i - 1) \in Nat \ {0} /\ Base \in Nat \ {0}
    BY <2>2, Sizes
  <2>4. PICK r \in Int : r = CodeOf(v, Storage(f)) \div Values(i - 1)
    BY <2>3, Division
  <2>5. r % Base \in Int
    BY <2>3, Division
  <2>6. e[i] = IF i = n THEN r ELSE r % Base
    BY <2>4 DEF BytesOf
  <2>. HIDE DEF e
  <2>. QED
    BY <2>5, <2>6
<1>. HIDE DEF e
<1>3. s \in Seq(Int) /\ Len(s) = w /\ \A i \in 1..w : s[i] = e[i + pad]
  <2>1. \A i \in (pad + 1)..n : e[i] \in Int
    BY <1>1, <1>2
  <2>2. s \in Seq(Int) /\ Len(s) = (IF pad + 1 <= n THEN n - (pad + 1) + 1 ELSE 0)
        /\ \A i \in 1..(n - (pad + 1) + 1) : s[i] = e[(pad + 1) + i - 1]
    <3>1. pad + 1 \in Int /\ n \in Int
      BY <1>1
    <3>. QED
      BY <2>1, <3>1, SubSeqProperties
  <2>3. \A i \in 1..w : (pad + 1) + i - 1 = i + pad /\ n - (pad + 1) + 1 = w /\ pad + 1 <= n
    BY <1>1
  <2>. HIDE DEF n, w, pad, s
  <2>4. 1 \in 1..w
    BY <1>1
  <2>5. n - (pad + 1) + 1 = w /\ pad + 1 <= n
    BY <2>3, <2>4
  <2>6. Len(s) = w
    BY <2>2, <2>5, Zenon
  <2>7. \A i \in 1..w : s[i] = e[i + pad]
    BY <2>2, <2>3, <2>5, Zenon
  <2>. QED
    BY <2>2, <2>6, <2>7
<1>. HIDE DEF s, n, pad
<1>4. ToBytes(v, f) = InOrder(s, f)
  BY DEF ToBytes, s, e, n, pad
<1>5. CASE f.endian = "little"
  <2>1. ToBytes(v, f) = s
    BY <1>4, <1>5 DEF InOrder
  <2>2. \A i \in 1..f.bytes : s[Place(i, f)] = e[i + pad]
    BY <1>3, <1>5 DEF Place
  <2>. QED
    BY <1>2, <1>3, <2>1, <2>2 DEF Holding, e, n, pad
<1>6. CASE f.endian # "little"
  <2>1. DOMAIN s = 1..w
    BY <1>3, LenProperties
  <2>2. PICK b : b = [i \in 1..w |-> s[w + 1 - i]]
    OBVIOUS
  <2>3. ToBytes(v, f) = b
    BY <1>3, <1>4, <1>6, <2>1, <2>2 DEF InOrder
  <2>4. b \in Seq(Int) /\ Len(b) = w
    <3>1. \A i \in 1..w : w + 1 - i \in 1..w
      BY <1>1
    <3>2. \A i \in 1..w : s[w + 1 - i] \in Int
      BY <1>3, <3>1, ElementOfSeq
    <3>3. b \in [1..w -> Int]
      BY <2>2, <3>2
    <3>. QED
      BY <1>1, <3>3
  <2>5. \A i \in 1..f.bytes : b[Place(i, f)] = e[i + pad]
    <3>1. TAKE i \in 1..w
    <3>2. Place(i, f) = w + 1 - i /\ w + 1 - i \in 1..w /\ w + 1 - (w + 1 - i) = i
      BY <1>1, <1>6 DEF Place
    <3>3. b[w + 1 - i] = s[w + 1 - (w + 1 - i)]
      BY <2>2, <3>2
    <3>. QED
      BY <1>3, <3>2, <3>3
  <2>. QED
    BY <1>2, <2>3, <2>4, <2>5 DEF Holding, e, n, pad
<1>. QED
  BY <1>5, <1>6

\* What a format keeps of the code of a value: three bytes of four lose the lowest.
Kept(c, f) == IF f.bytes = 3 THEN c - (c % Base) ELSE c

\* The sum of the digits that Level makes.
LevelCode(b, f) ==
  Sum4([i \in 1..4 |->
    IF i \in DOMAIN b
    THEN b[IF f.endian = "little" THEN i ELSE Len(b) + 1 - i] * Values(i - 1 + 4 - Len(b))
    ELSE 0])

LEMMA LevelOfCode ==
  ASSUME NEW b, NEW f
  PROVE  Level(b, f) = CASE f.number = "float"    -> LevelCode(b, f) - 4 * One
                         [] f.number = "unsigned" -> LevelCode(b, f) - One
                         [] f.number = "signed"   -> IF LevelCode(b, f) < One THEN LevelCode(b, f)
                                                     ELSE LevelCode(b, f) - 2 * One
BY DEF Level, LevelCode

\* The digits of the types there are.
LEMMA TypeDigits ==
  ASSUME NEW s, Kind(s), NEW v, NEW c \in Int, c = CodeOf(v, s)
  PROVE  LET e == BytesOf(v, s)
         IN
         /\ s.bytes = 1 => e[1] = c
         /\ s.bytes = 2 => e[1] \in Int /\ e[2] \in Int /\ c = e[1] + e[2] * Base
         /\ s.bytes = 4 => /\ e[1] \in Int /\ e[2] \in Int /\ e[3] \in Int /\ e[4] \in Int
                           /\ e[1] = c % Base
                           /\ c = e[1] + e[2] * Base + e[3] * Values(2) + e[4] * Values(3)
<1>. DEFINE e == BytesOf(v, s)
<1>1. PICK e1 \in 0..(Base - 1), e2 \in 0..(Base - 1), e3 \in 0..(Base - 1),
           c1 \in Int, c2 \in Int, c3 \in Int :
           /\ e1 = c % Base /\ c1 = c \div Base /\ c = c1 * Base + e1
           /\ e2 = c1 % Base /\ c2 = c \div Values(2) /\ c1 = c2 * Base + e2
           /\ e3 = c2 % Base /\ c3 = c \div Values(3) /\ c2 = c3 * Base + e3
           /\ e2 = (c \div Values(1)) % Base /\ e3 = (c \div Values(2)) % Base
           /\ e1 = (c \div Values(0)) % Base
           /\ c = e1 + e2 * Base + e3 * Values(2) + c3 * Values(3)
  BY Digits, Zenon
<1>2. Values(0) = 1 /\ Values(1) = Base /\ Base \in Nat \ {0}
  BY Sizes
<1>3. \A i \in 1..s.bytes :
        e[i] = LET rest == c \div Values(i - 1) IN IF i = s.bytes THEN rest ELSE rest % Base
  BY DEF BytesOf
<1>. HIDE DEF e
<1>4. CASE s.bytes = 1
  <2>1. e[1] = c \div Values(0)
    BY <1>3, <1>4
  <2>2. c \div 1 = c
    OBVIOUS
  <2>. QED
    BY <1>2, <1>4, <2>1, <2>2 DEF e
<1>5. CASE s.bytes = 2
  <2>1. e[1] = (c \div Values(0)) % Base
    BY <1>3, <1>5
  <2>2. e[2] = c \div Values(1)
    BY <1>3, <1>5
  <2>3. e[1] = e1 /\ e[2] = c1
    BY <1>1, <1>2, <2>1, <2>2, Zenon
  <2>4. e1 \in Int /\ c = e1 + c1 * Base
    BY <1>1, <1>2, Products
  <2>. QED
    BY <1>5, <2>3, <2>4 DEF e
<1>6. CASE s.bytes = 4
  <2>1. e[1] = (c \div Values(0)) % Base
    BY <1>3, <1>6
  <2>2. e[2] = (c \div Values(1)) % Base
    BY <1>3, <1>6
  <2>3. e[3] = (c \div Values(2)) % Base
    BY <1>3, <1>6
  <2>4. e[4] = c \div Values(3)
    BY <1>3, <1>6
  <2>5. e[1] = e1 /\ e[2] = e2 /\ e[3] = e3 /\ e[4] = c3
    BY <1>1, <2>1, <2>2, <2>3, <2>4, Zenon
  <2>6. e1 \in Int /\ e2 \in Int /\ e3 \in Int /\ c3 \in Int
    BY <1>2
  <2>7. /\ e[1] \in Int /\ e[2] \in Int /\ e[3] \in Int /\ e[4] \in Int
        /\ e[1] = c % Base
        /\ c = e[1] + e[2] * Base + e[3] * Values(2) + e[4] * Values(3)
    BY <1>1, <2>5, <2>6, Zenon
  <2>. QED
    BY <1>6, <2>7 DEF e
<1>7. s.bytes \in {1, 2, 4}
  BY DEF Kind
<1>. QED
  BY <1>4, <1>5, <1>6, <1>7 DEF e

LEMMA ReadsCode ==
  ASSUME NEW f, IsFormat(f), NEW v, NEW c \in Int, c = CodeOf(v, Storage(f)),
         NEW b, Holding(b, BytesOf(v, Storage(f)), f)
  PROVE  /\ Kept(c, f) \in Int
         /\ CodeOfBytes([i \in 1..Padding(f) |-> 0] \o InOrder(b, f)) = Kept(c, f)
         /\ LevelCode(b, f) = Kept(c, f) * Step(Storage(f).bytes)
<1>. DEFINE e == BytesOf(v, Storage(f))
<1>1. PICK w \in 1..4, n \in 1..4, pad \in 0..1 :
        /\ w = f.bytes /\ n = Storage(f).bytes /\ pad = Padding(f) /\ n = w + pad
        /\ \/ w = 1 /\ n = 1 /\ pad = 0
           \/ w = 2 /\ n = 2 /\ pad = 0
           \/ w = 3 /\ n = 4 /\ pad = 1
           \/ w = 4 /\ n = 4 /\ pad = 0
  BY Stored
<1>2. /\ b \in Seq(Int) /\ Len(b) = w /\ DOMAIN b = 1..w
      /\ \A i \in 1..w : b[Place(i, f)] = e[i + pad]
  BY <1>1, LenProperties DEF Holding
<1>3. /\ n = 1 => e[1] = c
      /\ n = 2 => e[1] \in Int /\ e[2] \in Int /\ c = e[1] + e[2] * Base
      /\ n = 4 => /\ e[1] \in Int /\ e[2] \in Int /\ e[3] \in Int /\ e[4] \in Int
                  /\ e[1] = c % Base
                  /\ c = e[1] + e[2] * Base + e[3] * Values(2) + e[4] * Values(3)
  BY <1>1, TypeDigits, Stored
<1>. HIDE DEF e
<1>4. /\ Base \in Nat \ {0} /\ c % Base \in Int
      /\ Values(0) = 1 /\ Values(1) = Base /\ Values(2) \in Nat \ {0} /\ Values(3) \in Nat \ {0}
      /\ Values(3) = Base * Values(2)
  BY Sizes, Products
<1>5. Kept(c, f) \in Int
  BY <1>4 DEF Kept
<1>6. \A i \in 1..n : e[i] \in Int
  BY <1>1, <1>3
<1>7. CodeOfBytes([i \in 1..Padding(f) |-> 0] \o InOrder(b, f)) = Kept(c, f)
  <2>1. PICK o : o = InOrder(b, f)
    OBVIOUS
  <2>2. o \in Seq(Int) /\ Len(o) = w /\ \A i \in 1..w : o[i] = e[i + pad]
    <3>1. CASE f.endian = "little"
      BY <1>1, <1>2, <2>1, <3>1 DEF InOrder, Place
    <3>2. CASE f.endian # "little"
      <4>1. o = [i \in 1..w |-> b[w + 1 - i]]
        BY <1>2, <2>1, <3>2 DEF InOrder
      <4>2. \A i \in 1..w : Place(i, f) = w + 1 - i
        BY <1>1, <3>2 DEF Place
      <4>3. \A i \in 1..w : o[i] = e[i + pad] /\ e[i + pad] \in Int
        <5>1. TAKE i \in 1..w
        <5>2. b[w + 1 - i] = e[i + pad]
          BY <1>2, <4>2, Zenon
        <5>3. o[i] = b[w + 1 - i] /\ i + pad \in 1..n
          BY <1>1, <4>1
        <5>. QED
          BY <1>6, <5>2, <5>3, Zenon
      <4>4. o \in [1..w -> Int]
        BY <4>1, <4>3
      <4>. QED
        BY <1>1, <4>3, <4>4
    <3>. QED
      BY <3>1, <3>2
  <2>3. PICK z : z = [i \in 1..pad |-> 0]
    OBVIOUS
  <2>4. z \in Seq(Int) /\ Len(z) = pad /\ \A i \in 1..pad : z[i] = 0
    BY <2>3
  <2>5. PICK s : s = z \o o
    OBVIOUS
  <2>6. /\ s \in Seq(Int) /\ Len(s) = n
        /\ \A i \in 1..n : s[i] = IF i <= pad THEN 0 ELSE e[i]
    <3>1. /\ s \in Seq(Int) /\ Len(s) = Len(z) + Len(o)
          /\ \A i \in 1..(Len(z) + Len(o)) : s[i] = IF i <= Len(z) THEN z[i] ELSE o[i - Len(z)]
      BY <2>2, <2>4, <2>5, ConcatProperties
    <3>2. Len(z) + Len(o) = n
      BY <1>1, <2>2, <2>4
    <3>3. \A i \in 1..n : s[i] = IF i <= pad THEN z[i] ELSE o[i - pad]
      BY <2>4, <3>1, <3>2, Zenon
    <3>4. \A i \in 1..n : /\ (i <= pad => z[i] = 0)
                          /\ (~(i <= pad) => o[i - pad] = e[i])
      <4>1. TAKE i \in 1..n
      <4>2. i <= pad => z[i] = 0
        BY <2>4
      <4>3. ~(i <= pad) => i - pad \in 1..w /\ (i - pad) + pad = i
        BY <1>1
      <4>4. ~(i <= pad) => o[i - pad] = e[(i - pad) + pad]
        BY <2>2, <4>3
      <4>. QED
        BY <4>2, <4>3, <4>4
    <3>. QED
      BY <3>1, <3>2, <3>3, <3>4
  <2>7. DOMAIN s = 1..n
    BY <2>6, LenProperties
  <2>8. PICK g : g = [i \in 1..4 |-> IF i \in 1..n THEN s[i] * Values(i - 1) ELSE 0]
    OBVIOUS
  <2>9. CodeOfBytes(s) = g[1] + g[2] + g[3] + g[4]
    BY <2>7, <2>8 DEF CodeOfBytes, Sum4
  <2>10. CodeOfBytes(s) = Kept(c, f)
    <3>1. CASE w = 1
      <4>1. s[1] = c /\ c * Values(0) = c
        BY <1>1, <1>3, <1>4, <2>6, <3>1
      <4>2. g[1] = c /\ g[2] = 0 /\ g[3] = 0 /\ g[4] = 0
        BY <1>1, <2>8, <3>1, <4>1
      <4>. QED
        BY <1>1, <2>9, <3>1, <4>2 DEF Kept
    <3>2. CASE w = 2
      <4>1. s[1] = e[1] /\ s[2] = e[2] /\ e[1] * Values(0) = e[1]
        BY <1>1, <1>3, <1>4, <2>6, <3>2
      <4>2. g[1] = s[1] * Values(0) /\ g[2] = s[2] * Values(1) /\ g[3] = 0 /\ g[4] = 0
        BY <1>1, <2>8, <3>2
      <4>3. g[1] = e[1] /\ g[2] = e[2] * Base
        BY <1>4, <4>1, <4>2, Zenon
      <4>. QED
        BY <1>1, <1>3, <1>4, <2>9, <3>2, <4>2, <4>3 DEF Kept
    <3>3. CASE w = 3 \/ w = 4
      <4>1. s[1] = (IF w = 3 THEN 0 ELSE e[1]) /\ s[2] = e[2] /\ s[3] = e[3] /\ s[4] = e[4]
        <5>1. n = 4 /\ pad \in 0..1 /\ (pad = 1 <=> w = 3)
          BY <1>1, <3>3
        <5>2. s[1] = (IF 1 <= pad THEN 0 ELSE e[1])
          BY <2>6, <5>1
        <5>3. s[2] = e[2]
          BY <2>6, <5>1
        <5>4. s[3] = e[3]
          BY <2>6, <5>1
        <5>5. s[4] = e[4]
          BY <2>6, <5>1
        <5>. QED
          BY <5>1, <5>2, <5>3, <5>4, <5>5
      <4>2. /\ g[1] = s[1] * Values(0) /\ g[2] = s[2] * Values(1)
            /\ g[3] = s[3] * Values(2) /\ g[4] = s[4] * Values(3)
        BY <1>1, <2>8, <3>3
      <4>3. s[1] * Values(0) = s[1]
        BY <1>1, <1>3, <1>4, <3>3, <4>1
      <4>4. /\ g[1] = (IF w = 3 THEN 0 ELSE e[1]) /\ g[2] = e[2] * Base
            /\ g[3] = e[3] * Values(2) /\ g[4] = e[4] * Values(3)
        BY <1>4, <4>1, <4>2, <4>3, Zenon
      <4>5. /\ e[1] \in Int /\ e[1] = c % Base
            /\ c = e[1] + e[2] * Base + e[3] * Values(2) + e[4] * Values(3)
        BY <1>1, <1>3, <3>3
      <4>6. PICK x2 \in Int, x3 \in Int, x4 \in Int :
              x2 = e[2] * Base /\ x3 = e[3] * Values(2) /\ x4 = e[4] * Values(3)
        BY <1>1, <1>3, <1>4, <3>3, Products
      <4>7. c = e[1] + x2 + x3 + x4 /\ g[2] = x2 /\ g[3] = x3 /\ g[4] = x4
        BY <4>4, <4>5, <4>6, Zenon
      <4>. QED
        BY <1>1, <2>9, <3>3, <4>4, <4>5, <4>7 DEF Kept
    <3>. QED
      BY <3>1, <3>2, <3>3
  <2>. QED
    BY <1>1, <2>1, <2>3, <2>5, <2>10
<1>8. LevelCode(b, f) = Kept(c, f) * Step(Storage(f).bytes)
  <2>1. PICK g : g = [i \in 1..4 |-> IF i \in 1..w THEN b[Place(i, f)] * Values(i - 1 + 4 - w) ELSE 0]
    OBVIOUS
  <2>2. LevelCode(b, f) = g[1] + g[2] + g[3] + g[4]
    BY <1>1, <1>2, <2>1 DEF LevelCode, Sum4, Place
  <2>3. \A i \in 1..4 : g[i] = IF i \in 1..w THEN e[i + pad] * Values(i - 1 + 4 - w) ELSE 0
    BY <1>2, <2>1
  <2>4. Step(4) = 1 /\ Step(2) = Values(2) /\ Step(1) = Values(3)
    BY Steps
  <2>5. CASE w = 1
    <3>1. g[1] = e[1] * Values(3) /\ g[2] = 0 /\ g[3] = 0 /\ g[4] = 0
      BY <1>1, <2>3, <2>5
    <3>2. e[1] = c /\ c * Values(3) \in Int
      BY <1>1, <1>3, <1>4, <2>5
    <3>3. LevelCode(b, f) = c * Values(3)
      BY <2>2, <3>1, <3>2
    <3>4. Kept(c, f) = c /\ Step(Storage(f).bytes) = Values(3)
      BY <1>1, <2>4, <2>5 DEF Kept
    <3>. QED
      BY <3>3, <3>4, Zenon
  <2>6. CASE w = 2
    <3>1. g[1] = e[1] * Values(2) /\ g[2] = e[2] * Values(3) /\ g[3] = 0 /\ g[4] = 0
      BY <1>1, <2>3, <2>6
    <3>2. e[1] \in Int /\ e[2] \in Int /\ c = e[1] + e[2] * Base
      BY <1>1, <1>3, <2>6
    <3>3. PICK x1 \in Int, x2 \in Int : x1 = e[1] * Values(2) /\ x2 = e[2] * Values(3)
      BY <1>4, <3>2, Products
    <3>4. LevelCode(b, f) = x1 + x2
      BY <2>2, <3>1, <3>3
    <3>5. c * Values(2) = x1 + x2
      <4>1. e[2] * Values(3) = (e[2] * Base) * Values(2)
        <5>1. e[2] * (Base * Values(2)) = (e[2] * Base) * Values(2)
          BY <1>4, <3>2, Products
        <5>. QED
          BY <1>4, <5>1, Zenon
      <4>2. (e[1] + e[2] * Base) * Values(2) = e[1] * Values(2) + (e[2] * Base) * Values(2)
        BY <1>4, <3>2, Products
      <4>. QED
        BY <3>2, <3>3, <4>1, <4>2, Zenon
    <3>6. Kept(c, f) = c /\ Step(Storage(f).bytes) = Values(2)
      BY <1>1, <2>4, <2>6 DEF Kept
    <3>. QED
      BY <3>4, <3>5, <3>6, Zenon
  <2>7. CASE w = 3 \/ w = 4
    <3>1. /\ e[1] \in Int /\ e[1] = c % Base
          /\ c = e[1] + e[2] * Base + e[3] * Values(2) + e[4] * Values(3)
      BY <1>1, <1>3, <2>7
    <3>2. PICK x2 \in Int, x3 \in Int, x4 \in Int :
            x2 = e[2] * Base /\ x3 = e[3] * Values(2) /\ x4 = e[4] * Values(3)
      BY <1>1, <1>3, <1>4, <2>7, Products
    <3>3. c = e[1] + x2 + x3 + x4
      BY <3>1, <3>2, Zenon
    <3>4. Kept(c, f) * Step(Storage(f).bytes) = Kept(c, f)
      BY <1>1, <1>5, <2>4, <2>7
    <3>5. CASE w = 3
      <4>1. /\ g[1] = e[2] * Values(1) /\ g[2] = e[3] * Values(2)
            /\ g[3] = e[4] * Values(3) /\ g[4] = 0
        BY <1>1, <2>3, <3>5
      <4>2. g[1] = x2 /\ g[2] = x3 /\ g[3] = x4
        BY <1>4, <3>2, <4>1, Zenon
      <4>. QED
        BY <1>1, <2>2, <3>1, <3>3, <3>4, <3>5, <4>1, <4>2 DEF Kept
    <3>6. CASE w = 4
      <4>1. /\ g[1] = e[1] * Values(0) /\ g[2] = e[2] * Values(1)
            /\ g[3] = e[3] * Values(2) /\ g[4] = e[4] * Values(3)
        BY <1>1, <2>3, <3>6
      <4>2. e[1] * 1 = e[1]
        BY <3>1
      <4>3. g[1] = e[1] /\ g[2] = x2 /\ g[3] = x3 /\ g[4] = x4
        BY <1>4, <3>2, <4>1, <4>2, Zenon
      <4>4. LevelCode(b, f) = c
        BY <2>2, <3>3, <4>3, Zenon
      <4>5. Kept(c, f) = c
        BY <1>1, <3>6 DEF Kept
      <4>. QED
        BY <3>4, <4>4, <4>5, Zenon
    <3>. QED
      BY <2>7, <3>5, <3>6
  <2>. QED
    BY <2>5, <2>6, <2>7
<1>. QED
  BY <1>5, <1>7, <1>8

\* The largest level of so many bytes that is not above another.
Floor(x, b) == x - (x % Step(b))

LEMMA FloorIs ==
  ASSUME NEW x \in Int, NEW b \in 1..4
  PROVE  /\ Floor(x, b) \in Int /\ Multiple(Floor(x, b), Step(b))
         /\ x - Floor(x, b) \in 0..(Step(b) - 1)
         /\ (Multiple(x, Step(b)) => Floor(x, b) = x)
         /\ \A m \in Int : Multiple(m, Step(b)) /\ m <= x => m <= Floor(x, b)
         /\ (x \in -One..(One - 1) => Floor(x, b) \in -One..(One - 1))
         /\ (x >= 0 => Floor(x, b) >= 0)
<1>1. PICK s \in Nat \ {0} : s = Step(b)
  BY Steps
<1>2. PICK y \in Int : y = Floor(x, b) /\ Multiple(y, s) /\ x - y \in 0..(s - 1)
  <2>1. Multiple(x - (x % s), s) /\ x % s \in 0..(s - 1)
    BY Remainder
  <2>2. x - (x % s) \in Int /\ x - (x - (x % s)) \in 0..(s - 1)
    BY <2>1
  <2>. QED
    BY <1>1, <2>1, <2>2, Zenon DEF Floor
<1>3. ASSUME NEW m \in Int, Multiple(m, s), m <= x
      PROVE  m <= y
  <2>1. y < m => y + s <= m
    BY <1>2, <1>3, Multiples
  <2>. QED
    BY <1>2, <1>3, <2>1
<1>4. ASSUME Multiple(x, s) PROVE y = x
  BY <1>2, <1>3, <1>4
<1>5. Multiple(-One, s) /\ Multiple(0, s) /\ -One \in Int /\ One \in Int
  <2>1. One = Half(b) * Step(b) /\ Half(b) \in Int /\ One \in Int
    BY Steps, Halves
  <2>2. Multiple(One, s)
    BY <1>1, <2>1, Zenon DEF Multiple
  <2>3. Multiple(-One, s) /\ Multiple(One - One, s)
    BY <2>1, <2>2, Multiples
  <2>4. One - One = 0 /\ -One \in Int
    BY <2>1
  <2>5. Multiple(0, s)
    BY <2>3, <2>4, Zenon
  <2>. QED
    BY <2>1, <2>3, <2>4, <2>5
<1>6. x \in -One..(One - 1) => y \in -One..(One - 1)
  BY <1>2, <1>3, <1>5
<1>7. x >= 0 => y >= 0
  BY <1>2, <1>3, <1>5
<1>8. \A m \in Int : Multiple(m, s) /\ m <= x => m <= y
  BY <1>3
<1>. QED
  BY <1>1, <1>2, <1>4, <1>6, <1>7, <1>8, Zenon

\* What a code is above the level it stands for.
Above(x, t) ==
  CASE t.number = "float"    -> 4 * One
    [] t.number = "unsigned" -> One
    [] t.number = "signed"   -> IF x < 0 THEN 2 * One ELSE 0

LEMMA Coded ==
  ASSUME NEW t, Kind(t), NEW v, NEW x, Stands(v, x, t)
  PROVE  /\ CodeOf(v, t) \in Int
         /\ CodeOf(v, t) * Step(t.bytes) = x + Above(x, t)
<1>1. PICK b \in 1..4, s \in Nat \ {0}, z \in Nat \ {0} :
        b = t.bytes /\ s = Step(b) /\ z = Half(b) /\ One = z * s
  <2>1. t.bytes \in 1..4
    BY ZeroInNat
  <2>2. Step(t.bytes) \in Nat \ {0} /\ Half(t.bytes) \in Nat \ {0} /\ One = Half(t.bytes) * Step(t.bytes)
    BY <2>1, Steps, Halves
  <2>. QED
    BY <2>1, <2>2, Zenon
<1>2. v \in Int /\ x \in Int /\ Zero(t) \in Nat /\ One \in Nat \ {0}
  BY ZeroInNat, Steps DEF Stands, Fits
<1>3. PICK d \in Int : d = v - Zero(t) /\ d * s = x
  <2>1. v - Zero(t) \in Int /\ (v - Zero(t)) * s = x
    BY <1>1, <1>2 DEF Stands
  <2>. QED
    BY <2>1, Zenon
<1>4. CASE t.number = "float"
  <2>1. s = 1 /\ Zero(t) = 0 /\ Step(t.bytes) = 1
    BY <1>1, <1>4, Steps DEF Zero, Kind
  <2>2. v = x
    BY <1>2, <1>3, <2>1
  <2>3. CodeOf(v, t) = x + 4 * One /\ Above(x, t) = 4 * One
    BY <1>4, <2>2 DEF CodeOf, Above
  <2>. QED
    BY <1>2, <2>1, <2>3
<1>5. CASE t.number # "float"
  <2>1. d \in -z..(z - 1)
    <3>1. d * Step(b) \in -One..(One - 1)
      BY <1>1, <1>3, <1>5 DEF Stands, Fits
    <3>2. d \in -Half(b)..(Half(b) - 1)
      BY <3>1, WholeLevels
    <3>. QED
      BY <1>1, <3>2
  <2>2. CodeOf(v, t) = v % (2 * z)
    BY <1>1, <1>5 DEF CodeOf
  <2>3. CASE t.number = "unsigned"
    <3>1. v = d + z /\ v \in 0..(2 * z - 1)
      BY <1>1, <1>2, <1>3, <2>1, <2>3 DEF Zero
    <3>2. CodeOf(v, t) = d + z
      BY <2>2, <3>1
    <3>3. (d + z) * s = d * s + z * s
      OBVIOUS
    <3>4. Above(x, t) = One
      BY <2>3 DEF Above
    <3>5. CodeOf(v, t) * Step(t.bytes) = x + Above(x, t)
      BY <1>1, <1>3, <3>2, <3>3, <3>4, Zenon
    <3>. QED
      BY <3>2, <3>5
  <2>4. CASE t.number = "signed"
    <3>1. v = d
      BY <1>2, <1>3, <2>4 DEF Zero
    <3>2. d < 0 <=> x < 0
      <4>1. d >= 0 => 0 * s <= d * s /\ 0 * s = 0
        BY Products
      <4>2. d <= -1 => d * s <= (-1) * s /\ (-1) * s = -s
        BY Products
      <4>3. PICK g \in Int : g = d * s
        BY <1>2, <1>3
      <4>. QED
        BY <1>2, <1>3, <4>1, <4>2, <4>3
    <3>3. CASE d < 0
      <4>1. v % (2 * z) = d + 2 * z
        <5>1. d + 2 * z \in 0..(2 * z - 1) /\ d = (-1) * (2 * z) + (d + 2 * z) /\ 2 * z \in Nat \ {0}
          BY <2>1, <3>3
        <5>2. ((-1) * (2 * z) + (d + 2 * z)) % (2 * z) = d + 2 * z
          BY <5>1, Quotient
        <5>. QED
          BY <3>1, <5>1, <5>2, Zenon
      <4>2. (d + 2 * z) * s = d * s + 2 * (z * s)
        OBVIOUS
      <4>3. Above(x, t) = 2 * One
        BY <2>4, <3>2, <3>3 DEF Above
      <4>4. CodeOf(v, t) * Step(t.bytes) = x + Above(x, t)
        BY <1>1, <1>3, <2>2, <4>1, <4>2, <4>3, Zenon
      <4>5. d + 2 * z \in Int
        OBVIOUS
      <4>. QED
        BY <2>2, <4>1, <4>4, <4>5, Zenon
    <3>4. CASE ~(d < 0)
      <4>1. v % (2 * z) = d
        BY <2>1, <3>1, <3>4
      <4>2. Above(x, t) = 0
        BY <2>4, <3>2, <3>4 DEF Above
      <4>3. CodeOf(v, t) * Step(t.bytes) = x
        BY <1>1, <1>3, <2>2, <4>1, Zenon
      <4>. QED
        BY <1>2, <2>2, <4>1, <4>2, <4>3
    <3>. QED
      BY <3>3, <3>4
  <2>. QED
    BY <1>5, <2>3, <2>4 DEF Kind
<1>. QED
  BY <1>4, <1>5

\* The level of the bytes of a value, and of the value that is read from them: that
\* of the value, but for what three bytes of four lose.
LEMMA BytesKeepLevel ==
  ASSUME NEW f, IsFormat(f), NEW v, NEW x, Stands(v, x, Storage(f)),
         NEW b, Holding(b, BytesOf(v, Storage(f)), f)
  PROVE  /\ Level(b, f) = Floor(x, f.bytes)
         /\ Stands(FromBytes(b, f), Floor(x, f.bytes), Storage(f))
<1>. DEFINE t == Storage(f)
<1>1. /\ Kind(t) /\ t.number = f.number /\ f.bytes \in 1..4 /\ t.bytes \in 1..4
      /\ f.bytes # t.bytes => f.bytes = 3 /\ t.bytes = 4 /\ f.number # "float"
      /\ f.bytes = 3 => f.bytes # t.bytes
  BY Stored
<1>. HIDE DEF t
<1>2. PICK s \in Nat \ {0}, z \in Nat \ {0} : s = Step(t.bytes) /\ z = Half(t.bytes) /\ One = z * s
  <2>2. Step(t.bytes) \in Nat \ {0} /\ Half(t.bytes) \in Nat \ {0} /\ One = Half(t.bytes) * Step(t.bytes)
    BY <1>1, Steps, Halves
  <2>. QED
    BY <2>2, Zenon
<1>3. x \in Int /\ One \in Nat \ {0} /\ Base \in Nat \ {0}
  BY Steps, Sizes DEF Stands, Fits, t
<1>4. PICK y \in Int : y = Floor(x, f.bytes)
  BY <1>1, <1>3, FloorIs
<1>5. PICK c \in Int : c = CodeOf(v, t) /\ c * s = x + Above(x, t)
  <2>1. CodeOf(v, t) \in Int /\ CodeOf(v, t) * Step(t.bytes) = x + Above(x, t)
    BY <1>1, Coded DEF t
  <2>. QED
    BY <1>2, <2>1, Zenon
<1>6. PICK k \in Int : /\ k = Kept(c, f)
                       /\ CodeOfBytes([i \in 1..Padding(f) |-> 0] \o InOrder(b, f)) = k
                       /\ LevelCode(b, f) = k * s
  <2>1. /\ Kept(c, f) \in Int
        /\ CodeOfBytes([i \in 1..Padding(f) |-> 0] \o InOrder(b, f)) = Kept(c, f)
        /\ LevelCode(b, f) = Kept(c, f) * Step(t.bytes)
    BY <1>5, ReadsCode DEF t
  <2>. QED
    BY <1>2, <2>1, Zenon
<1>7. /\ f.number # "float" => x \in -One..(One - 1) /\ y \in -One..(One - 1)
      /\ x >= 0 => y >= 0
      /\ y <= x
  <2>1. f.number # "float" => x \in -One..(One - 1)
    BY <1>1 DEF Stands, Fits, t
  <2>2. /\ x - y \in 0..(Step(f.bytes) - 1)
        /\ (x \in -One..(One - 1) => y \in -One..(One - 1))
        /\ (x >= 0 => y >= 0)
    BY <1>1, <1>3, <1>4, FloorIs, Zenon
  <2>. QED
    BY <1>3, <2>1, <2>2
<1>8. Above(x, t) \in Int
  BY <1>1, <1>3 DEF Above, Kind
<1>9. k * s = y + Above(x, t)
  <2>1. CASE f.bytes # 3
    <3>1. k = c
      BY <1>6, <2>1 DEF Kept
    <3>2. y = x
      <4>1. CASE f.number = "float"
        <5>1. f.bytes = 4 /\ x = x * 1
          BY <1>3, <4>1 DEF IsFormat
        <5>2. Multiple(x, 1)
          BY <1>3, <5>1, Zenon DEF Multiple
        <5>3. Step(f.bytes) = 1
          BY <5>1, Steps
        <5>4. Multiple(x, Step(f.bytes))
          BY <5>2, <5>3, Zenon
        <5>. QED
          BY <1>1, <1>3, <1>4, <5>4, FloorIs, Zenon
      <4>2. CASE f.number # "float"
        <5>1. Multiple(x, Step(f.bytes))
          BY <1>1, <2>1, <4>2 DEF Stands, Fits, t
        <5>. QED
          BY <1>1, <1>3, <1>4, <5>1, FloorIs
      <4>. QED
        BY <4>1, <4>2
    <3>. QED
      BY <1>5, <3>1, <3>2, Zenon
  <2>2. CASE f.bytes = 3
    <3>1. t.bytes = 4 /\ s = 1 /\ Step(3) = Base /\ f.number # "float"
      BY <1>1, <1>2, <2>2, Steps
    <3>2. c = x + Above(x, t)
      BY <1>3, <1>5, <1>8, <3>1
    <3>3. Multiple(y, Base) /\ x - y \in 0..(Base - 1)
      BY <1>1, <1>3, <1>4, <2>2, <3>1, FloorIs
    <3>4. Multiple(Above(x, t), Base)
      <4>1. Multiple(One, Base) /\ Multiple(0, Base) /\ Multiple(2 * One, Base)
        <5>1. Multiple(One, Base)
          BY Steps
        <5>2. Multiple(One + One, Base) /\ Multiple(One - One, Base)
          BY <1>3, <5>1, Multiples
        <5>3. One + One = 2 * One /\ One - One = 0
          BY <1>3
        <5>. QED
          BY <5>1, <5>2, <5>3, Zenon
      <4>2. Above(x, t) = One \/ Above(x, t) = 2 * One \/ Above(x, t) = 0
        BY <1>1, <3>1 DEF Above, Kind
      <4>. QED
        BY <4>1, <4>2, Zenon
    <3>5. Multiple(y + Above(x, t), Base)
      BY <1>3, <1>8, <3>3, <3>4, Multiples
    <3>6. c - (y + Above(x, t)) \in 0..(Base - 1) /\ y + Above(x, t) \in Int
      BY <1>3, <1>8, <3>2, <3>3
    <3>7. y + Above(x, t) = c - (c % Base)
      BY <1>3, <3>5, <3>6, Floors
    <3>8. k = y + Above(x, t)
      BY <1>6, <2>2, <3>7 DEF Kept
    <3>. QED
      BY <3>1, <3>8
  <2>. QED
    BY <2>1, <2>2
<1>10. Level(b, f) = y
  <2>1. LevelCode(b, f) = y + Above(x, t)
    BY <1>6, <1>9, Zenon
  <2>2. CASE f.number = "float"
    <3>1. Level(b, f) = LevelCode(b, f) - 4 * One /\ Above(x, t) = 4 * One
      BY <1>1, <2>2, LevelOfCode DEF Above
    <3>. QED
      BY <1>3, <2>1, <3>1
  <2>3. CASE f.number = "unsigned"
    <3>1. Level(b, f) = LevelCode(b, f) - One /\ Above(x, t) = One
      BY <1>1, <2>3, LevelOfCode DEF Above
    <3>. QED
      BY <1>3, <2>1, <3>1
  <2>4. CASE f.number = "signed"
    <3>1. /\ Level(b, f) = IF LevelCode(b, f) < One THEN LevelCode(b, f) ELSE LevelCode(b, f) - 2 * One
          /\ Above(x, t) = IF x < 0 THEN 2 * One ELSE 0
      BY <1>1, <2>4, LevelOfCode DEF Above
    <3>2. CASE x < 0
      BY <1>3, <1>7, <2>1, <2>4, <3>1, <3>2
    <3>3. CASE ~(x < 0)
      <4>1. y >= 0 /\ y < One
        BY <1>3, <1>7, <2>4, <3>3
      <4>. QED
        BY <1>3, <2>1, <3>1, <3>3, <4>1
    <3>. QED
      BY <3>2, <3>3
  <2>. QED
    BY <2>2, <2>3, <2>4 DEF IsFormat
<1>11. FromBytes(b, f) = ValueOf(k, t)
  BY <1>6 DEF FromBytes, t
<1>12. Fits(y, t)
  <2>1. CASE f.number = "float"
    <3>1. Step(f.bytes) = 1 /\ x % 1 = 0
      <4>1. f.bytes = 4
        BY <2>1 DEF IsFormat
      <4>. QED
        BY <1>3, <4>1, Steps
    <3>2. y = x
      BY <1>3, <1>4, <3>1 DEF Floor
    <3>. QED
      BY <3>2 DEF Stands, t
  <2>2. CASE f.number # "float"
    <3>1. Multiple(y, Step(f.bytes))
      BY <1>1, <1>3, <1>4, FloorIs
    <3>2. Multiple(y, Step(t.bytes))
      <4>1. CASE f.bytes = t.bytes
        BY <3>1, <4>1
      <4>2. CASE f.bytes # t.bytes
        <5>1. Step(t.bytes) = 1 /\ y = y * 1
          BY <1>1, <4>2, Steps
        <5>. QED
          BY <5>1 DEF Multiple
      <4>. QED
        BY <4>1, <4>2
    <3>. QED
      BY <1>1, <1>7, <2>2, <3>2 DEF Fits
  <2>. QED
    BY <2>1, <2>2
<1>13. ValueOf(k, t) \in Int /\ (ValueOf(k, t) - Zero(t)) * s = y
  <2>0. z \in Int /\ One = z * s /\ Half(t.bytes) = z
    BY <1>2
  <2>1. CASE f.number = "float"
    <3>1. ValueOf(k, t) = k - 4 * One /\ Above(x, t) = 4 * One /\ Zero(t) = 0 /\ s = 1
      BY <1>1, <1>2, <2>1, Steps DEF ValueOf, Above, Zero, Kind
    <3>. QED
      BY <1>3, <1>9, <3>1
  <2>2. CASE f.number = "unsigned"
    <3>1. ValueOf(k, t) = k /\ Above(x, t) = One /\ Zero(t) = z
      BY <1>1, <2>0, <2>2 DEF ValueOf, Above, Zero
    <3>2. (k - z) * s = k * s - z * s
      OBVIOUS
    <3>3. (k - z) * s = y
      BY <1>3, <1>9, <2>0, <3>1, <3>2
    <3>. QED
      BY <3>1, <3>3
  <2>3. CASE f.number = "signed"
    <3>1. /\ ValueOf(k, t) = IF k >= z THEN k - 2 * z ELSE k
          /\ Above(x, t) = IF x < 0 THEN 2 * One ELSE 0
          /\ Zero(t) = 0
      BY <1>1, <2>0, <2>3 DEF ValueOf, Above, Zero
    <3>2. PICK g \in Int : g = k * s /\ g = y + Above(x, t)
      BY <1>8, <1>9
    <3>3. k >= z => z * s <= k * s
      BY Products
    <3>4. ~(k >= z) => k * s <= (z - 1) * s /\ (z - 1) * s = z * s - s
      BY Products
    <3>5. CASE x < 0
      <4>1. g >= One
        BY <1>3, <1>7, <2>3, <3>1, <3>2, <3>5
      <4>2. k >= z
        BY <1>2, <3>2, <3>4, <4>1
      <4>3. (k - 2 * z) * s = k * s - 2 * (z * s)
        OBVIOUS
      <4>4. ValueOf(k, t) = k - 2 * z /\ ValueOf(k, t) - Zero(t) = k - 2 * z
        BY <3>1, <4>2
      <4>5. (k - 2 * z) * s = y
        BY <1>2, <1>3, <3>1, <3>2, <3>5, <4>3
      <4>. QED
        BY <4>4, <4>5
    <3>6. CASE ~(x < 0)
      <4>1. g < One
        BY <1>3, <1>7, <2>3, <3>1, <3>2, <3>6
      <4>2. ~(k >= z)
        BY <1>2, <3>2, <3>3, <4>1
      <4>3. ValueOf(k, t) = k /\ ValueOf(k, t) - Zero(t) = k
        BY <3>1, <4>2
      <4>4. k * s = y
        BY <3>1, <3>2, <3>6
      <4>. QED
        BY <4>3, <4>4
    <3>. QED
      BY <3>5, <3>6
  <2>. QED
    BY <2>1, <2>2, <2>3 DEF IsFormat
<1>14. Stands(FromBytes(b, f), y, t)
  BY <1>2, <1>11, <1>12, <1>13, Zenon DEF Stands
<1>. QED
  BY <1>4, <1>10, <1>14 DEF t

-----------------------------------------------------------------------------
(* Levels along the way of a sample.                                       *)

\* What a conversion makes of a level.
Converted(x, y, t, u) ==
  CASE t.number = "float" /\ u.number = "float" -> y = x
    [] t.number = "float" /\ u.number # "float" -> Fixed(y, x, u.bytes)
    [] t.number # "float" /\ u.number = "float" -> y = RoundToFloat(x)
    [] OTHER -> /\ x - y \in 0..(Step(u.bytes) - 1)
                /\ (Multiple(x, Step(u.bytes)) => y = x)

LEMMA ConvertsLevel ==
  ASSUME NEW t, Kind(t), NEW u, Kind(u), NEW v, NEW x, Stands(v, x, t)
  PROVE  \E y \in Int : Stands(ConvertTo(u, v, t), y, u) /\ Converted(x, y, t, u)
<1>1. CASE t.number = "float" /\ u.number = "float"
  <2>1. ConvertTo(u, v, t) = v
    BY <1>1 DEF ConvertTo
  <2>2. Zero(t) = Zero(u) /\ Step(t.bytes) = Step(u.bytes)
    BY <1>1 DEF Zero, Kind
  <2>3. Stands(v, x, u) /\ x \in Int
    BY <1>1, <2>2 DEF Stands, Fits
  <2>4. Converted(x, x, t, u)
    BY <1>1 DEF Converted
  <2>. QED
    BY <2>1, <2>3, <2>4, Zenon
<1>2. CASE t.number = "float" /\ u.number # "float"
  <2>1. PICK y \in Int : Stands(ConvertTo(u, v, t), y, u) /\ Fixed(y, x, u.bytes)
    BY <1>2, FixesLevel
  <2>2. Converted(x, y, t, u)
    BY <1>2, <2>1 DEF Converted
  <2>. QED
    BY <2>1, <2>2
<1>3. CASE t.number # "float" /\ u.number = "float"
  <2>1. RoundToFloat(x) \in Int /\ Stands(ConvertTo(u, v, t), RoundToFloat(x), u)
    BY <1>3, FloatsLevel
  <2>2. Converted(x, RoundToFloat(x), t, u)
    BY <1>3 DEF Converted
  <2>. QED
    BY <2>1, <2>2, Zenon
<1>4. CASE t.number # "float" /\ u.number # "float"
  <2>1. PICK y \in Int : /\ Stands(ConvertTo(u, v, t), y, u)
                         /\ x - y \in 0..(Step(u.bytes) - 1)
                         /\ (Multiple(x, Step(u.bytes)) => y = x)
    BY <1>4, ShiftsLevel
  <2>2. Converted(x, y, t, u)
    BY <1>4, <2>1 DEF Converted
  <2>. QED
    BY <2>1, <2>2
<1>. QED
  BY <1>1, <1>2, <1>3, <1>4

\* The bound a float is clipped at.
LEMMA Clips ==
  ASSUME NEW x \in Int, NEW b \in {1, 2, 4}
  PROVE  /\ Clipped(x, b) = Clamp(x, -One, One - (IF b = 4 THEN Base ELSE Step(b)))
         /\ Clipped(x, b) \in Int
<1>1. Larger(Step(b), Epsilon) = (IF b = 4 THEN Base ELSE Step(b))
  BY Steps, Sizes DEF Larger, Epsilon
<1>2. One \in Int /\ Base \in Int /\ Step(b) \in Int
  BY Steps, Sizes
<1>3. Clipped(x, b) = Clamp(x, -One, One - (IF b = 4 THEN Base ELSE Step(b)))
  BY <1>1 DEF Clipped
<1>. QED
  BY <1>2, <1>3 DEF Clamp

LEMMA WideSteps ==
  /\ \A b \in 1..4 : /\ Multiple(One, Step(b)) /\ Multiple(-One, Step(b))
                     /\ (b # 4 => Multiple(Step(b), Base) /\ Base <= Step(b))
                     /\ Step(b) <= One
  /\ \A b \in 1..2 : 4 * Base <= Step(b)
  /\ Base \in Nat \ {0} /\ Base >= 4 /\ One \in Nat \ {0} /\ Step(4) = 1
  /\ \A b \in 1..4 : Step(b) \in Nat \ {0}
<1>1. /\ Step(4) = 1 /\ Step(3) = Base /\ Step(2) = Values(2) /\ Step(1) = Values(3)
      /\ \A b \in 1..4 : Step(b) \in Nat \ {0} /\ One = Half(b) * Step(b) /\ Half(b) \in Nat \ {0}
      /\ One \in Nat \ {0} /\ Base < Values(2) /\ Values(2) < Values(3) /\ 2 * Values(3) <= One
      /\ Multiple(Values(2), Base) /\ Multiple(Values(3), Values(2))
      /\ Base \in Nat \ {0} /\ Base >= 4 /\ Values(2) \in Nat /\ Values(3) \in Nat
      /\ Values(2) = Base * Base
  BY Steps, Sizes, Halves
<1>2. Multiple(Values(3), Base) /\ Multiple(Base, Base)
  <2>1. Multiple(Values(3), Base)
    BY <1>1, MultiplesNest
  <2>2. Base = 1 * Base
    BY <1>1
  <2>. QED
    BY <2>1, <2>2 DEF Multiple
<1>3. 4 * Base <= Values(2)
  <2>1. 4 * Base <= Base * Base
    BY <1>1, Products
  <2>. QED
    BY <1>1, <2>1
<1>4. ASSUME NEW b \in 1..4
      PROVE  /\ Multiple(One, Step(b)) /\ Multiple(-One, Step(b))
             /\ (b # 4 => Multiple(Step(b), Base) /\ Base <= Step(b))
             /\ Step(b) <= One
  <2>0. /\ One = Half(b) * Step(b) /\ Half(b) \in Int /\ One \in Int
        /\ Step(b) \in Nat \ {0}
    BY <1>1
  <2>1. Multiple(One, Step(b))
    BY <2>0, Zenon DEF Multiple
  <2>2. Multiple(-One, Step(b))
    BY <2>0, <2>1, Multiples
  <2>3. (b # 4 => Multiple(Step(b), Base) /\ Base <= Step(b))
    BY <1>1, <1>2
  <2>4. Step(b) <= One
    BY <1>1
  <2>. QED
    BY <2>1, <2>2, <2>3, <2>4
<1>5. \A b \in 1..2 : 4 * Base <= Step(b)
  BY <1>1, <1>3
<1>. QED
  BY <1>1, <1>4, <1>5

\* A level that both sides of a conversion have comes through it.
LEMMA ExactLevels ==
  ASSUME NEW t, Kind(t), NEW u, Kind(u), NEW x \in Int, NEW y, Converted(x, y, t, u),
         Holds(u, x), (t.number # "float" /\ u.number # "float") \/ Converts(x)
  PROVE  y = x
<1>1. CASE t.number = "float" /\ u.number = "float"
  BY <1>1 DEF Converted
<1>2. CASE t.number # "float" /\ u.number = "float"
  BY <1>2 DEF Converted, Holds
<1>3. CASE t.number # "float" /\ u.number # "float"
  <2>1. Multiple(x, Step(u.bytes))
    <3>1. x % Step(u.bytes) = 0 /\ Step(u.bytes) \in Nat \ {0}
      BY <1>3, ZeroInNat DEF Holds
    <3>. QED
      BY <3>1, Remainder
  <2>. QED
    BY <1>3, <2>1 DEF Converted
<1>4. CASE t.number = "float" /\ u.number # "float"
  <2>1. PICK b \in {1, 2, 4} : b = u.bytes
    BY <1>4 DEF Kind
  <2>2. PICK s \in Nat \ {0} : s = Step(b)
    BY <2>1, Steps
  <2>3. x \in -One..(One - 1) /\ Multiple(x, s) /\ Fixed(y, x, b) /\ Converts(x)
    <3>1. x \in -One..(One - 1) /\ x % s = 0
      BY <1>4, <2>1, <2>2 DEF Holds
    <3>2. Fixed(y, x, b) /\ Converts(x)
      BY <1>4, <2>1 DEF Converted
    <3>. QED
      BY <2>2, <3>1, <3>2, Remainder
  <2>4. Multiple(One, s) /\ One \in Int /\ Base \in Int
    BY <2>1, <2>2, WideSteps
  <2>5. x + s <= One
    BY <2>2, <2>3, <2>4, Multiples
  <2>6. Clipped(x, b) = x
    <3>1. x <= One - Base
      BY <2>3 DEF Converts, Epsilon
    <3>2. Clipped(x, b) = Clamp(x, -One, One - (IF b = 4 THEN Base ELSE s))
      BY <2>2, Clips
    <3>. QED
      BY <2>2, <2>3, <2>4, <2>5, <3>1, <3>2 DEF Clamp
  <2>7. CASE b = 4
    <3>1. x % 2 = 0 \/ Size(x) <= Half(3)
      <4>1. Half(3) \in Nat
        BY Halves
      <4>. QED
        BY <2>3, <4>1 DEF Converts, Size
    <3>2. Clipped(x, b) % 2 = 0 \/ Size(Clipped(x, b)) <= Half(3) => y = Clipped(x, b)
      BY <2>3, <2>7 DEF Fixed
    <3>. QED
      BY <2>6, <3>1, <3>2, Zenon
  <2>8. CASE b # 4
    <3>1. Multiple(Clipped(x, b), s) => y = Clipped(x, b)
      BY <2>2, <2>3, <2>8 DEF Fixed
    <3>. QED
      BY <2>3, <2>6, <3>1, Zenon
  <2>. QED
    BY <2>7, <2>8
<1>. QED
  BY <1>1, <1>2, <1>3, <1>4

\* The level of a float, clipped, and of the bytes an integer made of it is written as.
LEMMA ClippedNear ==
  ASSUME NEW x \in Int, NEW b \in {1, 2, 4}, NEW y \in Int, Fixed(y, x, b),
         (b # 4 => Multiple(y, Step(b))), NEW c \in 1..4,
         NEW l \in Nat, Step(b) <= l, Step(c) <= l, Base <= 2 * l
  PROVE  Clamp(x, -One, One - Epsilon) - Floor(y, c) \in -l..l
<1>1. PICK p \in Int : p = Clipped(x, b) /\ p = Clamp(x, -One, One - (IF b = 4 THEN Base ELSE Step(b)))
  <2>1. Clipped(x, b) \in Int
    BY Clips
  <2>2. Clipped(x, b) = Clamp(x, -One, One - (IF b = 4 THEN Base ELSE Step(b)))
    BY Clips
  <2>. QED
    BY <2>1, <2>2, Zenon
<1>2. /\ One \in Nat \ {0} /\ Base \in Nat \ {0} /\ Base >= 4 /\ Base <= One
  <2>1. Base <= Step(2) /\ Step(2) <= One /\ Step(2) \in Nat
    BY WideSteps
  <2>. QED
    BY <2>1, WideSteps
<1>3. PICK q \in Int : q = Clamp(x, -One, One - Epsilon)
  <2>1. Clamp(x, -One, One - Epsilon) \in Int
    BY <1>2 DEF Clamp, Epsilon
  <2>. QED
    BY <2>1, Zenon
<1>4. PICK s \in Nat \ {0}, r \in Nat \ {0} :
        /\ s = Step(b) /\ r = Step(c) /\ s <= l /\ r <= l
        /\ (c # 4 => Multiple(r, Base))
  <2>1. Step(b) \in Nat \ {0} /\ Step(c) \in Nat \ {0} /\ (c # 4 => Multiple(Step(c), Base))
    BY WideSteps
  <2>. QED
    BY <2>1
<1>5. PICK f \in Int : /\ f = Floor(y, c) /\ y - f \in 0..(r - 1) /\ Multiple(f, r)
                       /\ (Multiple(y, r) => f = y)
                       /\ \A m \in Int : Multiple(m, r) /\ m <= y => m <= f
  BY <1>4, FloorIs
<1>6. CASE b = 4
  <2>1. q = p
    BY <1>1, <1>3, <1>6 DEF Epsilon
  <2>2. /\ y - p \in -1..1
        /\ \A m \in Int : m % 2 = 0 => (m <= p => m <= y) /\ (p <= m => y <= m)
    BY <1>1, <1>6 DEF Fixed
  <2>3. CASE c = 4
    <3>1. r = 1 /\ y = y * 1
      BY <1>4, <2>3, WideSteps
    <3>2. Multiple(y, r)
      BY <3>1 DEF Multiple
    <3>3. f = y
      BY <1>5, <3>2
    <3>. QED
      BY <1>2, <1>3, <1>5, <2>1, <2>2, <3>3
  <2>4. CASE c # 4
    <3>1. PICK m \in Int : Multiple(m, r) /\ p - m \in 0..(r - 1)
      <4>1. Multiple(p - (p % r), r) /\ p % r \in 0..(r - 1)
        BY Remainder
      <4>2. p - (p % r) \in Int /\ p - (p - (p % r)) \in 0..(r - 1)
        BY <4>1
      <4>. QED
        BY <4>1, <4>2, Zenon
    <3>2. Multiple(r, 2)
      BY <1>2, <1>4, <2>4, MultiplesNest, Steps
    <3>3. m % 2 = 0 /\ (m + r) % 2 = 0
      <4>1. Multiple(m, 2)
        BY <3>1, <3>2, MultiplesNest
      <4>2. Multiple(m + r, 2)
        BY <3>2, <4>1, Multiples
      <4>. QED
        BY <4>1, <4>2, Multiples
    <3>4. m <= y /\ y <= m + r
      BY <2>2, <3>1, <3>3
    <3>5. m <= f
      BY <1>5, <3>1, <3>4
    <3>. QED
      BY <1>3, <1>4, <1>5, <2>1, <3>1, <3>4, <3>5
  <2>. QED
    BY <2>3, <2>4
<1>7. CASE b # 4
  <2>1. b \in {1, 2} /\ b \in 1..4
    BY <1>7
  <2>2. Multiple(y, s) /\ 4 * Base <= s /\ Multiple(One, s) /\ s <= One
    BY <1>4, <1>7, <2>1, WideSteps
  <2>3. /\ 2 * (y - p) <= s + Base /\ 2 * (p - y) <= s + Base
        /\ (Multiple(p, s) => y = p)
    BY <1>1, <1>4, <1>7 DEF Fixed
  <2>4. p = Clamp(x, -One, One - s)
    BY <1>1, <1>4, <1>7
  <2>5. q = p \/ (y = p /\ q - p \in 0..(s - Base))
    <3>1. CASE x <= One - s
      BY <1>2, <1>3, <2>2, <2>4, <3>1 DEF Clamp, Epsilon
    <3>2. CASE x > One - s
      <4>1. p = One - s
        BY <1>2, <2>2, <2>4, <3>2 DEF Clamp
      <4>2. Multiple(s, s)
        <5>1. s = 1 * s
          OBVIOUS
        <5>. QED
          BY <5>1 DEF Multiple
      <4>3. Multiple(p, s)
        BY <1>2, <2>2, <4>1, <4>2, Multiples
      <4>4. q - p \in 0..(s - Base)
        BY <1>2, <1>3, <2>2, <3>2, <4>1 DEF Clamp, Epsilon
      <4>. QED
        BY <2>3, <4>3, <4>4
    <3>. QED
      BY <1>2, <3>1, <3>2
  <2>6. CASE b <= c
    <3>1. Multiple(s, r)
      BY <1>4, <2>1, <2>6, Ratios
    <3>2. f = y
      BY <1>5, <2>2, <3>1, MultiplesNest
    <3>. QED
      BY <1>2, <1>3, <1>4, <1>5, <2>2, <2>3, <2>5, <3>2
  <2>7. CASE c < b
    <3>1. Multiple(r, s)
      BY <1>4, <2>1, <2>7, Ratios
    <3>2. Multiple(f + r, s)
      <4>1. Multiple(f, s)
        BY <1>5, <3>1, MultiplesNest
      <4>. QED
        BY <3>1, <4>1, Multiples
    <3>3. y + s <= f + r
      <4>1. y < f + r
        BY <1>5
      <4>. QED
        BY <2>2, <3>2, <4>1, Multiples
    <3>. QED
      BY <1>2, <1>3, <1>4, <1>5, <2>2, <2>3, <2>5, <3>3
  <2>. QED
    BY <2>1, <2>6, <2>7
<1>. QED
  BY <1>6, <1>7

\* The same of an integer that has become a float and is one again.
LEMMA ThereAndBack ==
  ASSUME NEW x \in -One..(One - 1), NEW b \in {1, 2, 4}, NEW y \in Int,
         Fixed(y, RoundToFloat(x), b), (b # 4 => Multiple(y, Step(b))),
         NEW c \in 1..4, (b # 4 => c = b), (b = 4 => c \in {3, 4}),
         NEW l \in Nat, Step(c) <= l, Base <= 2 * l
  PROVE  \/ x - Floor(y, c) \in -l..l
         \/ Clamp(x, -One, One - Epsilon) - Floor(y, c) \in -l..l
<1>1. /\ One \in Nat \ {0} /\ Base \in Nat \ {0} /\ Base >= 4 /\ x \in Int /\ Multiple(One, Base)
      /\ Base <= One
  <2>1. Base <= Step(2) /\ Step(2) <= One /\ Step(2) \in Nat /\ Step(3) = Base
    BY WideSteps, Steps
  <2>2. Multiple(One, Step(3))
    BY WideSteps
  <2>. QED
    BY <2>1, <2>2, WideSteps
<1>2. PICK z \in Int : /\ z = RoundToFloat(x)
                       /\ 4 * (z - x) <= Base /\ 4 * (x - z) <= Base
                       /\ \A m \in Int : Multiple(m, Base) => (m <= x => m <= z) /\ (x <= m => z <= m)
  <2>1. x \in -One..One
    BY <1>1
  <2>. QED
    BY <2>1, RoundsNear
<1>3. PICK p \in Int : p = Clipped(z, b) /\ p = Clamp(z, -One, One - (IF b = 4 THEN Base ELSE Step(b)))
  <2>1. Clipped(z, b) \in Int
    BY Clips
  <2>2. Clipped(z, b) = Clamp(z, -One, One - (IF b = 4 THEN Base ELSE Step(b)))
    BY Clips
  <2>. QED
    BY <2>1, <2>2, Zenon
<1>4. PICK r \in Nat \ {0} : r = Step(c) /\ r <= l
  BY WideSteps
<1>5. PICK f \in Int : /\ f = Floor(y, c) /\ y - f \in 0..(r - 1) /\ Multiple(f, r)
                       /\ (Multiple(y, r) => f = y)
                       /\ \A m \in Int : Multiple(m, r) /\ m <= y => m <= f
  BY <1>4, FloorIs
<1>6. -One <= z
  <2>1. Multiple(-One, Base) /\ -One \in Int
    BY <1>1, Multiples
  <2>. QED
    BY <1>1, <1>2, <2>1
<1>7. Fixed(y, z, b)
  BY <1>2, Zenon
<1>8. CASE b = 4
  <2>1. /\ y - p \in -1..1
        /\ (p % 2 = 0 => y = p)
        /\ \A m \in Int : m % 2 = 0 => (m <= p => m <= y) /\ (p <= m => y <= m)
    BY <1>3, <1>7, <1>8 DEF Fixed
  <2>2. p = (IF One - Base < z THEN One - Base ELSE z)
    BY <1>1, <1>3, <1>6, <1>8 DEF Clamp
  <2>3. CASE c = 4
    <3>1. r = 1 /\ y = y * 1
      BY <1>4, <2>3, WideSteps
    <3>2. Multiple(y, r)
      BY <3>1 DEF Multiple
    <3>3. f = y
      BY <1>5, <3>2
    <3>4. CASE z <= One - Base
      <4>1. p = z
        BY <1>1, <2>2, <3>4
      <4>2. x - f \in -l..l
        BY <1>1, <1>2, <2>1, <3>3, <4>1
      <4>. QED
        BY <1>5, <4>2
    <3>5. CASE ~(z <= One - Base)
      <4>1. p = One - Base
        BY <1>1, <2>2, <3>5
      <4>2. Multiple(One - Base, Base) /\ Multiple(Base, 2) /\ One - Base \in Int
        <5>1. Multiple(Base, Base)
          <6>1. Base = 1 * Base
            BY <1>1
          <6>. QED
            BY <6>1 DEF Multiple
        <5>. QED
          BY <1>1, <5>1, Multiples, Steps
      <4>3. y = p
        <5>1. Multiple(p, 2)
          <6>1. Multiple(p, Base) /\ Base \in Int
            BY <1>1, <4>1, <4>2
          <6>2. Multiple(Base, 2) /\ 2 \in Int
            BY <4>2
          <6>. QED
            BY <6>1, <6>2, MultiplesNest, Zenon
        <5>2. p % 2 = 0
          <6>1. PICK k \in Int : p = k * 2
            BY <5>1 DEF Multiple
          <6>. QED
            BY <6>1
        <5>. QED
          BY <2>1, <5>2
      <4>4. ~(x <= One - Base)
        BY <1>2, <3>5, <4>2
      <4>5. Clamp(x, -One, One - Epsilon) = One - Base
        BY <1>1, <4>4 DEF Clamp, Epsilon
      <4>6. Clamp(x, -One, One - Epsilon) - f \in -l..l
        BY <1>1, <3>3, <4>1, <4>3, <4>5
      <4>. QED
        BY <1>5, <4>6
    <3>. QED
      BY <3>4, <3>5
  <2>4. CASE c = 3
    <3>1. r = Base
      BY <1>4, <2>4, Steps
    <3>2. PICK m \in Int : Multiple(m, r) /\ x - m \in 0..(r - 1)
      <4>1. Multiple(x - (x % r), r) /\ x % r \in 0..(r - 1)
        BY <1>1, Remainder
      <4>2. x - (x % r) \in Int /\ x - (x - (x % r)) \in 0..(r - 1)
        BY <1>1, <4>1
      <4>. QED
        BY <4>1, <4>2, Zenon
    <3>3. Multiple(m + r, Base) /\ Multiple(m, Base)
      <4>1. Multiple(r, r)
        <5>1. r = 1 * r
          OBVIOUS
        <5>. QED
          BY <5>1 DEF Multiple
      <4>. QED
        BY <3>1, <3>2, <4>1, Multiples
    <3>4. m <= z /\ z <= m + r
      BY <1>1, <1>2, <3>2, <3>3
    <3>5. m <= One - Base
      <4>1. m < One
        BY <1>1, <3>2
      <4>2. m + Base <= One
        BY <1>1, <3>3, <4>1, Multiples
      <4>. QED
        BY <1>1, <4>2
    <3>6. m <= p /\ p <= m + r
      BY <1>1, <2>2, <3>1, <3>4, <3>5
    <3>7. m % 2 = 0 /\ (m + r) % 2 = 0
      <4>1. Multiple(m, 2) /\ Multiple(m + r, 2)
        BY <1>1, <3>3, MultiplesNest, Steps
      <4>. QED
        BY <4>1, Multiples
    <3>8. m <= y /\ y <= m + r
      BY <2>1, <3>6, <3>7
    <3>9. m <= f
      BY <1>5, <3>2, <3>8
    <3>10. x - f \in -l..l
      BY <1>1, <1>4, <1>5, <3>2, <3>8, <3>9
    <3>. QED
      BY <1>5, <3>10
  <2>. QED
    BY <1>8, <2>3, <2>4
<1>9. CASE b # 4
  <2>1. b \in {1, 2} /\ c = b
    BY <1>9
  <2>2. Multiple(y, r) /\ 4 * Base <= r /\ Multiple(One, r) /\ Multiple(r, Base) /\ r <= One
    BY <1>4, <1>9, <2>1, WideSteps
  <2>3. /\ 2 * (y - p) <= r + Base /\ 2 * (p - y) <= r + Base
        /\ (Multiple(p, r) => y = p)
    BY <1>3, <1>4, <1>7, <1>9, <2>1 DEF Fixed
  <2>4. p = (IF One - r < z THEN One - r ELSE z)
    BY <1>1, <1>3, <1>4, <1>6, <1>9, <2>1, <2>2 DEF Clamp
  <2>5. f = y
    BY <1>5, <2>2
  <2>6. CASE z <= One - r
    <3>1. x - f \in -l..l
      BY <1>1, <1>2, <1>4, <2>2, <2>3, <2>4, <2>5, <2>6
    <3>. QED
      BY <1>5, <3>1
  <2>7. CASE ~(z <= One - r)
    <3>1. p = One - r
      BY <1>1, <2>4, <2>7
    <3>2. Multiple(One - r, r)
      <4>1. Multiple(r, r)
        <5>1. r = 1 * r
          OBVIOUS
        <5>. QED
          BY <5>1 DEF Multiple
      <4>. QED
        BY <1>1, <2>2, <4>1, Multiples
    <3>3. y = One - r
      BY <2>3, <3>1, <3>2
    <3>4. ~(x <= One - r)
      <4>1. Multiple(One - r, Base) /\ One - r \in Int
        BY <1>1, <2>2, <3>2, MultiplesNest
      <4>. QED
        BY <1>2, <2>7, <4>1
    <3>5. x - f \in -l..l
      BY <1>1, <1>4, <2>5, <3>3, <3>4
    <3>. QED
      BY <1>5, <3>5
  <2>. QED
    BY <2>6, <2>7
<1>. QED
  BY <1>8, <1>9

\* What SamplesAreNear says of the level of one sample before and after the copy.
NearLevels(x, y, f, t, g) ==
  LET floats == {k \in {f, t, g} : k.number = "float"}
      coarse == Larger(Unit(f), Larger(Unit(t), Unit(g)))
  IN
  /\ Holds(t, x) /\ Holds(g, x) /\ (floats = {} \/ Converts(x)) => y = x
  /\ floats = {} => x - y \in 0..(coarse - 1)
  /\ floats = {f, t, g} => y = x
  /\ floats # {} /\ floats # {f, t, g} =>
       x - y \in -coarse..coarse \/ Clamp(x, -One, One - Epsilon) - y \in -coarse..coarse

\* The types that have levels of their own: those of values and those of formats.
LEMMA UnitOfType ==
  ASSUME NEW t, t.bytes \in 1..4, (t.number = "float" => t.bytes = 4)
  PROVE  /\ Unit(t) \in Nat
         /\ (t.number # "float" => Step(t.bytes) = Unit(t))
         /\ (t.number = "float" => Base <= 2 * Unit(t) /\ Step(t.bytes) <= Unit(t))
<1>1. Step(t.bytes) \in Nat \ {0} /\ Base \in Nat \ {0} /\ Base >= 4 /\ Step(4) = 1
  BY WideSteps
<1>2. Base = 2 * (Base \div 2) /\ Base \div 2 \in Nat
  BY PcmConversionAssumption
<1>3. CASE t.number = "float"
  <2>1. Unit(t) = Base \div 2
    BY <1>3 DEF Unit, Epsilon
  <2>2. Step(t.bytes) = 1
    BY <1>1, <1>3
  <2>. QED
    BY <1>1, <1>2, <1>3, <2>1, <2>2
<1>4. CASE t.number # "float"
  BY <1>1, <1>4 DEF Unit
<1>. QED
  BY <1>3, <1>4

\* Between integers a level becomes the next that the coarsest of them has below.
LEMMA IntegersNear ==
  ASSUME NEW a \in 1..4, NEW b \in 1..4, NEW c \in 1..4, NEW l \in Nat \ {0},
         NEW x \in Int, NEW y \in Int, NEW z \in Int,
         x - y \in 0..(Step(a) - 1), y - z \in 0..(Step(b) - 1),
         Multiple(y, Step(a)), Multiple(z, Step(b)),
         Step(a) <= l, Step(b) <= l, Step(c) <= l
  PROVE  x - Floor(z, c) \in 0..(l - 1)
<1>1. PICK k \in 1..4 : /\ Step(k) <= l /\ Multiple(Step(k), Step(a))
                      /\ Multiple(Step(k), Step(b)) /\ Multiple(Step(k), Step(c))
  <2>1. \A i \in 1..4, j \in 1..4 : i <= j => Multiple(Step(i), Step(j))
    BY Ratios
  <2>2. PICK k \in {a, b, c} : k <= a /\ k <= b /\ k <= c
    <3>1. CASE a <= b /\ a <= c
      BY <3>1
    <3>2. CASE b <= a /\ b <= c
      BY <3>2
    <3>3. CASE c <= a /\ c <= b
      BY <3>3
    <3>. QED
      BY <3>1, <3>2, <3>3
  <2>3. k \in 1..4 /\ Step(k) <= l
    BY <2>2
  <2>4. Multiple(Step(k), Step(a)) /\ Multiple(Step(k), Step(b)) /\ Multiple(Step(k), Step(c))
    BY <2>1, <2>2, <2>3
  <2>. QED
    BY <2>3, <2>4
<1>2. PICK s \in Nat \ {0}, p \in Nat \ {0}, q \in Nat \ {0}, r \in Nat \ {0} :
        s = Step(k) /\ p = Step(a) /\ q = Step(b) /\ r = Step(c)
  <2>1. Step(k) \in Nat \ {0} /\ Step(a) \in Nat \ {0} /\ Step(b) \in Nat \ {0} /\ Step(c) \in Nat \ {0}
    BY WideSteps
  <2>. QED
    BY <2>1, Zenon
<1>3. PICK m \in Int : Multiple(m, s) /\ x - m \in 0..(s - 1)
  <2>1. Multiple(x - (x % s), s) /\ x % s \in 0..(s - 1)
    BY Remainder
  <2>2. x - (x % s) \in Int /\ x - (x - (x % s)) \in 0..(s - 1)
    BY <2>1
  <2>. QED
    BY <2>1, <2>2, Zenon
<1>4. Multiple(m, p) /\ Multiple(m, q) /\ Multiple(m, r)
  <2>1. Multiple(s, p) /\ Multiple(s, q) /\ Multiple(s, r)
    BY <1>1, <1>2, Zenon
  <2>. QED
    BY <1>3, <2>1, MultiplesNest
<1>5. m <= y
  <2>1. Multiple(y, p) /\ x - y \in 0..(p - 1)
    BY <1>2, Zenon
  <2>2. y < m => y + p <= m
    BY <1>4, <2>1, Multiples
  <2>. QED
    BY <1>3, <2>1, <2>2
<1>6. m <= z
  <2>1. Multiple(z, q) /\ y - z \in 0..(q - 1)
    BY <1>2, Zenon
  <2>2. z < m => z + q <= m
    BY <1>4, <2>1, Multiples
  <2>. QED
    BY <1>5, <2>1, <2>2
<1>7. PICK f \in Int : f = Floor(z, c) /\ m <= f /\ f <= z
  <2>1. /\ Floor(z, c) \in Int /\ z - Floor(z, c) \in 0..(r - 1)
        /\ \A i \in Int : Multiple(i, r) /\ i <= z => i <= Floor(z, c)
    BY <1>2, FloorIs
  <2>2. m <= Floor(z, c) /\ Floor(z, c) <= z
    BY <1>4, <1>6, <2>1
  <2>. QED
    BY <2>1, <2>2, Zenon
<1>8. y <= x /\ z <= y /\ s <= l
  BY <1>1, <1>2
<1>. QED
  BY <1>3, <1>7, <1>8

\* A sample that a copy reads and writes: the clauses one by one.
LEMMA WayIsNear ==
  ASSUME NEW f, IsFormat(f), NEW t, Kind(t), NEW g, IsFormat(g),
         NEW x1 \in Int, NEW x2 \in Int, NEW x3 \in Int,
         Fits(x1, Storage(f)), Fits(x2, t), Fits(x3, Storage(g)),
         Converted(x1, x2, Storage(f), t), Converted(x2, x3, t, Storage(g))
  PROVE  NearLevels(x1, Floor(x3, g.bytes), f, t, g)
<1>. DEFINE s == Storage(f)
            u == Storage(g)
            y == Floor(x3, g.bytes)
            floats == {k \in {f, t, g} : k.number = "float"}
            coarse == Larger(Unit(f), Larger(Unit(t), Unit(g)))
<1>1. /\ Kind(s) /\ s.number = f.number /\ f.bytes \in 1..4 /\ s.bytes \in 1..4
      /\ (f.number = "float" => f.bytes = 4)
  BY Stored DEF IsFormat
<1>2. /\ Kind(u) /\ u.number = g.number /\ g.bytes \in 1..4 /\ u.bytes \in {1, 2, 4} /\ u.bytes \in 1..4
      /\ (g.number = "float" => g.bytes = 4 /\ u.bytes = 4)
      /\ (u.bytes # 4 => g.bytes = u.bytes) /\ (u.bytes = 4 => g.bytes \in {3, 4})
  BY Stored DEF IsFormat
<1>3. t.bytes \in 1..4 /\ t.bytes \in {1, 2, 4} /\ (t.number = "float" => t.bytes = 4)
  BY DEF Kind
<1>. HIDE DEF s, u
<1>4. /\ floats = {} <=> f.number # "float" /\ t.number # "float" /\ g.number # "float"
      /\ floats = {f, t, g} <=> f.number = "float" /\ t.number = "float" /\ g.number = "float"
  OBVIOUS
<1>5. /\ coarse \in Nat
      /\ Step(f.bytes) <= coarse /\ Step(t.bytes) <= coarse /\ Step(g.bytes) <= coarse
      /\ (f.number = "float" \/ t.number = "float" \/ g.number = "float" => Base <= 2 * coarse)
  <2>1. /\ Unit(f) \in Nat /\ (f.number # "float" => Step(f.bytes) = Unit(f))
        /\ (f.number = "float" => Base <= 2 * Unit(f) /\ Step(f.bytes) <= Unit(f))
    BY <1>1, UnitOfType
  <2>2. /\ Unit(t) \in Nat /\ (t.number # "float" => Step(t.bytes) = Unit(t))
        /\ (t.number = "float" => Base <= 2 * Unit(t) /\ Step(t.bytes) <= Unit(t))
    BY <1>3, UnitOfType
  <2>3. /\ Unit(g) \in Nat /\ (g.number # "float" => Step(g.bytes) = Unit(g))
        /\ (g.number = "float" => Base <= 2 * Unit(g) /\ Step(g.bytes) <= Unit(g))
    BY <1>2, UnitOfType
  <2>4. Base \in Nat /\ Step(f.bytes) \in Nat /\ Step(t.bytes) \in Nat /\ Step(g.bytes) \in Nat
    BY <1>1, <1>2, <1>3, WideSteps
  <2>5. PICK a \in Nat, b \in Nat, c \in Nat : a = Unit(f) /\ b = Unit(t) /\ c = Unit(g)
    BY <2>1, <2>2, <2>3, Zenon
  <2>6. coarse = Larger(a, Larger(b, c))
    BY <2>5, Zenon
  <2>. HIDE DEF coarse
  <2>7. coarse \in Nat /\ a <= coarse /\ b <= coarse /\ c <= coarse
    BY <2>6 DEF Larger
  <2>8. Step(f.bytes) <= a /\ (f.number = "float" => Base <= 2 * a)
    BY <2>1, <2>4, <2>5
  <2>9. Step(t.bytes) <= b /\ (t.number = "float" => Base <= 2 * b)
    BY <2>2, <2>4, <2>5
  <2>10. Step(g.bytes) <= c /\ (g.number = "float" => Base <= 2 * c)
    BY <2>3, <2>4, <2>5
  <2>. QED
    BY <2>4, <2>7, <2>8, <2>9, <2>10
<1>6. PICK l \in Nat : l = coarse
  BY <1>5, Zenon
<1>7. /\ Step(f.bytes) <= l /\ Step(t.bytes) <= l /\ Step(g.bytes) <= l
      /\ (f.number = "float" \/ t.number = "float" \/ g.number = "float" => Base <= 2 * l)
  BY <1>5, <1>6, Zenon
<1>8. Step(u.bytes) <= l
  <2>1. CASE u.bytes = 4
    <3>1. Step(u.bytes) = 1 /\ Step(g.bytes) \in Nat \ {0}
      BY <1>2, <2>1, WideSteps
    <3>. QED
      BY <1>7, <3>1
  <2>2. CASE u.bytes # 4
    BY <1>2, <1>7, <2>2
  <2>. QED
    BY <2>1, <2>2
<1>. HIDE DEF coarse
<1>9. y \in Int /\ (Multiple(x3, Step(g.bytes)) => y = x3)
  BY <1>2, FloorIs
<1>10. /\ Fits(x1, s) /\ Fits(x2, t) /\ Fits(x3, u)
       /\ Converted(x1, x2, s, t) /\ Converted(x2, x3, t, u)
  BY DEF s, u
<1>11. (u.number # "float" /\ u.bytes = g.bytes) \/ u.number = "float" => y = x3
  <2>1. CASE u.number # "float" /\ u.bytes = g.bytes
    BY <1>9, <1>10, <2>1 DEF Fits
  <2>2. CASE u.number = "float"
    <3>1. Step(g.bytes) = 1 /\ x3 = x3 * 1
      BY <1>2, <2>2, WideSteps
    <3>2. Multiple(x3, Step(g.bytes))
      BY <3>1 DEF Multiple
    <3>. QED
      BY <1>9, <3>2
  <2>. QED
    BY <2>1, <2>2
<1>. HIDE DEF y
<1>12. ASSUME Holds(t, x1), Holds(g, x1), floats = {} \/ Converts(x1)
       PROVE  y = x1
  <2>1. x2 = x1
    <3>1. (s.number # "float" /\ t.number # "float") \/ Converts(x1)
      BY <1>1, <1>4, <1>12
    <3>. QED
      BY <1>1, <1>10, <1>12, <3>1, ExactLevels
  <2>2. x3 = x1
    <3>1. (t.number # "float" /\ u.number # "float") \/ Converts(x1)
      BY <1>2, <1>4, <1>12
    <3>2. Holds(u, x1)
      <4>1. CASE g.number = "float"
        BY <1>2, <1>12, <4>1 DEF Holds
      <4>2. CASE g.number # "float"
        <5>1. x1 \in -One..(One - 1) /\ x1 % Step(g.bytes) = 0
          BY <1>12, <4>2 DEF Holds
        <5>2. x1 % Step(u.bytes) = 0
          <6>1. CASE u.bytes = 4
            BY <6>1, WideSteps
          <6>2. CASE u.bytes # 4
            BY <1>2, <5>1, <6>2
          <6>. QED
            BY <6>1, <6>2
        <5>. QED
          BY <1>2, <4>2, <5>1, <5>2 DEF Holds
      <4>. QED
        BY <4>1, <4>2
    <3>3. Converted(x1, x3, t, u)
      BY <1>10, <2>1
    <3>. QED
      BY <1>2, <3>1, <3>2, <3>3, ExactLevels
  <2>3. CASE g.number = "float"
    BY <1>2, <1>11, <2>2, <2>3
  <2>4. CASE g.number # "float"
    <3>1. Multiple(x1, Step(g.bytes))
      <4>1. x1 % Step(g.bytes) = 0 /\ Step(g.bytes) \in Nat \ {0}
        BY <1>2, <1>12, <2>4, WideSteps DEF Holds
      <4>. QED
        BY <4>1, Remainder
    <3>. QED
      BY <1>9, <2>2, <3>1
  <2>. QED
    BY <2>3, <2>4
<1>13. ASSUME floats = {}
       PROVE  x1 - y \in 0..(coarse - 1)
  <2>1. s.number # "float" /\ t.number # "float" /\ u.number # "float"
    BY <1>1, <1>2, <1>4, <1>13
  <2>2. x1 - x2 \in 0..(Step(t.bytes) - 1) /\ x2 - x3 \in 0..(Step(u.bytes) - 1)
    BY <1>10, <2>1 DEF Converted
  <2>3. Multiple(x2, Step(t.bytes)) /\ Multiple(x3, Step(u.bytes))
    BY <1>10, <2>1 DEF Fits
  <2>4. l \in Nat \ {0}
    <3>1. Step(g.bytes) \in Nat \ {0}
      BY <1>2, WideSteps
    <3>. QED
      BY <1>7, <3>1
  <2>5. x1 - Floor(x3, g.bytes) \in 0..(l - 1)
    BY <1>2, <1>3, <1>7, <1>8, <2>2, <2>3, <2>4, IntegersNear
  <2>. QED
    BY <1>6, <2>5 DEF y
<1>14. ASSUME floats = {f, t, g}
       PROVE  y = x1
  BY <1>1, <1>2, <1>4, <1>10, <1>11, <1>14 DEF Converted
<1>15. ASSUME floats # {}, floats # {f, t, g}
       PROVE  x1 - y \in -l..l \/ Clamp(x1, -One, One - Epsilon) - y \in -l..l
  <2>0. Base <= 2 * l /\ Base >= 4 /\ Base \in Nat /\ One \in Nat
    BY <1>4, <1>7, <1>15, WideSteps
  <2>1. CASE s.number # "float" /\ t.number = "float"
    <3>1. x2 = RoundToFloat(x1) /\ x1 \in -One..(One - 1)
      BY <1>10, <2>1 DEF Converted, Fits
    <3>2. 4 * (x2 - x1) <= Base /\ 4 * (x1 - x2) <= Base
      <4>1. x1 \in -One..One
        BY <2>0, <3>1
      <4>. QED
        BY <3>1, <4>1, RoundsNear
    <3>3. CASE u.number = "float"
      <4>1. y = x2
        BY <1>10, <1>11, <2>1, <3>3 DEF Converted
      <4>. QED
        BY <2>0, <3>2, <4>1
    <3>4. CASE u.number # "float"
      <4>1. Fixed(x3, RoundToFloat(x1), u.bytes)
        BY <1>10, <2>1, <3>1, <3>4 DEF Converted
      <4>2. u.bytes # 4 => Multiple(x3, Step(u.bytes))
        BY <1>10, <3>4 DEF Fits
      <4>3. \/ x1 - Floor(x3, g.bytes) \in -l..l
            \/ Clamp(x1, -One, One - Epsilon) - Floor(x3, g.bytes) \in -l..l
        BY <1>2, <1>7, <2>0, <3>1, <4>1, <4>2, ThereAndBack
      <4>. QED
        BY <4>3 DEF y
    <3>. QED
      BY <3>3, <3>4
  <2>2. CASE s.number # "float" /\ t.number # "float"
    <3>1. u.number = "float"
      BY <1>1, <1>2, <1>4, <1>15, <2>2
    <3>2. x3 = RoundToFloat(x2) /\ x2 \in -One..(One - 1) /\ Multiple(x2, Step(t.bytes))
      BY <1>10, <2>2, <3>1 DEF Converted, Fits
    <3>3. /\ x1 - x2 \in 0..(Step(t.bytes) - 1)
          /\ Step(t.bytes) \in Nat \ {0}
      BY <1>3, <1>10, <2>2, WideSteps DEF Converted
    <3>4. /\ 4 * (x3 - x2) <= Base /\ 4 * (x2 - x3) <= Base
          /\ (Multiple(x2, Base) => x3 <= x2 /\ x2 <= x3)
      <4>1. x2 \in -One..One
        BY <2>0, <3>2
      <4>. QED
        BY <3>2, <4>1, RoundsNear
    <3>5. y = x3
      BY <1>11, <3>1
    <3>6. CASE t.bytes = 4
      <4>1. x1 = x2
        BY <3>3, <3>6, WideSteps
      <4>. QED
        BY <2>0, <3>4, <3>5, <4>1
    <3>7. CASE t.bytes # 4
      <4>1. Multiple(x2, Base)
        <5>1. Multiple(Step(t.bytes), Base) /\ Step(t.bytes) \in Int /\ Base \in Int
          BY <1>3, <2>0, <3>3, <3>7, WideSteps
        <5>. QED
          BY <3>2, <5>1, MultiplesNest
      <4>2. x3 = x2
        BY <3>4, <4>1
      <4>. QED
        BY <1>7, <3>3, <3>5, <4>2
    <3>. QED
      BY <3>6, <3>7
  <2>3. CASE s.number = "float" /\ t.number # "float"
    <3>1. Fixed(x2, x1, t.bytes)
      BY <1>10, <2>3 DEF Converted
    <3>2. x2 \in -One..(One - 1) /\ Multiple(x2, Step(t.bytes))
      BY <1>10, <2>3 DEF Fits
    <3>3. CASE u.number # "float"
      <4>1. Floor(x2, g.bytes) = y
        <5>1. /\ x2 - x3 \in 0..(Step(u.bytes) - 1) /\ Multiple(x3, Step(u.bytes))
          BY <1>10, <2>3, <3>3 DEF Converted, Fits
        <5>2. CASE u.bytes = g.bytes
          <6>1. y = x3
            BY <1>11, <3>3, <5>2
          <6>2. /\ Step(g.bytes) \in Nat \ {0} /\ x2 - x3 \in 0..(Step(g.bytes) - 1)
                /\ Multiple(x3, Step(g.bytes))
            BY <1>2, <5>1, <5>2, WideSteps
          <6>3. x3 = x2 - (x2 % Step(g.bytes))
            BY <6>2, Floors
          <6>. QED
            BY <6>1, <6>3 DEF Floor
        <5>3. CASE u.bytes # g.bytes
          <6>1. x3 = x2
            BY <1>2, <5>1, <5>3, WideSteps
          <6>. QED
            BY <6>1 DEF y
        <5>. QED
          BY <5>2, <5>3
      <4>2. Clamp(x1, -One, One - Epsilon) - Floor(x2, g.bytes) \in -l..l
        BY <1>2, <1>3, <1>7, <2>0, <3>1, <3>2, ClippedNear
      <4>. QED
        BY <4>1, <4>2
    <3>4. CASE u.number = "float"
      <4>1. x3 = RoundToFloat(x2) /\ y = x3
        BY <1>10, <1>11, <2>3, <3>4 DEF Converted
      <4>2. /\ 4 * (x3 - x2) <= Base /\ 4 * (x2 - x3) <= Base
            /\ (Multiple(x2, Base) => x3 <= x2 /\ x2 <= x3)
        <5>1. x2 \in -One..One
          BY <2>0, <3>2
        <5>. QED
          BY <4>1, <5>1, RoundsNear
      <4>3. CASE t.bytes = 4
        <5>1. PICK p \in Int : p = Clipped(x1, 4) /\ p = Clamp(x1, -One, One - Base)
          <6>1. /\ Clipped(x1, 4) = Clamp(x1, -One, One - (IF 4 = 4 THEN Base ELSE Step(4)))
                /\ Clipped(x1, 4) \in Int
            BY Clips
          <6>. QED
            BY <6>1
        <5>2. x2 - p \in -1..1
          BY <3>1, <4>3, <5>1 DEF Fixed
        <5>3. p - y \in -l..l
          BY <2>0, <4>1, <4>2, <5>2
        <5>4. Clamp(x1, -One, One - Epsilon) = p
          BY <5>1 DEF Epsilon
        <5>. QED
          BY <5>3, <5>4
      <4>4. CASE t.bytes # 4
        <5>1. Multiple(x2, Base)
          <6>1. Multiple(Step(t.bytes), Base) /\ Step(t.bytes) \in Int /\ Base \in Int
            BY <1>3, <2>0, <4>4, WideSteps
          <6>. QED
            BY <3>2, <6>1, MultiplesNest
        <5>2. y = x2
          BY <4>1, <4>2, <5>1
        <5>3. Floor(x2, 4) = x2
          <6>1. Step(4) = 1 /\ x2 % 1 = 0
            BY WideSteps
          <6>. QED
            BY <6>1 DEF Floor
        <5>4. Step(4) <= l
          BY <2>0, WideSteps
        <5>5. Clamp(x1, -One, One - Epsilon) - Floor(x2, 4) \in -l..l
          BY <1>3, <1>7, <2>0, <3>1, <3>2, <5>4, ClippedNear
        <5>. QED
          BY <5>2, <5>3, <5>5
      <4>. QED
        BY <4>3, <4>4
    <3>. QED
      BY <3>3, <3>4
  <2>4. CASE s.number = "float" /\ t.number = "float"
    <3>1. u.number # "float" /\ x2 = x1
      BY <1>1, <1>2, <1>4, <1>10, <1>15, <2>4 DEF Converted
    <3>2. Fixed(x3, x1, u.bytes)
      BY <1>10, <2>4, <3>1 DEF Converted
    <3>3. Multiple(x3, Step(u.bytes))
      BY <1>10, <3>1 DEF Fits
    <3>4. Clamp(x1, -One, One - Epsilon) - Floor(x3, g.bytes) \in -l..l
      BY <1>2, <1>7, <1>8, <2>0, <3>2, <3>3, ClippedNear
    <3>. QED
      BY <3>4 DEF y
  <2>. QED
    BY <2>1, <2>2, <2>3, <2>4
<1>16. floats # {} /\ floats # {f, t, g} =>
         x1 - y \in -coarse..coarse \/ Clamp(x1, -One, One - Epsilon) - y \in -coarse..coarse
  BY <1>6, <1>15, Zenon
<1>. QED
  BY <1>12, <1>13, <1>14, <1>16 DEF NearLevels, y, floats, coarse

-----------------------------------------------------------------------------
(* Numbers of samples and of bytes.                                        *)

LEMMA Widths ==
  ASSUME from \in Indices, to \in Indices
  PROVE  In.bytes \in 1..4 /\ Out.bytes \in 1..4
BY PcmCopyAssumption DEF In, Out, Indices

\* Equal numbers of bytes are equal numbers of samples.
LEMMA SamplesOfBytes ==
  ASSUME NEW w \in 1..4, NEW k \in Nat
  PROVE  /\ (k * w) \div w = k
         /\ k * w \in Nat
         /\ (k + 1) * w = k * w + w
         /\ \A n \in Nat : k * w = n * w <=> k = n
<1>1. w = 1 \/ w = 2 \/ w = 3 \/ w = 4
  OBVIOUS
<1>. QED
  BY <1>1

\* Whatever its value is, a sample is written as the bytes of its format.
LEMMA WrittenBytes ==
  ASSUME NEW val, NEW format, NEW t, format.bytes \in 1..4
  PROVE  DOMAIN WriteSample(val, format, t) = 1..format.bytes
<1>. DEFINE whole == BytesOf(ConvertTo(Storage(format), val, t), Storage(format))
            n     == Storage(format).bytes
            part  == SubSeq(whole, Padding(format) + 1, n)
<1>1. /\ n \in Nat /\ Padding(format) \in Nat
      /\ n - Padding(format) = format.bytes
  BY DEF Storage, Padding
<1>2. DOMAIN whole = 1..n
  BY DEF BytesOf
<1>. HIDE DEF whole, n
<1>. DEFINE rest == {whole[i] : i \in 1..n}
<1>3. \A i \in (Padding(format) + 1)..n : whole[i] \in rest
  BY <1>1
<1>4. DOMAIN part = 1..format.bytes
  BY <1>1, <1>3, SubSeqProperties
<1>. QED
  BY <1>4 DEF WriteSample, ToBytes, InOrder, whole, n

-----------------------------------------------------------------------------
(* The copy.                                                               *)

\* The two iterators have gone over as many samples, and what lies behind the second
\* of them is as it was.
Gone(k) ==
  /\ k \in 0..Smaller(counts[1], counts[2])
  /\ ipos = k * In.bytes /\ opos = k * Out.bytes

CopyInv ==
  /\ from \in Indices /\ to \in Indices
  /\ counts \in Nat \X Nat
  /\ \E k \in Nat : Gone(k) /\ (phase = "done" => k = Smaller(counts[1], counts[2]))
  /\ \A i \in DOMAIN dest : i > opos => dest[i] = Untouched
  /\ DOMAIN dest \subseteq Nat
  /\ phase \in {"start", "thrown"} => opos = 0

LEMMA InitCopy == Init => CopyInv
<1>. SUFFICES ASSUME Init PROVE CopyInv
  OBVIOUS
<1>1. /\ from \in Indices /\ to \in Indices /\ counts \in Nat \X Nat
      /\ ipos = 0 /\ opos = 0 /\ phase = "start"
  BY PcmCopyAssumption DEF Init
<1>2. In.bytes \in 1..4 /\ Out.bytes \in 1..4
  BY <1>1, Widths
<1>3. Gone(0)
  BY <1>1, <1>2 DEF Gone, Smaller
<1>4. DOMAIN dest \subseteq Nat /\ \A i \in DOMAIN dest : dest[i] = Untouched
  <2>1. (counts[2] + 1) * Out.bytes \in Nat
    BY <1>1, <1>2, SamplesOfBytes
  <2>2. dest = [i \in 1..((counts[2] + 1) * Out.bytes) |-> Untouched]
    BY DEF Init
  <2>. QED
    BY <2>1, <2>2
<1>. QED
  BY <1>1, <1>3, <1>4 DEF CopyInv

LEMMA CopyStep ==
  ASSUME CopyInv, [Next]_vars
  PROVE  CopyInv'
<1>1. In.bytes \in 1..4 /\ Out.bytes \in 1..4
  BY Widths DEF CopyInv
<1>2. PICK k \in Nat : Gone(k) /\ (phase = "done" => k = Smaller(counts[1], counts[2]))
  BY DEF CopyInv
<1>3. CASE Dispatch
  <2>1. /\ UNCHANGED <<from, to, counts, dest, ipos, opos>>
        /\ phase = "start" /\ phase' \in {"copying", "thrown"}
    BY <1>3 DEF Dispatch, rangeVars
  <2>2. Gone(k)'
    BY <1>2, <2>1 DEF Gone, In, Out
  <2>. QED
    BY <2>1, <2>2 DEF CopyInv
<1>4. CASE CopySample
  <2>. DEFINE bytes == WriteSample(ReadSample(SubSeq(source, ipos + 1, ipos + In.bytes), In, type), Out, type)
  <2>1. /\ UNCHANGED <<from, to, counts, phase>> /\ phase = "copying"
        /\ ipos' = ipos + In.bytes /\ opos' = opos + Out.bytes
        /\ ipos # counts[1] * In.bytes /\ opos # counts[2] * Out.bytes
        /\ dest' = [i \in DOMAIN dest |-> IF i - opos \in DOMAIN bytes THEN bytes[i - opos] ELSE dest[i]]
    BY <1>4 DEF CopySample, AtEnd, Advanced, rangeVars
  <2>2. DOMAIN bytes = 1..Out.bytes
    BY <1>1, WrittenBytes
  <2>. HIDE DEF bytes
  <2>3. counts[1] \in Nat /\ counts[2] \in Nat
    BY DEF CopyInv
  <2>4. Gone(k + 1)'
    <3>1. k # counts[1] /\ k # counts[2]
      BY <1>1, <1>2, <2>1 DEF Gone
    <3>2. k + 1 \in 0..Smaller(counts[1], counts[2])
      BY <1>2, <2>3, <3>1 DEF Gone, Smaller
    <3>3. ipos + In.bytes = (k + 1) * In.bytes /\ opos + Out.bytes = (k + 1) * Out.bytes
      BY <1>1, <1>2, SamplesOfBytes DEF Gone
    <3>. QED
      BY <2>1, <3>2, <3>3 DEF Gone, In, Out
  <2>5. ASSUME NEW i \in DOMAIN dest', i > opos'
        PROVE  dest'[i] = Untouched
    <3>1. opos \in Nat
      BY <1>1, <1>2, SamplesOfBytes DEF Gone
    <3>2. i \in DOMAIN dest /\ i \in Nat
      BY <2>1 DEF CopyInv
    <3>3. i > opos /\ i - opos \notin 1..Out.bytes
      BY <1>1, <2>1, <2>5, <3>1, <3>2
    <3>4. dest'[i] = dest[i]
      BY <2>1, <2>2, <3>2, <3>3
    <3>. QED
      BY <3>2, <3>3, <3>4 DEF CopyInv
  <2>6. DOMAIN dest' = DOMAIN dest
    BY <2>1
  <2>7. k + 1 \in Nat /\ phase' = "copying"
    BY <2>1
  <2>. QED
    BY <2>1, <2>4, <2>5, <2>6, <2>7 DEF CopyInv
<1>5. CASE Finish
  <2>1. /\ UNCHANGED <<from, to, counts, dest, ipos, opos>> /\ phase' = "done"
        /\ ipos = counts[1] * In.bytes \/ opos = counts[2] * Out.bytes
    BY <1>5 DEF Finish, AtEnd, rangeVars
  <2>2. counts[1] \in Nat /\ counts[2] \in Nat
    BY DEF CopyInv
  <2>3. k = counts[1] \/ k = counts[2]
    BY <1>1, <1>2, <2>1, <2>2, SamplesOfBytes DEF Gone
  <2>4. k = Smaller(counts[1], counts[2])
    BY <1>2, <2>2, <2>3 DEF Gone, Smaller
  <2>5. Gone(k)' /\ k = Smaller(counts[1], counts[2])'
    BY <1>2, <2>1, <2>4 DEF Gone, In, Out
  <2>. QED
    BY <2>1, <2>5 DEF CopyInv
<1>6. CASE UNCHANGED vars
  <2>1. UNCHANGED <<from, to, counts, dest, ipos, opos, phase>>
    BY <1>6 DEF vars, rangeVars
  <2>2. Gone(k)' /\ (phase' = "done" => k = Smaller(counts[1], counts[2])')
    BY <1>2, <2>1 DEF Gone, In, Out
  <2>. QED
    BY <2>1, <2>2 DEF CopyInv
<1>. QED
  BY <1>3, <1>4, <1>5, <1>6 DEF Next

LEMMA CopyInvIsEnough == CopyInv => OnlyTheirBytes
<1>. SUFFICES ASSUME CopyInv PROVE OnlyTheirBytes
  OBVIOUS
<1>1. In.bytes \in 1..4 /\ Out.bytes \in 1..4
  BY Widths DEF CopyInv
<1>2. PICK k \in Nat : Gone(k) /\ (phase = "done" => k = Smaller(counts[1], counts[2]))
  BY DEF CopyInv
<1>3. Copied = k
  BY <1>1, <1>2, SamplesOfBytes DEF Gone, Copied
<1>. QED
  BY <1>2, <1>3 DEF Gone, CopyInv, OnlyTheirBytes

-----------------------------------------------------------------------------
(* The samples of a copy.                                                  *)

LEMMA SampleStands ==
  ASSUME NEW f, IsFormat(f), NEW a \in (-(2 * One) - 1)..(2 * One)
  PROVE  \E v, x \in Int : SampleAt(a, f) = ToBytes(v, f) /\ Stands(v, x, Storage(f))
<1>1. /\ One \in Nat \ {0} /\ Base \in Nat \ {0} /\ Base <= One /\ a \in Int
      /\ 2 <= One
  <2>1. Base <= Step(2) /\ Step(2) <= One /\ Base >= 4 /\ Step(2) \in Nat /\ One \in Nat \ {0}
    BY WideSteps
  <2>. QED
    BY <2>1, WideSteps
<1>2. CASE f.number = "float"
  <2>1. Size(a) < 4 * One
    BY <1>1 DEF Size
  <2>2. PICK r \in Int, u \in Units : /\ r = RoundToFloat(a)
                                      /\ 2 * (r - a) <= u /\ 2 * (a - r) <= u
    BY <1>1, <2>1, Rounds
  <2>3. r - a <= Base /\ a - r <= Base
    <3>1. u \in Nat /\ u <= 2 * Base
      BY UnitTypes
    <3>. QED
      BY <1>1, <2>2, <3>1
  <2>4. Size(r) < 4 * One
    BY <1>1, <2>3 DEF Size
  <2>5. Float(r)
    BY <1>1, <2>1, <2>2, RoundedIsFloat
  <2>6. Storage(f).number = "float" /\ Storage(f).bytes = 4
    BY <1>2 DEF IsFormat, Storage
  <2>7. Fits(r, Storage(f))
    BY <2>4, <2>5, <2>6 DEF Fits
  <2>8. (r - Zero(Storage(f))) * Step(Storage(f).bytes) = r
    BY <2>6, Steps DEF Zero
  <2>9. Stands(r, r, Storage(f))
    BY <2>7, <2>8 DEF Stands
  <2>10. SampleAt(a, f) = ToBytes(r, f)
    BY <1>2, <2>2 DEF SampleAt
  <2>. QED
    BY <2>9, <2>10
<1>3. CASE f.number # "float"
  <2>1. PICK w \in 1..4, n \in 1..4 : w = f.bytes /\ n = Storage(f).bytes /\ w <= n
    BY Stored
  <2>2. PICK c \in Int : c = Clamp(a, -One, One - 1) /\ c \in -One..(One - 1)
    <3>1. Clamp(a, -One, One - 1) \in Int /\ Clamp(a, -One, One - 1) \in -One..(One - 1)
      BY <1>1 DEF Clamp
    <3>. QED
      BY <3>1, Zenon
  <2>3. PICK r \in Nat \ {0}, m \in Nat \ {0}, s \in Nat \ {0}, h \in Nat \ {0} :
          r = Step(w) /\ m = Values(n - w) /\ s = Step(n) /\ r = m * s /\ h = Half(n)
    <3>1. /\ Step(w) \in Nat \ {0} /\ Values(n - w) \in Nat \ {0}
          /\ Step(n) \in Nat \ {0} /\ Half(n) \in Nat \ {0}
          /\ Step(w) = Values(n - w) * Step(n)
      BY <2>1, Ratios, Steps, Halves
    <3>. QED
      BY <3>1, Zenon
  <2>4. PICK q \in Int : q = c \div r
    BY <2>3, Division
  <2>5. PICK d \in Int : d = q * m
    <3>1. q * m \in Int
      BY Products
    <3>. QED
      BY <3>1, Zenon
  <2>6. PICK x \in Int : x = Floor(c, w) /\ x \in -One..(One - 1)
    <3>1. Floor(c, w) \in Int /\ Floor(c, w) \in -One..(One - 1)
      BY <2>2, FloorIs
    <3>. QED
      BY <3>1, Zenon
  <2>7. d * s = x
    <3>1. x = q * r
      <4>1. c - (c % r) = (c \div r) * r
        BY Remainder
      <4>2. x = c - (c % r)
        BY <2>3, <2>6 DEF Floor
      <4>. QED
        BY <2>4, <4>1, <4>2, Zenon
    <3>2. (q * m) * s = q * (m * s)
      BY Products
    <3>. QED
      BY <2>3, <2>5, <3>1, <3>2, Zenon
  <2>8. Storage(f).number = f.number /\ f.number \in {"signed", "unsigned"}
    BY <1>3 DEF IsFormat, Storage
  <2>9. PICK v \in Int : v = d + Zero(Storage(f)) /\ v - Zero(Storage(f)) = d
    <3>1. Zero(Storage(f)) \in Nat
      BY Stored, ZeroInNat
    <3>. QED
      BY <3>1
  <2>10. SampleAt(a, f) = ToBytes(v, f)
    <3>1. v = IF f.number = "unsigned" THEN d + Half(n) ELSE d
      BY <2>1, <2>8, <2>9 DEF Zero
    <3>2. d = (Clamp(a, -One, One - 1) \div Step(f.bytes)) * Values(Storage(f).bytes - f.bytes)
      BY <2>1, <2>2, <2>3, <2>4, <2>5, Zenon
    <3>3. CASE f.number = "unsigned"
      BY <2>1, <3>1, <3>2, <3>3 DEF SampleAt
    <3>4. CASE f.number = "signed"
      BY <2>1, <3>1, <3>2, <3>4 DEF SampleAt
    <3>. QED
      BY <2>8, <3>3, <3>4
  <2>11. Fits(x, Storage(f))
    <3>1. Multiple(x, s)
      BY <2>7, Zenon DEF Multiple
    <3>. QED
      BY <1>3, <2>1, <2>3, <2>6, <2>8, <3>1 DEF Fits
  <2>12. Stands(v, x, Storage(f))
    BY <2>1, <2>3, <2>7, <2>9, <2>11, Zenon DEF Stands
  <2>. QED
    BY <2>10, <2>12
<1>. QED
  BY <1>2, <1>3

\* What is written of a sample is near to it.
LEMMA WayOfSample ==
  ASSUME NEW f, IsFormat(f), NEW t, Kind(t), NEW g, IsFormat(g),
         NEW a \in (-(2 * One) - 1)..(2 * One), NEW b, b = SampleAt(a, f),
         NEW w, w = WriteSample(ReadSample(b, f, t), g, t)
  PROVE  /\ b \in Seq(Int) /\ Len(b) = f.bytes
         /\ w \in Seq(Int) /\ Len(w) = g.bytes
         /\ NearLevels(Level(b, f), Level(w, g), f, t, g)
<1>1. PICK v, x \in Int : b = ToBytes(v, f) /\ Stands(v, x, Storage(f))
  BY SampleStands
<1>2. /\ Kind(Storage(f)) /\ Kind(Storage(g)) /\ f.bytes \in 1..4 /\ g.bytes \in 1..4
  BY Stored
<1>3. Holding(b, BytesOf(v, Storage(f)), f)
  <2>1. CodeOf(v, Storage(f)) \in Int
    BY <1>1, <1>2, Coded
  <2>. QED
    BY <1>1, <2>1, WritesDigits
<1>4. PICK x1 \in Int : Level(b, f) = x1 /\ Stands(FromBytes(b, f), x1, Storage(f))
  <2>1. Floor(x, f.bytes) \in Int
    BY <1>2, FloorIs
  <2>2. Level(b, f) = Floor(x, f.bytes) /\ Stands(FromBytes(b, f), Floor(x, f.bytes), Storage(f))
    BY <1>1, <1>3, BytesKeepLevel
  <2>. QED
    BY <2>1, <2>2, Zenon
<1>5. PICK v2 : v2 = ReadSample(b, f, t)
  OBVIOUS
<1>6. PICK x2 \in Int : Stands(v2, x2, t) /\ Converted(x1, x2, Storage(f), t)
  <2>1. v2 = ConvertTo(t, FromBytes(b, f), Storage(f))
    BY <1>5 DEF ReadSample
  <2>2. \E y \in Int : /\ Stands(ConvertTo(t, FromBytes(b, f), Storage(f)), y, t)
                       /\ Converted(x1, y, Storage(f), t)
    BY <1>2, <1>4, ConvertsLevel
  <2>. QED
    BY <2>1, <2>2, Zenon
<1>7. PICK v3, x3 \in Int : /\ v3 = ConvertTo(Storage(g), v2, t)
                            /\ Stands(v3, x3, Storage(g)) /\ Converted(x2, x3, t, Storage(g))
  <2>1. PICK x3 \in Int : /\ Stands(ConvertTo(Storage(g), v2, t), x3, Storage(g))
                          /\ Converted(x2, x3, t, Storage(g))
    BY <1>2, <1>6, ConvertsLevel
  <2>2. ConvertTo(Storage(g), v2, t) \in Int
    BY <2>1, Zenon DEF Stands
  <2>. QED
    BY <2>1, <2>2, Zenon
<1>8. w = ToBytes(v3, g)
  BY <1>5, <1>7 DEF WriteSample
<1>9. Holding(w, BytesOf(v3, Storage(g)), g)
  <2>1. CodeOf(v3, Storage(g)) \in Int
    BY <1>2, <1>7, Coded
  <2>. QED
    BY <1>8, <2>1, WritesDigits
<1>10. Level(w, g) = Floor(x3, g.bytes)
  BY <1>7, <1>9, BytesKeepLevel
<1>11. Fits(x1, Storage(f)) /\ Fits(x2, t) /\ Fits(x3, Storage(g))
  BY <1>4, <1>6, <1>7, Zenon DEF Stands
<1>12. NearLevels(x1, Floor(x3, g.bytes), f, t, g)
  BY <1>6, <1>7, <1>11, WayIsNear
<1>13. NearLevels(Level(b, f), Level(w, g), f, t, g)
  BY <1>4, <1>10, <1>12, Zenon
<1>. QED
  BY <1>3, <1>9, <1>13 DEF Holding

SampleOf(bytes, k, f) == SubSeq(bytes, (k - 1) * f.bytes + 1, k * f.bytes)

\* Bytes that are in a range are a sample of it.
LEMMA SampleIs ==
  ASSUME NEW s, NEW w \in 1..4, NEW k \in Nat \ {0}, NEW b \in Seq(Int), Len(b) = w,
         \A j \in 1..w : s[(k - 1) * w + j] = b[j]
  PROVE  SubSeq(s, (k - 1) * w + 1, k * w) = b
<1>1. PICK m \in Nat : m = (k - 1) * w /\ k * w = m + w
  <2>1. (k - 1) * w \in Nat /\ ((k - 1) + 1) * w = (k - 1) * w + w /\ k - 1 + 1 = k
    BY SamplesOfBytes
  <2>. QED
    BY <2>1
<1>2. \A j \in 1..w : s[m + j] = b[j]
  BY <1>1
<1>3. \A i \in (m + 1)..(m + w) : s[i] \in Int
  <2>1. TAKE i \in (m + 1)..(m + w)
  <2>2. i - m \in 1..w /\ m + (i - m) = i
    OBVIOUS
  <2>3. s[i] = b[i - m]
    BY <1>2, <2>2, Zenon
  <2>4. b[i - m] \in Int
    BY <2>2, ElementOfSeq
  <2>. QED
    BY <2>3, <2>4
<1>4. PICK c : c = SubSeq(s, m + 1, m + w)
  OBVIOUS
<1>5. c \in Seq(Int) /\ Len(c) = w /\ \A i \in 1..w : c[i] = s[m + i]
  <2>1. PICK lo \in Int, hi \in Int : lo = m + 1 /\ hi = m + w
    OBVIOUS
  <2>2. \A i \in lo..hi : s[i] \in Int
    BY <1>3, <2>1
  <2>3. c = SubSeq(s, lo, hi)
    BY <1>4, <2>1
  <2>4. /\ c \in Seq(Int) /\ Len(c) = (IF lo <= hi THEN hi - lo + 1 ELSE 0)
        /\ \A i \in 1..(hi - lo + 1) : c[i] = s[lo + i - 1]
    BY <2>2, <2>3, SubSeqProperties
  <2>5. lo <= hi /\ hi - lo + 1 = w /\ \A i \in 1..w : lo + i - 1 = m + i
    BY <2>1
  <2>6. Len(c) = w
    BY <2>4, <2>5, Zenon
  <2>7. \A i \in 1..w : c[i] = s[m + i]
    BY <2>4, <2>5, Zenon
  <2>. QED
    BY <2>4, <2>6, <2>7
<1>6. \A i \in 1..Len(c) : c[i] = b[i]
  BY <1>2, <1>5
<1>7. Len(c) = Len(b)
  BY <1>5
<1>8. c = b
  BY <1>5, <1>6, <1>7, SeqEqual
<1>. QED
  BY <1>1, <1>4, <1>8, Zenon

LEMMA SampleBytes ==
  ASSUME NEW f, IsFormat(f), NEW a \in (-(2 * One) - 1)..(2 * One)
  PROVE  SampleAt(a, f) \in Seq(Int) /\ Len(SampleAt(a, f)) = f.bytes
<1>1. PICK v, x \in Int : SampleAt(a, f) = ToBytes(v, f) /\ Stands(v, x, Storage(f))
  BY SampleStands
<1>2. CodeOf(v, Storage(f)) \in Int
  BY <1>1, Coded, Stored
<1>3. Holding(ToBytes(v, f), BytesOf(v, Storage(f)), f)
  BY <1>2, WritesDigits
<1>. QED
  BY <1>1, <1>3 DEF Holding

\* The samples of a source are at its level and at the one opposite.
LEMMA SourceSamples ==
  ASSUME NEW f, IsFormat(f), NEW level \in Levels, NEW n \in Nat, NEW k \in 1..n
  PROVE  \E a \in (-(2 * One) - 1)..(2 * One) :
           SampleOf(Samples(level, f, n), k, f) = SampleAt(a, f)
<1>1. PICK w \in 1..4 : w = f.bytes
  BY Stored
<1>2. level \in -(2 * One)..(2 * One) /\ One \in Nat
  BY PcmCopyAssumption, Steps
<1>3. PICK a \in (-(2 * One) - 1)..(2 * One) : a = IF (k - 1) % 2 = 0 THEN level ELSE -1 - level
  <2>1. level \in (-(2 * One) - 1)..(2 * One) /\ -1 - level \in (-(2 * One) - 1)..(2 * One)
    BY <1>2
  <2>. QED
    BY <2>1
<1>4. PICK b \in Seq(Int) : b = SampleAt(a, f) /\ Len(b) = w
  BY <1>1, SampleBytes
<1>5. PICK s : s = Samples(level, f, n)
  OBVIOUS
<1>6. ASSUME NEW j \in 1..w
      PROVE  s[(k - 1) * w + j] = b[j]
  <2>1. PICK i \in Int : /\ i = (k - 1) * w + j /\ i \in 1..(n * w)
                         /\ (i - 1) \div w = k - 1 /\ (i - 1) % w = j - 1
    <3>1. PICK m \in Nat : m = (k - 1) * w /\ m + w = k * w
      <4>1. (k - 1) * w \in Nat /\ ((k - 1) + 1) * w = (k - 1) * w + w /\ k - 1 + 1 = k
        BY SamplesOfBytes
      <4>. QED
        BY <4>1
    <3>2. k * w <= n * w /\ n * w \in Nat
      BY Products
    <3>3. m + j \in 1..(n * w)
      BY <3>1, <3>2
    <3>4. m + j - 1 = (k - 1) * w + (j - 1) /\ j - 1 \in 0..(w - 1) /\ k - 1 \in Int
      BY <3>1
    <3>5. ((k - 1) * w + (j - 1)) \div w = k - 1 /\ ((k - 1) * w + (j - 1)) % w = j - 1
      <4>1. PICK h \in Int, e \in 0..(w - 1) : h = k - 1 /\ e = j - 1
        BY <3>4
      <4>2. (h * w + e) \div w = h /\ (h * w + e) % w = e
        BY Quotient
      <4>. QED
        BY <4>1, <4>2, Zenon
    <3>6. PICK i \in Int : i = m + j /\ i = (k - 1) * w + j /\ i \in 1..(n * w)
      BY <3>1, <3>3
    <3>7. i - 1 = (k - 1) * w + (j - 1)
      BY <3>4, <3>6
    <3>8. (i - 1) \div w = k - 1 /\ (i - 1) % w = j - 1
      BY <3>5, <3>7, Zenon
    <3>. QED
      BY <3>6, <3>8, Zenon
  <2>2. s[i] = IF ((i - 1) \div w) % 2 = 0 THEN SampleAt(level, f)[1 + ((i - 1) % w)]
               ELSE SampleAt(-1 - level, f)[1 + ((i - 1) % w)]
    BY <1>1, <1>5, <2>1 DEF Samples
  <2>3. 1 + (j - 1) = j
    OBVIOUS
  <2>4. s[i] = IF (k - 1) % 2 = 0 THEN SampleAt(level, f)[j] ELSE SampleAt(-1 - level, f)[j]
    BY <2>1, <2>2, <2>3, Zenon
  <2>5. s[i] = SampleAt(a, f)[j]
    BY <1>3, <2>4, Zenon
  <2>. QED
    BY <1>4, <2>1, <2>5, Zenon
<1>7. SubSeq(s, (k - 1) * w + 1, k * w) = b
  <2>1. k \in Nat \ {0}
    OBVIOUS
  <2>. QED
    BY <1>4, <1>6, <2>1, SampleIs
<1>8. SampleOf(Samples(level, f, n), k, f) = SampleAt(a, f)
  BY <1>1, <1>4, <1>5, <1>7, Zenon DEF SampleOf
<1>. QED
  BY <1>8

\* The bytes that a copy writes of a sample of its source.
Written(k) == WriteSample(ReadSample(SampleOf(source, k, In), In, type), Out, type)

\* Every sample that the copy has gone over lies in the destination as it was written.
SamplesInv ==
  /\ type \in Types
  /\ \E level \in Levels : source = Samples(level, In, counts[1] + 1)
  /\ DOMAIN dest = 1..((counts[2] + 1) * Out.bytes)
  /\ \A k \in 1..Copied : \A j \in 1..Out.bytes : dest[(k - 1) * Out.bytes + j] = Written(k)[j]

\* As many samples as the output iterator has gone over the input iterator has too.
LEMMA Progress ==
  ASSUME CopyInv
  PROVE  Copied \in Nat /\ Gone(Copied)
<1>1. In.bytes \in 1..4 /\ Out.bytes \in 1..4
  BY Widths DEF CopyInv
<1>2. PICK k \in Nat : Gone(k)
  BY DEF CopyInv
<1>3. Copied = k
  BY <1>1, <1>2, SamplesOfBytes DEF Gone, Copied
<1>. QED
  BY <1>2, <1>3

LEMMA InitSamples == Init => SamplesInv
<1>. SUFFICES ASSUME Init PROVE SamplesInv
  OBVIOUS
<1>1. /\ from \in Indices /\ to \in Indices /\ type \in Types /\ opos = 0
      /\ \E level \in Levels : source = Samples(level, In, counts[1] + 1)
      /\ dest = [i \in 1..((counts[2] + 1) * Out.bytes) |-> Untouched]
  BY DEF Init
<1>2. Copied = 0
  <2>1. Out.bytes \in 1..4
    BY <1>1, Widths
  <2>. QED
    BY <1>1, <2>1 DEF Copied
<1>3. DOMAIN dest = 1..((counts[2] + 1) * Out.bytes)
  BY <1>1
<1>4. 1..Copied = {}
  BY <1>2
<1>. QED
  BY <1>1, <1>3, <1>4 DEF SamplesInv

LEMMA SamplesStep ==
  ASSUME CopyInv, SamplesInv, [Next]_vars
  PROVE  SamplesInv'
<1>1. In.bytes \in 1..4 /\ Out.bytes \in 1..4
  BY Widths DEF CopyInv
<1>2. PICK n \in Nat : n = Copied /\ Gone(n)
  BY Progress
<1>3. ASSUME UNCHANGED <<rangeVars, dest, opos>>
      PROVE  SamplesInv'
  BY <1>3 DEF SamplesInv, rangeVars, Copied, Written, In, Out, SampleOf
<1>4. CASE Dispatch
  BY <1>3, <1>4 DEF Dispatch
<1>5. CASE CopySample
  <2>1. PICK bytes : bytes = WriteSample(ReadSample(SubSeq(source, ipos + 1, ipos + In.bytes),
                                                  In, type), Out, type)
    OBVIOUS
  <2>2. /\ UNCHANGED <<from, to, counts, type, source>>
        /\ opos' = opos + Out.bytes
        /\ opos # counts[2] * Out.bytes
        /\ dest' = [i \in DOMAIN dest |-> IF i - opos \in DOMAIN bytes THEN bytes[i - opos] ELSE dest[i]]
    BY <1>5, <2>1 DEF CopySample, AtEnd, Advanced, rangeVars
  <2>3. DOMAIN bytes = 1..Out.bytes
    BY <1>1, <2>1, WrittenBytes
  <2>4. /\ ipos = n * In.bytes /\ opos = n * Out.bytes /\ n * Out.bytes \in Nat
        /\ (n + 1) * In.bytes = n * In.bytes + In.bytes
        /\ (n + 1) * Out.bytes = n * Out.bytes + Out.bytes
        /\ ((n + 1) * Out.bytes) \div Out.bytes = n + 1
    <3>1. ipos = n * In.bytes /\ opos = n * Out.bytes
      BY <1>2 DEF Gone
    <3>2. n * Out.bytes \in Nat /\ (n + 1) * Out.bytes = n * Out.bytes + Out.bytes
      BY <1>1, SamplesOfBytes
    <3>3. (n + 1) * In.bytes = n * In.bytes + In.bytes
      BY <1>1, SamplesOfBytes
    <3>4. n + 1 \in Nat
      OBVIOUS
    <3>5. ((n + 1) * Out.bytes) \div Out.bytes = n + 1
      BY <1>1, <3>4, SamplesOfBytes
    <3>. QED
      BY <3>1, <3>2, <3>3, <3>5
  <2>5. bytes = Written(n + 1)
    <3>1. (n + 1) - 1 = n
      OBVIOUS
    <3>. QED
      BY <2>1, <2>4, <3>1, Zenon DEF Written, SampleOf
  <2>6. /\ UNCHANGED <<In, Out>> /\ \A k : Written(k)' = Written(k)
    BY <2>2 DEF Written, In, Out, SampleOf
  <2>7. Copied' = n + 1
    <3>1. opos' = (n + 1) * Out.bytes
      BY <2>2, <2>4
    <3>. QED
      BY <2>4, <2>6, <3>1 DEF Copied
  <2>8. n < counts[2] /\ counts[2] \in Nat
    <3>1. counts[1] \in Nat /\ counts[2] \in Nat
      BY DEF CopyInv
    <3>2. n <= counts[2]
      BY <1>2, <3>1 DEF Gone, Smaller
    <3>3. n # counts[2]
      BY <2>2, <2>4
    <3>. QED
      BY <3>1, <3>2, <3>3
  <2>9. ASSUME NEW k \in 1..(n + 1), NEW j \in 1..Out.bytes
        PROVE  dest'[(k - 1) * Out.bytes + j] = Written(k)[j]
    <3>1. PICK w \in 1..4 : w = Out.bytes
      BY <1>1
    <3>2. PICK m \in Nat, p \in Nat : m = (k - 1) * w /\ p = n * w
      BY <3>1, SamplesOfBytes
    <3>3. m + j \in DOMAIN dest
      <4>1. k * w = m + w
        <5>1. ((k - 1) + 1) * w = (k - 1) * w + w /\ k - 1 + 1 = k /\ k - 1 \in Nat
          BY SamplesOfBytes
        <5>. QED
          BY <3>2, <5>1
      <4>2. k * w <= (counts[2] + 1) * w
        BY <2>8, Products
      <4>3. (counts[2] + 1) * w \in Nat
        BY <2>8, SamplesOfBytes
      <4>4. m + j \in 1..((counts[2] + 1) * w)
        BY <3>1, <3>2, <4>1, <4>2, <4>3
      <4>. QED
        BY <3>1, <4>4 DEF SamplesInv
    <3>4. dest'[m + j] = IF m + j - p \in 1..w THEN bytes[m + j - p] ELSE dest[m + j]
      <4>1. opos = p
        BY <2>4, <3>1, <3>2, Zenon
      <4>2. dest' = [i \in DOMAIN dest |-> IF i - p \in 1..w THEN bytes[i - p] ELSE dest[i]]
        BY <2>2, <2>3, <3>1, <4>1
      <4>. QED
        BY <3>3, <4>2
    <3>5. CASE k = n + 1
      <4>1. m = p /\ m + j - p = j
        <5>1. (n + 1) - 1 = n
          OBVIOUS
        <5>2. m = p
          BY <3>2, <3>5, <5>1, Zenon
        <5>. QED
          BY <3>1, <3>2, <5>2
      <4>2. dest'[m + j] = bytes[j]
        BY <3>1, <3>4, <4>1
      <4>. QED
        BY <2>5, <3>1, <3>2, <3>5, <4>2, Zenon
    <3>6. CASE k # n + 1
      <4>1. k \in 1..n
        BY <3>6
      <4>2. m + w <= p
        <5>1. ((k - 1) + 1) * w = (k - 1) * w + w /\ k - 1 + 1 = k /\ k - 1 \in Nat
          BY SamplesOfBytes
        <5>2. k * w <= n * w
          BY <4>1, Products
        <5>. QED
          BY <3>2, <5>1, <5>2
      <4>3. ~(m + j - p \in 1..w)
        BY <3>1, <3>2, <4>2
      <4>4. dest'[m + j] = dest[m + j]
        BY <3>4, <4>3
      <4>5. dest[(k - 1) * Out.bytes + j] = Written(k)[j]
        BY <1>2, <4>1 DEF SamplesInv
      <4>. QED
        BY <3>1, <3>2, <4>4, <4>5, Zenon
    <3>. QED
      BY <3>5, <3>6
  <2>10. /\ type' \in Types
         /\ \E level \in Levels : source' = Samples(level, In', counts'[1] + 1)
         /\ DOMAIN dest' = 1..((counts'[2] + 1) * Out'.bytes)
    <3>1. DOMAIN dest' = DOMAIN dest
      BY <2>2
    <3>. QED
      BY <2>2, <2>6, <3>1 DEF SamplesInv
  <2>11. \A k \in 1..Copied' : \A j \in 1..Out'.bytes :
            dest'[(k - 1) * Out'.bytes + j] = Written(k)'[j]
    BY <2>6, <2>7, <2>9
  <2>. QED
    BY <2>10, <2>11 DEF SamplesInv
<1>6. CASE Finish
  BY <1>3, <1>6 DEF Finish
<1>7. CASE UNCHANGED vars
  BY <1>3, <1>7 DEF vars
<1>. QED
  BY <1>4, <1>5, <1>6, <1>7 DEF Next

LEMMA SamplesInvIsEnough == CopyInv /\ SamplesInv => SamplesAreNear
<1>. SUFFICES ASSUME CopyInv, SamplesInv, NEW k \in 1..Copied
              PROVE  NearLevels(LevelAt(source, k, In), LevelAt(dest, k, Out), In, type, Out)
  BY DEF SamplesAreNear, NearLevels
<1>1. IsFormat(In) /\ IsFormat(Out) /\ Kind(type)
  <2>1. from \in 1..Len(Formats) /\ to \in 1..Len(Formats) /\ type \in Types
    BY DEF CopyInv, SamplesInv, Indices
  <2>. QED
    BY <2>1, PcmCopyAssumption DEF IsFormat, Kind, In, Out
<1>2. In.bytes \in 1..4 /\ Out.bytes \in 1..4
  BY <1>1, Stored
<1>3. Copied \in Nat /\ k \in 1..counts[1] /\ counts[1] \in Nat
  <2>1. Copied \in Nat /\ Gone(Copied) /\ counts[1] \in Nat /\ counts[2] \in Nat
    BY Progress DEF CopyInv
  <2>2. Copied <= counts[1]
    BY <2>1 DEF Gone, Smaller
  <2>. QED
    BY <2>1, <2>2
<1>4. PICK a \in (-(2 * One) - 1)..(2 * One) : SampleOf(source, k, In) = SampleAt(a, In)
  <2>1. PICK level \in Levels : source = Samples(level, In, counts[1] + 1)
    BY DEF SamplesInv
  <2>2. counts[1] + 1 \in Nat /\ k \in 1..(counts[1] + 1)
    BY <1>3
  <2>3. PICK n \in Nat : n = counts[1] + 1 /\ k \in 1..n
    BY <2>2
  <2>4. source = Samples(level, In, n)
    BY <2>1, <2>3
  <2>5. \E a \in (-(2 * One) - 1)..(2 * One) : SampleOf(Samples(level, In, n), k, In) = SampleAt(a, In)
    BY <1>1, <2>3, SourceSamples
  <2>6. \E a \in (-(2 * One) - 1)..(2 * One) : SampleOf(source, k, In) = SampleAt(a, In)
    BY <2>4, <2>5, Zenon
  <2>. QED
    BY <2>6
<1>5. PICK b, w : /\ b = SampleOf(source, k, In) /\ b = SampleAt(a, In)
                 /\ w = WriteSample(ReadSample(b, In, type), Out, type)
  BY <1>4
<1>6. /\ w \in Seq(Int) /\ Len(w) = Out.bytes
      /\ NearLevels(Level(b, In), Level(w, Out), In, type, Out)
  BY <1>1, <1>4, <1>5, WayOfSample
<1>7. SubSeq(dest, (k - 1) * Out.bytes + 1, k * Out.bytes) = w
  <2>1. \A j \in 1..Out.bytes : dest[(k - 1) * Out.bytes + j] = w[j]
    BY <1>4, <1>5 DEF SamplesInv, Written
  <2>2. k \in Nat \ {0}
    BY <1>3
  <2>3. PICK n \in 1..4 : n = Out.bytes
    BY <1>2
  <2>4. Len(w) = n /\ \A j \in 1..n : dest[(k - 1) * n + j] = w[j]
    BY <1>6, <2>1, <2>3, Zenon
  <2>5. SubSeq(dest, (k - 1) * n + 1, k * n) = w
    BY <1>6, <2>2, <2>4, SampleIs
  <2>. QED
    BY <2>3, <2>5, Zenon
<1>8. LevelAt(source, k, In) = Level(b, In) /\ LevelAt(dest, k, Out) = Level(w, Out)
  BY <1>5, <1>7, Zenon DEF LevelAt, SampleOf
<1>. QED
  BY <1>6, <1>8, Zenon

\* A copy between any two formats, over ranges of any lengths, writes as many samples
\* as both ranges have, reads no others, and leaves the bytes behind them alone; one
\* whose iterators have not the formats of their ends writes none (pcm::copy,
\* iterator::increment, dispatch).
THEOREM CopiesStayInTheirRanges == Spec => []OnlyTheirBytes
<1>1. CopyInv /\ [Next]_vars => CopyInv'
  BY CopyStep
<1>. QED
  BY <1>1, InitCopy, CopyInvIsEnough, PTL DEF Spec

\* Every sample that a copy between any two formats has written is as near to the one
\* it has read as the types on its way allow: exact where all of them have its level,
\* rounded down between integers, within the coarsest unit where a float is on the
\* way, and clipped, never wrapped around, at full scale (convert_to, intermediate,
\* read, write; pcm::copy).
THEOREM SamplesKeepTheirLevels == Spec => []SamplesAreNear
<1>1. CopyInv /\ SamplesInv /\ [Next]_vars => CopyInv' /\ SamplesInv'
  BY CopyStep, SamplesStep
<1>2. Init => CopyInv /\ SamplesInv
  BY InitCopy, InitSamples
<1>. QED
  BY <1>1, <1>2, SamplesInvIsEnough, PTL DEF Spec
=============================================================================
