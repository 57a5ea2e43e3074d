-------------------------- MODULE HeaderWalkProofs --------------------------
(***************************************************************************)
(* What holds of HeaderWalk for every file, whatever its chunks and        *)
(* lengths, and every width of the offsets.                                *)
(***************************************************************************)
EXTENDS HeaderWalk, TLAPS

-----------------------------------------------------------------------------
(* Arithmetic.                                                             *)

LEMMA Uint32Type ==
  ASSUME NEW x \in Nat
  PROVE  Uint32(x) \in Nat
<1>1. \A b \in Nat \ {0} : x % b \in Nat
  OBVIOUS
<1>. QED
  BY <1>1, HeaderWalkAssumption DEF Uint32

LEMMA Uint32Exact ==
  ASSUME NEW x \in Nat, x < 2^SizeBits
  PROVE  Uint32(x) = x
<1>1. \A b \in Nat \ {0} : x < b => x % b = x
  OBVIOUS
<1>. QED
  BY <1>1, HeaderWalkAssumption DEF Uint32

\* The frames in a length: as many whole ones as fit.
LEMMA WholeFrames ==
  ASSUME NEW n \in Nat, NEW u \in Nat \ {0}
  PROVE  /\ n \div u \in Nat
         /\ (n \div u) * u \in Nat
         /\ (n \div u) * u <= n /\ n < (n \div u) * u + u
         /\ ((n \div u) * u) % u = 0
         /\ n \div u >= 1 <=> n >= u
<1>. DEFINE d == n \div u
<1>1. d \in Nat /\ d * u \in Nat /\ d * u <= n /\ n < d * u + u
  OBVIOUS
<1>2. (d * u) % u = 0
  <2>1. \A k \in Nat : (k * u) % u = 0
    OBVIOUS
  <2>. QED
    BY <1>1, <2>1
<1>3. d >= 1 <=> n >= u
  <2>1. d >= 1 => d * u >= u
    BY <1>1
  <2>2. d = 0 => n < u
    BY <1>1
  <2>. QED
    BY <1>1, <2>1, <2>2
<1>. QED
  BY <1>1, <1>2, <1>3

LEMMA Product ==
  ASSUME NEW a \in Nat, NEW b \in Nat
  PROVE  a * b \in Nat /\ a * b = b * a
OBVIOUS

-----------------------------------------------------------------------------
(* Types.                                                                  *)

MediaTyped ==
  /\ media.kind \in {"wav", "aiff"}
  /\ media.len \in Nat
  /\ media.junk \in Tags
  /\ \A p \in Chunks : p \in Nat /\ Chunk(p) \in Tags

Typed == TypeOK /\ MediaTyped

\* What the walk reads as a tag, and where it goes on, in any file.
LEMMA TagTyped ==
  ASSUME MediaTyped, NEW p \in Nat
  PROVE  /\ TagAt(p).id \in Ids
         /\ TagAt(p).length \in Nat /\ TagAt(p).unit \in Nat /\ TagAt(p).count \in Nat
         /\ Following(p) \in Nat
<1>1. TagAt(p) \in Tags
  BY DEF MediaTyped, TagAt, Chunks, Chunk
<1>2. /\ TagAt(p).id \in Ids
      /\ TagAt(p).length \in Nat /\ TagAt(p).unit \in Nat /\ TagAt(p).count \in Nat
  BY <1>1 DEF Tags
<1>3. \A x \in Nat : x % 2 \in Nat /\ x % 2 <= x
  OBVIOUS
<1>4. Uint32(p + TagBytes + TagAt(p).length) \in Nat
  BY <1>2, Uint32Type DEF TagBytes
<1>5. Uint32(Uint32(p + TagBytes + TagAt(p).length) + 1) \in Nat
  BY <1>4, Uint32Type
<1>6. Following(p) \in Nat
  BY <1>2, <1>3, <1>4, <1>5 DEF Following
<1>. QED
  BY <1>2, <1>6

LEMMA OpeningTyped ==
  ASSUME NEW beg \in Nat, NEW found \in [unit: Nat, frames: Nat],
         found.frames > 0 => found.unit > 0, OpenAt(beg, found)
  PROVE  TypeOK'
<1>1. beg + found.frames * found.unit \in Nat
  BY Product
<1>. QED
  BY <1>1 DEF OpenAt, TypeOK

LEMMA TypedInit == Init => Typed
BY HeaderWalkAssumption DEF Init, Typed, TypeOK, MediaTyped, Chunks, Chunk, NoInfo

LEMMA TypedStep == Typed /\ [Next]_vars => Typed'
<1> SUFFICES ASSUME Typed, [Next]_vars
    PROVE  Typed'
  OBVIOUS
<1>. USE DEF Typed, TagBytes, FormBytes
<1>1. /\ Tag.length \in Nat /\ Tag.unit \in Nat /\ Tag.count \in Nat
      /\ Following(pos) \in Nat
  BY TagTyped DEF TypeOK, Tag
<1>2. Body \in Nat
  BY DEF Body, TypeOK
<1>3. UNCHANGED media
  BY DEF Next, vars, ReadForm, WavFormat, WavData, WavOther, AiffCommon, AiffOther, NoTag,
         AiffSound, AiffSkip, Refuse, OpenAt
<1>4. MediaTyped'
  BY <1>3 DEF MediaTyped, Chunks, Chunk
<1> SUFFICES TypeOK'
  BY <1>4
<1>5. ASSUME Refuse PROVE TypeOK'
  BY <1>5 DEF Refuse, TypeOK
<1>6. ASSUME Skip, UNCHANGED <<pass, view>>,
             info' = info \/ info' \in [unit: Nat \ {0}, frames: Nat]
      PROVE  TypeOK'
  BY <1>1, <1>6 DEF Skip, TypeOK
<1>7. CASE ReadForm
  BY <1>5, <1>7 DEF ReadForm, TypeOK
<1>8. CASE WavFormat
  <2>1. ASSUME info' = [info EXCEPT !.unit = Tag.unit], Tag.unit > 0
        PROVE  info' \in [unit: Nat \ {0}, frames: Nat]
    BY <1>1, <2>1 DEF TypeOK
  <2>. QED
    BY <1>5, <1>6, <1>8, <2>1 DEF WavFormat, TypeOK
<1>9. CASE WavData
  <2>1. CASE info.unit > 0 /\ Tag.length \div info.unit >= 1
    <3>1. Tag.length \div info.unit \in Nat
      BY <1>1, <2>1, WholeFrames DEF TypeOK
    <3>2. OpenAt(Body, [info EXCEPT !.frames = Tag.length \div info.unit])
      BY <1>9, <2>1 DEF WavData
    <3>. QED
      BY <1>2, <2>1, <3>1, <3>2, OpeningTyped DEF TypeOK
  <2>. QED
    BY <1>5, <1>9, <2>1 DEF WavData
<1>10. CASE WavOther
  BY <1>5, <1>6, <1>10 DEF WavOther
<1>11. CASE AiffCommon
  BY <1>1, <1>5, <1>6, <1>11 DEF AiffCommon
<1>12. CASE AiffOther
  BY <1>5, <1>6, <1>12 DEF AiffOther
<1>13. CASE NoTag
  BY <1>5, <1>13 DEF NoTag, TypeOK
<1>14. CASE AiffSound
  BY <1>1, <1>2, <1>5, <1>14, OpeningTyped DEF AiffSound, TypeOK
<1>15. CASE AiffSkip
  BY <1>6, <1>15 DEF AiffSkip
<1>16. CASE UNCHANGED vars
  BY <1>16 DEF vars, TypeOK
<1>. QED
  BY <1>7, <1>8, <1>9, <1>10, <1>11, <1>12, <1>13, <1>14, <1>15, <1>16 DEF Next

\* The offsets and what is found always have their types; frames have a size.
THEOREM TypeCorrect == Spec => []TypeOK
<1>1. Init /\ [][Next]_vars => []Typed
  BY TypedInit, TypedStep, PTL
<1>2. Typed => TypeOK
  BY DEF Typed
<1>. QED
  BY <1>1, <1>2, PTL DEF Spec

-----------------------------------------------------------------------------
(* The walk over a well-formed file.                                       *)

Last(q, p, id) == q \in Before(p, id) /\ \A r \in Before(p, id) : r <= q

\* The walk goes from chunk to chunk.
OnChunks ==
  pass \in {"chunks", "sound"} =>
    /\ pos \in Chunks \union {media.len}
    /\ pos % 2 = 0 /\ FormBytes <= pos

\* What it has found is what the last chunk in front of it says, and nothing in
\* front of it would have ended it.
AfterFormats ==
  /\ \A q \in Chunks : q < pos =>
       /\ Chunk(q).id # "data" /\ Chunk(q).length > 0
       /\ Chunk(q).id = "fmt" => Chunk(q).unit > 0
  /\ Before(pos, "fmt") = {} => info.unit = 0
  /\ Before(pos, "fmt") # {} =>
       \E q \in Chunks : Last(q, pos, "fmt") /\ info.unit = Chunk(q).unit

AfterCommons(p) ==
  /\ \A q \in Before(p, "COMM") : Chunk(q).unit > 0 /\ Chunk(q).count > 0
  /\ Before(p, "COMM") = {} => info = NoInfo
  /\ Before(p, "COMM") # {} =>
       \E q \in Chunks : Last(q, p, "COMM") /\ info = [unit |-> Chunk(q).unit, frames |-> Chunk(q).count]

Seen ==
  /\ pass = "form" => pos = 0 /\ info = NoInfo
  /\ media.kind = "wav" => pass # "sound" /\ (pass = "chunks" => AfterFormats)
  /\ media.kind = "aiff" /\ pass = "chunks" => AfterCommons(pos)
  /\ media.kind = "aiff" /\ pass = "sound" =>
       /\ AfterCommons(media.len) /\ info # NoInfo
       /\ \A q \in Chunks : q < pos => Chunk(q).id # "SSND"

IInv == Typed /\ (WellFormed => OnChunks /\ Seen)

\* Where there is a tag there is a chunk, and the walk goes on behind it.
LEMMA Onward ==
  ASSUME MediaTyped, WellFormed, NEW p \in Chunks, p % 2 = 0
  PROVE  /\ p \in Nat /\ FormBytes <= p /\ p + TagBytes + Chunk(p).length <= media.len
         /\ TagAt(p) = Chunk(p)
         /\ Following(p) = End(p)
         /\ End(p) \in Chunks \union {media.len} /\ End(p) % 2 = 0
         /\ p < End(p)
         /\ \A q \in Chunks : q < End(p) => q <= p
<1>. USE DEF TagBytes, FormBytes
<1>. DEFINE n == Chunk(p).length
            e == p + TagBytes + n
<1>1. p \in Nat /\ n \in Nat /\ e \in Nat
  BY DEF MediaTyped, Tags
<1>2. /\ FormBytes <= p /\ End(p) <= media.len /\ End(p) + 1 < 2^SizeBits
      /\ End(p) \in Chunks \union {media.len}
      /\ \A q \in Chunks : p < q => End(p) <= q
  BY DEF WellFormed
<1>3. n % 2 \in {0, 1}
  BY <1>1
<1>4. End(p) = e + (n % 2) /\ p < End(p) /\ End(p) \in Nat /\ e <= End(p)
  BY <1>1, <1>3 DEF End
<1>5. TagAt(p) = Chunk(p)
  BY DEF TagAt, Chunk, Chunks
<1>6. (e + (n % 2)) % 2 = 0 /\ (e % 2) = (n % 2)
  BY <1>1
<1>7. 2^SizeBits \in Nat
  BY HeaderWalkAssumption
<1>8. Uint32(e) = e /\ Uint32(e + 1) = e + 1
  BY <1>1, <1>2, <1>4, <1>7, Uint32Exact
<1>9. Following(p) = End(p)
  <2>1. CASE media.kind = "wav"
    <3>1. Following(p) = (e + 1) - ((e + 1) % 2)
      BY <1>5, <1>8, <2>1 DEF Following
    <3>2. (e + 1) - ((e + 1) % 2) = e + (e % 2)
      BY <1>1
    <3>. QED
      BY <1>4, <1>6, <3>1, <3>2
  <2>2. CASE media.kind # "wav"
    BY <1>4, <1>5, <1>8, <2>2 DEF Following
  <2>. QED
    BY <2>1, <2>2
<1>10. ASSUME NEW q \in Chunks, q < End(p)
       PROVE  q <= p
  BY <1>1, <1>2, <1>4, <1>10 DEF MediaTyped
<1>11. e <= media.len
  BY <1>1, <1>2, <1>4 DEF MediaTyped
<1>. QED
  BY <1>1, <1>2, <1>4, <1>5, <1>6, <1>9, <1>10, <1>11

LEMMA TagIsChunk ==
  ASSUME Typed, WellFormed, OnChunks, pass \in {"chunks", "sound"}
  PROVE  /\ HasTag => pos \in Chunks
         /\ ~HasTag => pos = media.len \/ (pos \in Chunks /\ media.kind = "wav" /\ Chunk(pos).length = 0)
<1>. USE DEF TagBytes
<1>1. pos \in Nat /\ media.len \in Nat
  BY DEF Typed, TypeOK, MediaTyped
<1>2. CASE pos \in Chunks
  <2>1. /\ Tag = Chunk(pos) /\ Chunk(pos).length \in Nat
        /\ pos + TagBytes + Chunk(pos).length <= media.len
    BY <1>2, Onward DEF Typed, MediaTyped, OnChunks, Tag, Tags
  <2>. QED
    BY <1>1, <1>2, <2>1 DEF HasTag, CanFetch
<1>3. CASE pos = media.len
  BY <1>1, <1>3 DEF HasTag, CanFetch
<1>. QED
  BY <1>2, <1>3 DEF OnChunks

\* The chunks in front of the next one.
LEMMA BeforeNext ==
  ASSUME MediaTyped, WellFormed, NEW p \in Chunks, p % 2 = 0, NEW id
  PROVE  /\ Chunk(p).id # id => Before(End(p), id) = Before(p, id)
         /\ Chunk(p).id = id => Before(End(p), id) = Before(p, id) \union {p} /\ Last(p, End(p), id)
<1>1. p \in Nat /\ p < End(p) /\ End(p) \in Nat /\ \A q \in Chunks : q < End(p) => q <= p
  BY Onward DEF MediaTyped
<1>2. \A q \in Chunks : q \in Nat /\ (q < End(p) <=> q < p \/ q = p)
  BY <1>1 DEF MediaTyped
<1>3. \A q \in Before(End(p), id) : q \in Chunks /\ q < End(p) /\ Chunk(q).id = id
  BY DEF Before
<1>4. ASSUME Chunk(p).id # id
      PROVE  Before(End(p), id) = Before(p, id)
  BY <1>2, <1>4 DEF Before
<1>5. ASSUME Chunk(p).id = id
      PROVE  Before(End(p), id) = Before(p, id) \union {p} /\ Last(p, End(p), id)
  <2>1. Before(End(p), id) = Before(p, id) \union {p}
    BY <1>2, <1>5 DEF Before
  <2>2. \A q \in Before(End(p), id) : q <= p
    BY <1>1, <1>3
  <2>. QED
    BY <2>1, <2>2 DEF Last
<1>. QED
  BY <1>4, <1>5

\* A step of the walk.
LEMMA SkipOnward ==
  ASSUME Typed, WellFormed, OnChunks, pass \in {"chunks", "sound"}, HasTag, Skip,
         UNCHANGED <<media, pass>>
  PROVE  /\ pos \in Chunks /\ pos % 2 = 0 /\ Tag = Chunk(pos)
         /\ pos' = End(pos)
         /\ OnChunks'
         /\ \A q \in Chunks : q < pos' => q < pos \/ q = pos
<1>1. pos \in Chunks /\ pos % 2 = 0
  BY TagIsChunk DEF OnChunks
<1>2. /\ Tag = Chunk(pos)
      /\ pos' = End(pos)
      /\ End(pos) \in Chunks \union {media.len} /\ End(pos) % 2 = 0
      /\ FormBytes <= pos /\ pos < End(pos)
      /\ \A q \in Chunks : q < End(pos) => q <= pos
  BY <1>1, Onward DEF Typed, Skip, Tag
<1>3. pos \in Nat /\ pos' \in Nat /\ \A q \in Chunks : q \in Nat
  BY <1>2 DEF Typed, TypeOK, MediaTyped
<1>4. FormBytes <= pos'
  BY <1>2, <1>3 DEF FormBytes
<1>5. OnChunks'
  BY <1>2, <1>4 DEF OnChunks, Chunks
<1>. QED
  BY <1>1, <1>2, <1>3, <1>5

LEMMA FormatsOnward ==
  ASSUME Typed, WellFormed, AfterFormats, pos \in Chunks, pos % 2 = 0, pos' = End(pos), media' = media,
         Chunk(pos).id # "data", Chunk(pos).length > 0,
         Chunk(pos).id = "fmt" => Chunk(pos).unit > 0 /\ info'.unit = Chunk(pos).unit,
         Chunk(pos).id # "fmt" => info'.unit = info.unit
  PROVE  AfterFormats'
<1>1. /\ pos \in Nat /\ pos < pos'
      /\ \A q \in Chunks : q \in Nat /\ (q < pos' => q < pos \/ q = pos)
  <2>1. pos \in Nat /\ pos < pos' /\ \A q \in Chunks : q < pos' => q <= pos
    BY Onward DEF Typed
  <2>2. ASSUME NEW q \in Chunks
        PROVE  q \in Nat /\ (q < pos' => q < pos \/ q = pos)
    <3>1. q \in Nat
      BY DEF Typed, MediaTyped
    <3>2. q <= pos => q < pos \/ q = pos
      BY <2>1, <3>1
    <3>. QED
      BY <2>1, <3>1, <3>2
  <2>. QED
    BY <2>1, <2>2
<1>2. \A q \in Chunks : q < pos' =>
        /\ Chunk(q).id # "data" /\ Chunk(q).length > 0
        /\ Chunk(q).id = "fmt" => Chunk(q).unit > 0
  BY <1>1 DEF AfterFormats
<1>3. CASE Chunk(pos).id = "fmt"
  <2>1. Before(pos', "fmt") # {} /\ Last(pos, pos', "fmt")
    BY <1>3, BeforeNext DEF Typed
  <2>. QED
    BY <1>2, <1>3, <2>1 DEF AfterFormats, Last, Before, Chunk, Chunks
<1>4. CASE Chunk(pos).id # "fmt"
  <2>1. Before(pos', "fmt") = Before(pos, "fmt")
    BY <1>4, BeforeNext DEF Typed
  <2>2. \A q \in Chunks : Last(q, pos, "fmt") => Last(q, pos', "fmt")
    BY <2>1 DEF Last
  <2>. QED
    BY <1>2, <1>4, <2>1, <2>2 DEF AfterFormats, Last, Before, Chunk, Chunks
<1>. QED
  BY <1>3, <1>4

LEMMA CommonsOnward ==
  ASSUME Typed, WellFormed, AfterCommons(pos), pos \in Chunks, pos % 2 = 0, pos' = End(pos), media' = media,
         Chunk(pos).id = "COMM" =>
           /\ Chunk(pos).unit > 0 /\ Chunk(pos).count > 0
           /\ info' = [unit |-> Chunk(pos).unit, frames |-> Chunk(pos).count],
         Chunk(pos).id # "COMM" => info' = info
  PROVE  AfterCommons(pos)'
<1>1. CASE Chunk(pos).id = "COMM"
  <2>1. Before(pos', "COMM") = Before(pos, "COMM") \union {pos} /\ Last(pos, pos', "COMM")
    BY <1>1, BeforeNext DEF Typed
  <2>2. \A q \in Before(pos', "COMM") : Chunk(q).unit > 0 /\ Chunk(q).count > 0
    BY <1>1, <2>1 DEF AfterCommons
  <2>. QED
    BY <1>1, <2>1, <2>2 DEF AfterCommons, Last, Before, Chunk, Chunks
<1>2. CASE Chunk(pos).id # "COMM"
  <2>1. Before(pos', "COMM") = Before(pos, "COMM")
    BY <1>2, BeforeNext DEF Typed
  <2>2. \A q \in Chunks : Last(q, pos, "COMM") => Last(q, pos', "COMM")
    BY <2>1 DEF Last
  <2>. QED
    BY <1>2, <2>1, <2>2 DEF AfterCommons, Last, Before, Chunk, Chunks
<1>. QED
  BY <1>1, <1>2

-----------------------------------------------------------------------------
(* Every action keeps the invariant.                                       *)

LEMMA InvInit == Init => IInv
<1> SUFFICES ASSUME Init
    PROVE  IInv
  OBVIOUS
<1>1. Typed
  BY TypedInit
<1>2. pass = "form" /\ pos = 0 /\ info = NoInfo
  BY DEF Init
<1>. QED
  BY <1>1, <1>2 DEF IInv, OnChunks, Seen

LEMMA InvStep == IInv /\ [Next]_vars => IInv'
<1> SUFFICES ASSUME IInv, [Next]_vars
    PROVE  IInv'
  OBVIOUS
<1>1. Typed /\ Typed'
  BY TypedStep DEF IInv
<1>2. UNCHANGED media
  BY DEF Next, vars, ReadForm, WavFormat, WavData, WavOther, AiffCommon, AiffOther, NoTag,
         AiffSound, AiffSkip, Refuse, OpenAt
<1>3. WellFormed' <=> WellFormed
  BY <1>2 DEF WellFormed, Chunks, End, Chunk
<1> SUFFICES ASSUME WellFormed
    PROVE  OnChunks' /\ Seen'
  BY <1>1, <1>3 DEF IInv
<1>4. OnChunks /\ Seen
  BY DEF IInv
<1>5. media.kind \in {"wav", "aiff"} /\ media.len \in Nat
  BY <1>1 DEF Typed, MediaTyped
<1>6. ASSUME pass' \in {"opened", "refused"}
      PROVE  OnChunks' /\ Seen'
  BY <1>6 DEF OnChunks, Seen
<1>7. CASE ReadForm
  <2>1. CASE Refuse
    BY <1>6, <2>1 DEF Refuse
  <2>2. CASE pass' = "chunks" /\ pos' = FormBytes /\ UNCHANGED info
    <3>1. \A q \in Chunks : ~(q < FormBytes)
      BY <1>1 DEF WellFormed, Typed, MediaTyped, FormBytes
    <3>2. \A id : Before(FormBytes, id) = {}
      BY <3>1 DEF Before
    <3>3. info = NoInfo
      BY <1>4, <1>7 DEF Seen, ReadForm
    <3>4. AfterFormats' /\ AfterCommons(pos)'
      BY <1>2, <2>2, <3>1, <3>2, <3>3 DEF AfterFormats, AfterCommons, Before, Chunks, Chunk, NoInfo
    <3>5. OnChunks'
      BY <1>2, <2>2 DEF OnChunks, WellFormed, FormBytes, Chunks
    <3>. QED
      BY <2>2, <3>4, <3>5 DEF Seen
  <2>. QED
    BY <1>7, <2>1, <2>2 DEF ReadForm
<1>8. ASSUME HasTag, Skip, pass = "chunks", UNCHANGED pass, media.kind = "wav", Tag.id # "data",
             Tag.id = "fmt" => Tag.unit > 0 /\ info'.unit = Tag.unit,
             Tag.id # "fmt" => info' = info
      PROVE  OnChunks' /\ Seen'
  <2>1. pos \in Chunks /\ pos % 2 = 0 /\ Tag = Chunk(pos) /\ pos' = End(pos) /\ OnChunks'
    BY <1>1, <1>2, <1>4, <1>8, SkipOnward
  <2>2. Chunk(pos).length > 0
    BY <1>8, <2>1 DEF HasTag
  <2>3. AfterFormats
    BY <1>4, <1>8 DEF Seen
  <2>4. AfterFormats'
    BY <1>1, <1>2, <1>8, <2>1, <2>2, <2>3, FormatsOnward
  <2>. QED
    BY <1>2, <1>8, <2>1, <2>4 DEF Seen
<1>9. CASE WavFormat
  <2>1. CASE Refuse
    BY <1>6, <2>1 DEF Refuse
  <2>2. CASE Tag.unit > 0 /\ info' = [info EXCEPT !.unit = Tag.unit] /\ Skip /\ UNCHANGED pass
    <3>1. info'.unit = Tag.unit
      BY <1>1, <2>2 DEF Typed, TypeOK
    <3>. QED
      BY <1>8, <1>9, <2>2, <3>1 DEF WavFormat, At
  <2>. QED
    BY <1>9, <2>1, <2>2 DEF WavFormat
<1>10. CASE WavData
  BY <1>6, <1>10 DEF WavData, OpenAt, Refuse
<1>11. CASE WavOther
  <2>1. CASE Refuse
    BY <1>6, <2>1 DEF Refuse
  <2>2. CASE Skip /\ UNCHANGED <<pass, info>>
    BY <1>8, <1>11, <2>2 DEF WavOther, At
  <2>. QED
    BY <1>11, <2>1, <2>2 DEF WavOther
<1>12. ASSUME HasTag, Skip, pass = "chunks", UNCHANGED pass, media.kind = "aiff",
              Tag.id = "COMM" => /\ Tag.unit > 0 /\ Tag.count > 0
                                 /\ info' = [unit |-> Tag.unit, frames |-> Tag.count],
              Tag.id # "COMM" => info' = info
       PROVE  OnChunks' /\ Seen'
  <2>1. pos \in Chunks /\ pos % 2 = 0 /\ Tag = Chunk(pos) /\ pos' = End(pos) /\ OnChunks'
    BY <1>1, <1>2, <1>4, <1>12, SkipOnward
  <2>2. AfterCommons(pos)
    BY <1>4, <1>12 DEF Seen
  <2>3. AfterCommons(pos)'
    BY <1>1, <1>2, <1>12, <2>1, <2>2, CommonsOnward
  <2>. QED
    BY <1>2, <1>12, <2>1, <2>3 DEF Seen
<1>13. CASE AiffCommon
  <2>1. CASE Refuse
    BY <1>6, <2>1 DEF Refuse
  <2>2. CASE /\ Tag.count >= 1 /\ Tag.unit > 0 /\ Skip /\ UNCHANGED pass
             /\ info' = [unit |-> Tag.unit, frames |-> Tag.count]
    <3>1. Tag.count > 0
      BY <1>1, <2>2, TagTyped DEF Tag, Typed, TypeOK
    <3>. QED
      BY <1>12, <1>13, <2>2, <3>1 DEF AiffCommon, At
  <2>. QED
    BY <1>13, <2>1, <2>2 DEF AiffCommon
<1>14. CASE AiffOther
  <2>1. CASE Refuse
    BY <1>6, <2>1 DEF Refuse
  <2>2. CASE Skip /\ UNCHANGED <<pass, info>>
    BY <1>12, <1>14, <2>2 DEF AiffOther, At
  <2>. QED
    BY <1>14, <2>1, <2>2 DEF AiffOther
<1>15. CASE NoTag
  <2>1. CASE Refuse
    BY <1>6, <2>1 DEF Refuse
  <2>2. CASE /\ media.kind = "aiff" /\ pass = "chunks" /\ info # NoInfo
             /\ pos' = FormBytes /\ pass' = "sound" /\ UNCHANGED info
    <3>1. pos = media.len
      BY <1>1, <1>4, <1>15, <2>2, TagIsChunk DEF NoTag
    <3>2. AfterCommons(media.len)'
      BY <1>2, <1>4, <2>2, <3>1 DEF Seen, AfterCommons, Before, Last, Chunks, Chunk
    <3>3. \A q \in Chunks : ~(q < FormBytes)
      BY <1>1 DEF WellFormed, Typed, MediaTyped, FormBytes
    <3>4. OnChunks'
      BY <1>2, <2>2 DEF OnChunks, WellFormed, FormBytes, Chunks
    <3>. QED
      BY <1>2, <2>2, <3>2, <3>3, <3>4 DEF Seen, Chunks, NoInfo
  <2>. QED
    BY <1>15, <2>1, <2>2 DEF NoTag
<1>16. CASE AiffSound
  BY <1>6, <1>16 DEF AiffSound, OpenAt, Refuse
<1>17. CASE AiffSkip
  <2>1. /\ HasTag /\ Skip /\ pass = "sound" /\ media.kind = "aiff" /\ Tag.id # "SSND"
        /\ UNCHANGED <<pass, info>>
    BY <1>17 DEF AiffSkip, At
  <2>2. /\ Tag = Chunk(pos)
        /\ OnChunks'
        /\ \A q \in Chunks : q < pos' => q < pos \/ q = pos
    BY <1>1, <1>2, <1>4, <2>1, SkipOnward
  <2>3. \A q \in Chunks : q < pos' => Chunk(q).id # "SSND"
    BY <1>4, <2>1, <2>2 DEF Seen
  <2>4. AfterCommons(media.len)'
    BY <1>2, <1>4, <2>1 DEF Seen, AfterCommons, Before, Last, Chunks, Chunk
  <2>. QED
    BY <1>2, <1>4, <2>1, <2>2, <2>3, <2>4 DEF Seen, Chunks, Chunk, NoInfo
<1>18. CASE UNCHANGED vars
  BY <1>4, <1>18 DEF vars, OnChunks, Seen, AfterFormats, AfterCommons, Before, Last, Chunks, Chunk, NoInfo
<1>. QED
  BY <1>7, <1>9, <1>10, <1>11, <1>13, <1>14, <1>15, <1>16, <1>17, <1>18 DEF Next

-----------------------------------------------------------------------------
(* A file is opened on its sound data only.                                *)

LEMMA LastIsLast ==
  ASSUME MediaTyped, NEW p, NEW id, NEW q, Last(q, p, id)
  PROVE  LastBefore(p, id) = q
<1>1. \A r \in Before(p, id) : r \in Nat
  BY DEF Before, MediaTyped
<1>2. \A r \in Before(p, id) : (\A t \in Before(p, id) : t <= r) => r = q
  BY <1>1 DEF Last
<1>. QED
  BY <1>2 DEF Last, LastBefore

LEMMA ChunksAreInTheFile ==
  ASSUME MediaTyped, WellFormed, NEW q \in Chunks
  PROVE  q < media.len
<1>1. q \in Nat /\ Chunk(q).length \in Nat
  BY DEF MediaTyped, Tags
<1>2. Chunk(q).length % 2 \in {0, 1}
  BY <1>1
<1>. QED
  BY <1>1, <1>2 DEF WellFormed, End, TagBytes, MediaTyped

\* What is in the file stays there.
LEMMA SameFile ==
  ASSUME UNCHANGED media, NEW p, NEW id
  PROVE  /\ Chunks' = Chunks /\ Chunk(p)' = Chunk(p)
         /\ Before(p, id)' = Before(p, id)
         /\ LastBefore(p, id)' = LastBefore(p, id)
         /\ Complete(p)' = Complete(p)
         /\ WellFormed' = WellFormed
<1>1. Chunks' = Chunks /\ \A q : Chunk(q)' = Chunk(q) /\ End(q)' = End(q)
  BY DEF Chunks, Chunk, End
<1>2. \A q, i : Before(q, i)' = Before(q, i) /\ LastBefore(q, i)' = LastBefore(q, i)
  BY <1>1 DEF Before, LastBefore
<1>3. Complete(p)' = Complete(p)
  BY <1>1, <1>2 DEF Complete, WavComplete, AiffComplete, First
<1>4. WellFormed' = WellFormed
  BY <1>1 DEF WellFormed
<1>. QED
  BY <1>1, <1>2, <1>3, <1>4

\* An opened or refused file stays so.
LEMMA OverIsOver ==
  ASSUME [Next]_vars, pass \in {"opened", "refused"}
  PROVE  UNCHANGED vars
BY DEF Next, vars, ReadForm, WavFormat, WavData, WavOther, AiffCommon, AiffOther, NoTag,
       AiffSound, AiffSkip, At

\* Only the sound data opens a file.
LEMMA OpeningSteps ==
  ASSUME [Next]_vars, Walking, pass' = "opened"
  PROVE  \/ /\ WavData
            /\ info.unit > 0 /\ Tag.length \div info.unit >= 1
            /\ OpenAt(Body, [info EXCEPT !.frames = Tag.length \div info.unit])
         \/ AiffSound /\ OpenAt(Body + 8 + Tag.unit, info)
<1>1. ~Refuse /\ pass # "opened"
  BY DEF Refuse, Walking
<1>. QED
  BY <1>1 DEF Next, vars, ReadForm, WavFormat, WavData, WavOther, AiffCommon, AiffOther, NoTag,
              AiffSound, AiffSkip, At

LEMMA WavOpens ==
  ASSUME IInv, WellFormed, WavData,
         info.unit > 0, Tag.length \div info.unit >= 1,
         OpenAt(Body, [info EXCEPT !.frames = Tag.length \div info.unit])
  PROVE  OpenedOnTheData'
<1>1. Typed /\ OnChunks /\ Seen /\ MediaTyped
  BY DEF IInv, Typed
<1>2. media.kind = "wav" /\ pass = "chunks" /\ HasTag /\ Tag.id = "data"
  BY DEF WavData, At
<1>3. AfterFormats /\ pos \in Chunks /\ pos \in Nat /\ pos % 2 = 0
  BY <1>1, <1>2, TagIsChunk DEF Seen, OnChunks, Typed, TypeOK
<1>4. Tag = Chunk(pos) /\ Chunk(pos).length \in Nat
  BY <1>1, <1>3, Onward DEF Tag, MediaTyped, Tags
<1>5. Before(pos, "data") = {}
  BY <1>3 DEF AfterFormats, Before
<1>6. PICK q \in Chunks : Last(q, pos, "fmt") /\ info.unit = Chunk(q).unit
  BY <1>3 DEF AfterFormats
<1>7. Before(pos, "fmt") # {} /\ LastBefore(pos, "fmt") = q
  BY <1>1, <1>6, LastIsLast DEF Last
<1>. PICK p \in Chunks : p = pos
  BY <1>3
<1>. DEFINE n == Chunk(pos).length
            u == info.unit
            d == n \div u
<1>8. n \in Nat /\ u \in Nat \ {0}
  BY <1>1, <1>4 DEF Typed, TypeOK
<1>9. d * u \in Nat /\ d * u <= n /\ n < d * u + u /\ (d * u) % u = 0 /\ n >= u
  BY <1>4, <1>8, WholeFrames
<1>10. WavComplete(pos)
  BY <1>2, <1>3, <1>4, <1>5, <1>6, <1>7, <1>9 DEF WavComplete, First, AfterFormats
<1>11. /\ UNCHANGED media
       /\ view' = [beg |-> Body, end |-> Body + d * u]
  BY <1>1, <1>4 DEF OpenAt, Typed, TypeOK
<1>12. /\ view'.beg = p + TagBytes /\ view'.end - view'.beg = d * u
       /\ media' = media /\ Chunk(p) = Chunk(pos)
  <2>. HIDE DEF d, u, n
  <2>. QED
    BY <1>3, <1>9, <1>11 DEF Body, TagBytes
<1>13. /\ Complete(p)
       /\ LastBefore(p, "fmt") = q
  BY <1>2, <1>7, <1>10 DEF Complete
<1>. DEFINE size == view'.end - view'.beg
<1>14. size <= Chunk(p).length /\ Chunk(p).length < size + u /\ size % u = 0
  BY <1>9, <1>12
<1>. HIDE DEF d, u, n, size
<1>15. \A id : /\ Chunks' = Chunks /\ Chunk(p)' = Chunk(p) /\ Chunk(q)' = Chunk(q)
               /\ LastBefore(p, id)' = LastBefore(p, id) /\ Complete(p)' = Complete(p)
  BY <1>12, SameFile
<1>16. Chunk(q).unit = u
  BY <1>6 DEF u
<1>. QED
  BY <1>2, <1>12, <1>13, <1>14, <1>15, <1>16 DEF OpenedOnTheData, ViewIsOn, size

LEMMA AiffOpens ==
  ASSUME IInv, WellFormed, AiffSound, OpenAt(Body + 8 + Tag.unit, info)
  PROVE  OpenedOnTheData'
<1>1. Typed /\ OnChunks /\ Seen /\ MediaTyped
  BY DEF IInv, Typed
<1>2. media.kind = "aiff" /\ pass = "sound" /\ HasTag /\ Tag.id = "SSND"
  BY DEF AiffSound, At
<1>3. /\ AfterCommons(media.len) /\ info # NoInfo
      /\ \A q \in Chunks : q < pos => Chunk(q).id # "SSND"
  BY <1>1, <1>2 DEF Seen
<1>4. pos \in Chunks /\ pos \in Nat /\ pos % 2 = 0
  BY <1>1, <1>2, TagIsChunk DEF OnChunks, Typed, TypeOK
<1>. PICK p \in Chunks : p = pos
  BY <1>4
<1>5. Tag = Chunk(p) /\ Chunk(p).unit \in Nat
  BY <1>1, <1>4, Onward DEF Tag, MediaTyped, Tags
<1>6. PICK q \in Chunks :
        Last(q, media.len, "COMM") /\ info = [unit |-> Chunk(q).unit, frames |-> Chunk(q).count]
  BY <1>3 DEF AfterCommons
<1>7. Before(media.len, "COMM") # {} /\ LastBefore(media.len, "COMM") = q
  BY <1>1, <1>6, LastIsLast DEF Last
<1>8. \A r \in Chunks : Chunk(r).id = "COMM" => Chunk(r).unit > 0 /\ Chunk(r).count > 0
  BY <1>1, <1>3, ChunksAreInTheFile DEF AfterCommons, Before
<1>9. First("SSND", p)
  BY <1>2, <1>3, <1>4, <1>5 DEF First, Before
<1>10. Complete(p)
  BY <1>2, <1>7, <1>8, <1>9 DEF Complete, AiffComplete
<1>11. /\ media' = media
       /\ view'.beg = p + TagBytes + 8 + Chunk(p).unit
       /\ view'.end = view'.beg + info.frames * info.unit
  BY <1>4, <1>5 DEF OpenAt, Body, TagBytes
<1>12. Chunk(q).unit \in Nat /\ Chunk(q).count \in Nat
  BY <1>1 DEF MediaTyped, Tags
<1>13. view'.end = view'.beg + Chunk(q).unit * Chunk(q).count
  BY <1>6, <1>11, <1>12, Product
<1>14. \A i : /\ Chunks' = Chunks /\ Chunk(p)' = Chunk(p) /\ Chunk(q)' = Chunk(q)
              /\ Before(p, i)' = Before(p, i) /\ Complete(p)' = Complete(p)
  BY <1>11, SameFile
<1>15. LastBefore(media.len, "COMM")' = q
  BY <1>7, <1>11, <1>14 DEF LastBefore, Before, Chunk, Chunks
<1>. QED
  BY <1>2, <1>10, <1>11, <1>13, <1>14, <1>15 DEF OpenedOnTheData, ViewIsOn

\* A well-formed file that is opened is opened on its first sound data, behind the
\* format that describes it, and the view ends with the last whole frame there.
THEOREM FilesOpenOnTheirData == Spec => []OpenedOnTheData
<1>1. Init => OpenedOnTheData
  BY DEF Init, OpenedOnTheData, Opened
<1>2. IInv /\ OpenedOnTheData /\ [Next]_vars => OpenedOnTheData'
  <2>. SUFFICES ASSUME IInv, OpenedOnTheData, [Next]_vars, WellFormed', pass' = "opened"
                PROVE  OpenedOnTheData'
    BY DEF OpenedOnTheData, Opened
  <2>1. CASE pass \in {"opened", "refused"}
    <3>1. UNCHANGED vars
      BY <2>1, OverIsOver
    <3>2. UNCHANGED <<media, view, pass>>
      BY <3>1 DEF vars
    <3>3. WellFormed /\ Opened
      BY <3>2, SameFile DEF Opened
    <3>4. PICK p \in Chunks : Complete(p) /\ ViewIsOn(p)
      BY <3>3 DEF OpenedOnTheData
    <3>5. \A id : /\ Chunks' = Chunks /\ Chunk(p)' = Chunk(p) /\ Complete(p)' = Complete(p)
                  /\ LastBefore(p, id)' = LastBefore(p, id)
      BY <3>2, SameFile
    <3>6. LastBefore(media.len, "COMM")' = LastBefore(media.len, "COMM")
      BY <3>2 DEF LastBefore, Before, Chunk, Chunks
    <3>7. Chunk(LastBefore(p, "fmt"))' = Chunk(LastBefore(p, "fmt"))
          /\ Chunk(LastBefore(media.len, "COMM"))' = Chunk(LastBefore(media.len, "COMM"))
      BY <3>2, <3>5, <3>6 DEF Chunk
    <3>. QED
      BY <3>2, <3>4, <3>5, <3>7 DEF OpenedOnTheData, ViewIsOn
  <2>2. CASE Walking
    <3>1. UNCHANGED media
      BY <2>2, OpeningSteps DEF OpenAt
    <3>2. WellFormed
      BY <3>1, SameFile
    <3>. QED
      BY <2>2, <3>2, OpeningSteps, WavOpens, AiffOpens
  <2>. QED
    BY <2>1, <2>2 DEF IInv, Typed, TypeOK, Walking
<1>. QED
  BY <1>1, <1>2, InvInit, InvStep, PTL DEF Spec

-----------------------------------------------------------------------------
(* Files that are all right are opened.                                    *)

\* What the walk can fetch at a chunk: its body.
LEMMA BodiesAreThere ==
  ASSUME Typed, WellFormed, OnChunks, pass \in {"chunks", "sound"}, HasTag,
         \A q \in Chunks : WellDescribed(Chunk(q))
  PROVE  /\ pos \in Chunks /\ Tag = Chunk(pos) /\ WellDescribed(Tag)
         /\ Tag.length \in Nat /\ Tag.unit \in Nat /\ Tag.count \in Nat
         /\ \A n \in Nat : n <= Tag.length => CanFetch(Body, n)
<1>1. pos \in Chunks /\ pos % 2 = 0 /\ pos \in Nat /\ media.len \in Nat
  BY TagIsChunk DEF OnChunks, Typed, TypeOK, MediaTyped
<1>2. Tag = Chunk(pos) /\ pos + TagBytes + Chunk(pos).length <= media.len
  BY <1>1, Onward DEF Tag, Typed
<1>3. Chunk(pos) \in Tags
  BY <1>1 DEF Typed, MediaTyped
<1>4. \A n \in Nat : n <= Chunk(pos).length => CanFetch(Body, n)
  BY <1>1, <1>2, <1>3 DEF CanFetch, Body, TagBytes, Tags
<1>. QED
  BY <1>1, <1>2, <1>3, <1>4 DEF Tags

LEMMA WavIsNotRefused ==
  ASSUME IInv, WellFormed, \A q \in Chunks : WellDescribed(Chunk(q)), NEW p \in Chunks, WavComplete(p),
         media.kind = "wav", pass = "chunks"
  PROVE  /\ HasTag
         /\ ~(WavFormat /\ Refuse) /\ ~(WavData /\ Refuse) /\ ~(WavOther /\ Refuse)
<1>1. Typed /\ OnChunks /\ AfterFormats /\ MediaTyped /\ pos \in Nat /\ media.len \in Nat
  BY DEF IInv, Typed, TypeOK, MediaTyped, Seen
<1>2. p \in Nat /\ p < media.len /\ pos <= p
  <2>1. p \in Nat /\ p < media.len
    BY <1>1, ChunksAreInTheFile DEF MediaTyped
  <2>2. ~(p < pos)
    BY <1>1 DEF AfterFormats, WavComplete, First
  <2>. QED
    BY <1>1, <2>1, <2>2
<1>3. pos = p => Chunk(pos).length > 0
  <2>1. Before(p, "fmt") # {}
    BY DEF WavComplete
  <2>2. pos = p => \E q \in Chunks : Last(q, p, "fmt") /\ info.unit = Chunk(q).unit
    BY <1>1, <2>1 DEF AfterFormats
  <2>3. \A q \in Chunks : Last(q, p, "fmt") => Chunk(q).unit > 0 /\ LastBefore(p, "fmt") = q
    BY <1>1, LastIsLast DEF Last, Before, WavComplete
  <2>4. Chunk(p).length \in Nat /\ \A q \in Chunks : Chunk(q).unit \in Nat
    BY <1>1 DEF MediaTyped, Tags
  <2>. QED
    BY <2>2, <2>3, <2>4 DEF WavComplete
<1>4. HasTag
  <2>1. pos \in Chunks => Chunk(pos).length > 0
    BY <1>2, <1>3 DEF WavComplete
  <2>. QED
    BY <1>1, <1>2, <2>1, TagIsChunk
<1>5. /\ pos \in Chunks /\ Tag = Chunk(pos) /\ WellDescribed(Tag)
      /\ Tag.length \in Nat /\ Tag.unit \in Nat /\ Tag.count \in Nat
      /\ \A n \in Nat : n <= Tag.length => CanFetch(Body, n)
  BY <1>1, <1>4, BodiesAreThere
<1>6. ~(WavFormat /\ Refuse)
  <2>. SUFFICES ASSUME WavFormat, Refuse
                PROVE  FALSE
    OBVIOUS
  <2>1. Tag.id = "fmt" /\ Tag.length >= 16
    BY <1>5 DEF WavFormat, At, WellDescribed
  <2>2. p # pos
    BY <1>5, <2>1 DEF WavComplete, First
  <2>3. Tag.unit > 0
    BY <1>2, <1>5, <2>1, <2>2 DEF WavComplete
  <2>4. CanFetch(Body, FormatNeeds)
    BY <1>5, <2>1 DEF FormatNeeds
  <2>5. pass' # pass
    BY DEF Refuse
  <2>. QED
    BY <2>1, <2>3, <2>4, <2>5 DEF WavFormat
<1>7. ~(WavData /\ Refuse)
  <2>. SUFFICES ASSUME WavData, Refuse
                PROVE  FALSE
    OBVIOUS
  <2>1. Tag.id = "data"
    BY DEF WavData, At
  <2>2. pos = p
    BY <1>2, <1>5, <2>1 DEF WavComplete, First, Before
  <2>3. PICK q \in Chunks : Last(q, p, "fmt") /\ info.unit = Chunk(q).unit
    BY <1>1, <2>2 DEF AfterFormats, WavComplete
  <2>4. LastBefore(p, "fmt") = q /\ Chunk(q).unit > 0 /\ Chunk(q).unit \in Nat
    BY <1>1, <2>3, LastIsLast DEF Last, Before, WavComplete, MediaTyped, Tags
  <2>5. Tag.length >= info.unit /\ info.unit \in Nat \ {0}
    BY <1>5, <2>2, <2>3, <2>4 DEF WavComplete
  <2>6. Tag.length \div info.unit >= 1
    BY <1>5, <2>5, WholeFrames
  <2>7. pass' = "refused"
    BY DEF Refuse
  <2>. QED
    BY <2>5, <2>6, <2>7 DEF WavData, OpenAt
<1>8. ~(WavOther /\ Refuse)
  <2>. SUFFICES ASSUME WavOther, Refuse
                PROVE  FALSE
    OBVIOUS
  <2>1. /\ Tag.id = "smpl" => Tag.length >= 36 + 24 * Tag.count
    BY <1>5 DEF WellDescribed
  <2>2. Tag.id = "smpl" => CanFetch(Body, 36 + 24 * Tag.count)
    BY <1>5, <2>1
  <2>3. Tag.length >= 7 => CanFetch(Body, 7)
    BY <1>5
  <2>4. pass' # pass
    BY DEF Refuse
  <2>. QED
    BY <2>2, <2>3, <2>4 DEF WavOther
<1>. QED
  BY <1>4, <1>6, <1>7, <1>8

LEMMA AiffIsNotRefused ==
  ASSUME IInv, WellFormed, \A q \in Chunks : WellDescribed(Chunk(q)), NEW p \in Chunks, AiffComplete(p),
         media.kind = "aiff", pass \in {"chunks", "sound"}
  PROVE  /\ ~(AiffCommon /\ Refuse) /\ ~(AiffOther /\ Refuse)
         /\ ~(AiffSound /\ Refuse) /\ ~(NoTag /\ Refuse)
<1>1. Typed /\ OnChunks /\ Seen /\ MediaTyped /\ pos \in Nat /\ media.len \in Nat
  BY DEF IInv, Typed, TypeOK, MediaTyped
<1>2. \A q \in Chunks : q \in Nat /\ q < media.len
  BY <1>1, ChunksAreInTheFile DEF MediaTyped
<1>3. ASSUME HasTag
      PROVE  /\ pos \in Chunks /\ Tag = Chunk(pos) /\ WellDescribed(Tag)
             /\ Tag.length \in Nat /\ Tag.unit \in Nat /\ Tag.count \in Nat
             /\ \A n \in Nat : n <= Tag.length => CanFetch(Body, n)
  BY <1>1, <1>3, BodiesAreThere
<1>4. ~(AiffCommon /\ Refuse)
  <2>. SUFFICES ASSUME AiffCommon, Refuse
                PROVE  FALSE
    OBVIOUS
  <2>1. HasTag /\ Tag.id = "COMM"
    BY DEF AiffCommon, At
  <2>2. Tag.length >= (IF media.aifc THEN 22 ELSE 18) /\ Tag.unit > 0 /\ Tag.count > 0
    BY <1>3, <2>1 DEF WellDescribed, AiffComplete
  <2>3. CommonNeeds \in Nat /\ CommonNeeds <= Tag.length /\ Tag.length >= 18 /\ Tag.count >= 1
    BY <1>3, <2>1, <2>2 DEF CommonNeeds
  <2>4. CanFetch(Body, CommonNeeds)
    BY <1>3, <2>1, <2>3
  <2>5. pass' # pass
    BY DEF Refuse
  <2>. QED
    BY <2>2, <2>3, <2>4, <2>5 DEF AiffCommon
<1>5. ~(AiffOther /\ Refuse)
  <2>. SUFFICES ASSUME AiffOther, Refuse
                PROVE  FALSE
    OBVIOUS
  <2>1. HasTag
    BY DEF AiffOther, At
  <2>2. /\ Tag.id = "MARK" => 1 + 8 * Tag.count <= Tag.length
        /\ Tag.id = "INST" => 20 <= Tag.length
    BY <1>3, <2>1 DEF WellDescribed
  <2>3. /\ Tag.id = "MARK" => CanFetch(Body, 1 + 8 * Tag.count)
        /\ Tag.id = "INST" => CanFetch(Body, 20)
    BY <1>3, <2>1, <2>2
  <2>4. pass' # pass
    BY DEF Refuse
  <2>. QED
    BY <2>3, <2>4 DEF AiffOther
<1>6. ~(AiffSound /\ Refuse)
  <2>. SUFFICES ASSUME AiffSound, Refuse
                PROVE  FALSE
    OBVIOUS
  <2>1. HasTag /\ Tag.id = "SSND"
    BY DEF AiffSound, At
  <2>2. CanFetch(Body, 8)
    BY <1>3, <2>1 DEF WellDescribed
  <2>3. pass' = "refused"
    BY DEF Refuse
  <2>. QED
    BY <2>2, <2>3 DEF AiffSound, OpenAt
<1>7. ~(NoTag /\ Refuse)
  <2>. SUFFICES ASSUME NoTag, Refuse
                PROVE  FALSE
    OBVIOUS
  <2>1. pos = media.len
    BY <1>1, TagIsChunk DEF NoTag
  <2>2. pass = "chunks"
    BY <1>1, <1>2, <2>1 DEF Seen, AiffComplete, First
  <2>3. AfterCommons(media.len)
    BY <1>1, <2>1, <2>2 DEF Seen
  <2>4. PICK q \in Chunks :
          Last(q, media.len, "COMM") /\ info = [unit |-> Chunk(q).unit, frames |-> Chunk(q).count]
    BY <2>3 DEF AfterCommons, AiffComplete
  <2>5. Chunk(q).unit > 0 /\ Chunk(q).unit \in Nat
    BY <1>1, <2>4 DEF Last, Before, AiffComplete, MediaTyped, Tags
  <2>6. info # NoInfo
    BY <2>4, <2>5 DEF NoInfo
  <2>7. pass' = "refused"
    BY DEF Refuse
  <2>. QED
    BY <2>2, <2>6, <2>7 DEF NoTag
<1>. QED
  BY <1>4, <1>5, <1>6, <1>7

\* A well-formed file that has what it takes is opened, whatever other chunks it
\* holds and in whatever order.
THEOREM CompleteFilesAreOpened == Spec => []CompleteFilesOpen
<1>1. Init => CompleteFilesOpen
  BY DEF Init, CompleteFilesOpen, Refused
<1>2. IInv /\ CompleteFilesOpen /\ [Next]_vars => CompleteFilesOpen'
  <2>. SUFFICES ASSUME IInv, CompleteFilesOpen, [Next]_vars, pass' = "refused",
                       WellFormed', (\A q \in Chunks : WellDescribed(Chunk(q)))',
                       (\E p \in Chunks : Complete(p))'
                PROVE  FALSE
    BY DEF CompleteFilesOpen, Refused
  <2>1. UNCHANGED media
    BY DEF Next, vars, ReadForm, WavFormat, WavData, WavOther, AiffCommon, AiffOther, NoTag,
           AiffSound, AiffSkip, Refuse, OpenAt
  <2>2. WellFormed /\ \A q \in Chunks : WellDescribed(Chunk(q))
    BY <2>1, SameFile DEF WellDescribed, Chunk, Chunks
  <2>3. PICK p \in Chunks : Complete(p)
    BY <2>1, SameFile DEF Chunks
  <2>4. pass \notin {"opened", "refused"}
    <3>1. pass # "refused"
      BY <2>2, <2>3 DEF CompleteFilesOpen, Refused
    <3>2. pass = "opened" => UNCHANGED pass
      BY OverIsOver DEF vars
    <3>. QED
      BY <3>1, <3>2
  <2>5. Typed /\ Seen /\ media.kind \in {"wav", "aiff"}
    BY <2>2 DEF IInv, Typed, MediaTyped
  <2>6. /\ Refuse
        /\ ReadForm \/ WavFormat \/ WavData \/ WavOther \/ AiffCommon \/ AiffOther \/ NoTag \/ AiffSound
    BY <2>4 DEF Next, vars, ReadForm, WavFormat, WavData, WavOther, AiffCommon, AiffOther, NoTag,
                AiffSound, AiffSkip, OpenAt
  <2>7. ~ReadForm
    <3>1. p \in Nat /\ p < media.len /\ FormBytes <= p /\ media.len \in Nat /\ media.form
      BY <2>2, <2>5, ChunksAreInTheFile DEF Typed, MediaTyped, WellFormed
    <3>2. CanFetch(0, FormBytes)
      BY <3>1 DEF CanFetch, FormBytes
    <3>. QED
      BY <2>5, <2>6, <3>1, <3>2 DEF ReadForm, Refuse, Seen
  <2>8. CASE media.kind = "wav"
    <3>1. pass = "chunks" /\ WavComplete(p)
      BY <2>3, <2>5, <2>6, <2>7, <2>8 DEF Seen, Complete, WavFormat, WavData, WavOther, AiffCommon,
                                     AiffOther, NoTag, AiffSound, At
    <3>. QED
      BY <2>2, <2>6, <2>7, <2>8, <3>1, WavIsNotRefused DEF AiffCommon, AiffOther, NoTag, AiffSound, At
  <2>9. CASE media.kind = "aiff"
    <3>1. pass \in {"chunks", "sound"} /\ AiffComplete(p)
      BY <2>3, <2>6, <2>7, <2>9 DEF Complete, WavFormat, WavData, WavOther, AiffCommon,
                                     AiffOther, NoTag, AiffSound, At
    <3>. QED
      BY <2>2, <2>6, <2>7, <2>9, <3>1, AiffIsNotRefused DEF WavFormat, WavData, WavOther, At
  <2>. QED
    BY <2>5, <2>8, <2>9
<1>. QED
  BY <1>1, <1>2, InvInit, InvStep, PTL DEF Spec
=============================================================================
