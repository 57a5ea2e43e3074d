----------------------- MODULE MediaFoundationProofs -----------------------
(***************************************************************************)
(* What holds of MediaFoundationSource for every stream, block size and    *)
(* read offset, and whatever goes wrong in the reader.                     *)
(***************************************************************************)
EXTENDS MediaFoundationSource, FiniteSetTheorems, TLAPS

-----------------------------------------------------------------------------
(* Arithmetic of blocks and ranges.                                        *)

LEMMA Quotient ==
  ASSUME NEW k \in Nat, NEW u \in Nat \ {0}
  PROVE  /\ k \div u \in Nat
         /\ \A n \in Nat : n * u \in Nat
         /\ \A n \in Nat : n * u <= k => n <= k \div u
         /\ \A n \in Nat : n <= k \div u => n * u <= k
         /\ \A n \in Nat, i \in 0..(u - 1) : (n * u + i) \div u = n
<1>. DEFINE d == k \div u
<1>1. d \in Nat /\ d * u <= k /\ k < d * u + u
  OBVIOUS
<1>2. \A n \in Nat : n * u \in Nat
  OBVIOUS
<1>3. ASSUME NEW n \in Nat, n * u <= k, ~(n <= d)
      PROVE  FALSE
  <2>1. n >= d + 1
    BY <1>1, <1>3
  <2>2. n * u >= (d + 1) * u
    BY <1>1, <2>1
  <2>3. (d + 1) * u = d * u + u
    BY <1>1
  <2>. QED
    BY <1>1, <1>2, <1>3, <2>2, <2>3
<1>4. ASSUME NEW n \in Nat, n <= d
      PROVE  n * u <= k
  <2>1. n * u <= d * u
    BY <1>1, <1>4
  <2>. QED
    BY <1>1, <1>2, <2>1
<1>5. ASSUME NEW n \in Nat, NEW i \in 0..(u - 1)
      PROVE  (n * u + i) \div u = n
  OBVIOUS
<1>. QED
  BY <1>1, <1>2, <1>3, <1>4, <1>5

LEMMA MinOfRange ==
  ASSUME NEW a \in Int, NEW z \in Int, a <= z
  PROVE  Min(a..z) = a /\ Max(a..z) = z
<1>1. \A x \in a..z : (\A y \in a..z : x <= y) => x = a
  OBVIOUS
<1>2. \A x \in a..z : (\A y \in a..z : x >= y) => x = z
  OBVIOUS
<1>3. a \in a..z /\ \A y \in a..z : a <= y
  OBVIOUS
<1>4. z \in a..z /\ \A y \in a..z : z >= y
  OBVIOUS
<1>5. Min(a..z) = a
  BY <1>1, <1>3 DEF Min
<1>6. Max(a..z) = z
  BY <1>2, <1>4 DEF Max
<1>. QED
  BY <1>5, <1>6

\* Taking a block's frames off a range that does not begin before it.
LEMMA Without ==
  ASSUME NEW t \in Int, NEW z \in Int, NEW from \in Int, NEW to \in Int,
         from <= t, t <= z + 1
  PROVE  \E u \in Int :
           /\ (t..z) \ (from..(to - 1)) = u..z
           /\ u \in t..(z + 1) /\ (to <= u \/ u = z + 1)
           /\ u > z => t = u \/ z \in from..(to - 1)
<1>. DEFINE u == IF to <= t THEN t ELSE IF to <= z THEN to ELSE z + 1
<1>1. u \in t..(z + 1) /\ (to <= u \/ u = z + 1) /\ (u > z => t = u \/ z \in from..(to - 1))
  OBVIOUS
<1>2. \A x : x \in (t..z) \ (from..(to - 1)) <=> x \in u..z
  OBVIOUS
<1>3. (t..z) \ (from..(to - 1)) = u..z /\ u \in Int
  BY <1>2
<1>. HIDE DEF u
<1>. QED
  BY <1>1, <1>3

-----------------------------------------------------------------------------
(* The reader's blocks.                                                    *)

StreamTyped == stream \in [size : BlockSizes, length : Lengths, firstOffset : FirstOffsets]

LEMMA Sizing ==
  ASSUME StreamTyped
  PROVE  /\ stream.size \in Nat \ {0} /\ stream.length \in Nat /\ stream.firstOffset \in Nat
         /\ Total \in Nat \ {0} /\ DefaultBlock \in Nat \ {0}
         /\ ReadOffset \in Nat /\ Early \in Nat /\ MaxTroubles \in Nat
         /\ ReadOffset \div stream.size \in Nat
         /\ Blocks \in Nat
<1>1. /\ stream.size \in Nat \ {0} /\ stream.length \in Nat /\ stream.firstOffset \in Nat
      /\ Total \in Nat \ {0} /\ DefaultBlock \in Nat \ {0}
      /\ ReadOffset \in Nat /\ Early \in Nat /\ MaxTroubles \in Nat
  BY MediaFoundationAssumption DEF StreamTyped
<1>2. stream.length + stream.size - 1 \in Nat
  BY <1>1
<1>. QED
  BY <1>1, <1>2, Quotient DEF Blocks

\* A block that there is begins inside the stream and is not longer than the others.
LEMMA BlockFrames ==
  ASSUME StreamTyped, NEW n \in Nat, n < Blocks
  PROVE  /\ StartOf(n) = n * stream.size
         /\ StartOf(n) \in Nat
         /\ StartOf(n + 1) - StartOf(n) \in 1..stream.size
<1>. DEFINE s == stream.size
            l == stream.length
<1>1. s \in Nat \ {0} /\ l \in Nat /\ l + s - 1 \in Nat
  BY Sizing
<1>2. n + 1 <= (l + s - 1) \div s
  BY <1>1, Sizing DEF Blocks
<1>3. (n + 1) * s <= l + s - 1
  BY <1>1, <1>2, Quotient
<1>4. (n + 1) * s = n * s + s /\ n * s \in Nat /\ (n + 1) * s \in Nat
  BY <1>1
<1>. DEFINE p == n * s
            q == (n + 1) * s
<1>5. StartOf(n) = Smaller(p, l) /\ StartOf(n + 1) = Smaller(q, l)
  BY DEF StartOf
<1>. HIDE DEF p, q, s, l
<1>6. p \in Nat /\ q = p + s /\ q <= l + s - 1
  BY <1>3, <1>4 DEF p, q
<1>7. StartOf(n) = p /\ StartOf(n + 1) - p \in 1..s
  BY <1>1, <1>5, <1>6 DEF Smaller
<1>. QED
  BY <1>6, <1>7 DEF p, s

\* Where a seek lands: on the block asked for or before it.
LEMMA LandingFacts ==
  ASSUME StreamTyped, NEW f \in Nat
  PROVE  /\ Landings(f) \subseteq 0..Blocks
         /\ \A n \in Landings(f) : n <= f \div stream.size
<1>1. f \div stream.size \in Nat /\ Blocks \in Nat /\ Early \in Nat
  BY Sizing, Quotient
<1>. QED
  BY <1>1 DEF Landings, Smaller, Larger

-----------------------------------------------------------------------------
(* The invariant.                                                          *)

Buffers == [from : Nat, to : Nat, first : Nat, faded : BOOLEAN]

Typed ==
  /\ StreamTyped
  /\ block \in 0..Blocks /\ landed \in BOOLEAN
  /\ buffer \in Buffers /\ buffer.from <= buffer.to
  /\ pos \in 0..Total
  /\ fadeIn \in 0..FadeInBlocks
  /\ phase \in {"idle", "search", "forward", "fill", "done"}
  /\ backstep \in Nat \cup {-1}
  /\ DOMAIN out = asked
  /\ answer.pos \in 0..Total
  /\ troubles \in 0..MaxTroubles

First == pos + ReadOffset

\* The read is asked for the frames up to z, and those from t on are not filled yet.
\* The buffer does not begin behind the range, and lies before what is left of it
\* while the range is filled.
Remaining(t, z) ==
  /\ z \in First - 1..ReadOffset + Total - 1
  /\ t \in First..z + 1
  /\ asked = First..z /\ rest = t..z
  /\ buffer.from <= z + 1
  /\ phase = "idle" => z = First - 1
  /\ phase \in {"search", "forward"} => t <= z
  /\ phase = "fill" =>
       /\ 0 < buffer.to /\ (buffer.to <= t \/ t = z + 1)
       /\ First <= z /\ (t <= z \/ z \in FramesOf(buffer))

Ranges == \E t, z \in Int : Remaining(t, z)

\* Frames of the blocks up to the one the audio begins in may be faded.
Audible(f) == f.faded => f.frame \div stream.size <= ReadOffset \div stream.size

\* Only they: a block is taken for the first after a seek as long as it is, and used
\* only when no faded one is left to discard.
Fading ==
  /\ landed /\ fadeIn = 0 => block <= ReadOffset \div stream.size
  /\ phase \in {"forward", "fill"} => ~landed
  /\ \A f \in FramesOf(buffer) : Audible(FrameAt(buffer, f))
  /\ \A f \in asked : Audible(out[f])
  /\ \A i \in 1..Len(got) : Audible(got[i])

IInv == Typed /\ Ranges /\ Fading

\* What the invariant is for.
LEMMA InvImplies ==
  ASSUME IInv
  PROVE  TypeOK /\ OneIntervalRemains /\ FadeInIsDiscarded
<1>1. PICK t \in Int, z \in Int : Remaining(t, z)
  BY DEF IInv, Ranges
<1>2. pos \in 0..Total /\ ReadOffset \in Nat /\ Total \in Nat /\ First \in Int
  BY Sizing DEF IInv, Typed, First
<1>3. /\ z \in First - 1..ReadOffset + Total - 1 /\ t \in First..z + 1
      /\ asked = First..z /\ rest = t..z
  BY <1>1 DEF Remaining
<1>4. asked \subseteq ReadOffset..(ReadOffset + Total - 1) /\ rest \subseteq asked
  BY <1>2, <1>3 DEF First
<1>5. TypeOK
  BY <1>4 DEF IInv, Typed, TypeOK, StreamTyped, Buffers
<1>6. \A f \in rest, g \in asked : f < g => g \in rest
  BY <1>2, <1>3
<1>7. ASSUME phase = "fill", ~Filled
      PROVE  rest # {}
  <2>1. First <= z /\ (t <= z \/ z \in FramesOf(buffer))
    BY <1>1, <1>7 DEF Remaining
  <2>2. Max(asked) = z
    BY <1>2, <1>3, <2>1, MinOfRange
  <2>3. t <= z
    BY <1>7, <2>1, <2>2 DEF Filled
  <2>. QED
    BY <1>3, <2>3
<1>8. FadeInIsDiscarded
  BY DEF IInv, Fading, Audible, FadeInIsDiscarded
<1>. QED
  BY <1>5, <1>6, <1>7, <1>8 DEF OneIntervalRemains

-----------------------------------------------------------------------------
(* The calls of the reader.                                                *)

LEMMA ConsumedFacts ==
  ASSUME Typed, block < Blocks
  PROVE  /\ Consumed \in Buffers /\ Consumed.from < Consumed.to
         /\ buffer # NoBuffer => Consumed.from = buffer.to
         /\ Consumed.faded = landed
         /\ \A f \in FramesOf(Consumed) : FrameAt(Consumed, f).frame \div stream.size = block
<1>. DEFINE n == StartOf(block + 1) - StartOf(block)
            at == IF buffer = NoBuffer THEN StartOf(block) ELSE buffer.to
<1>1. /\ block \in Nat /\ stream.size \in Nat \ {0}
      /\ StartOf(block) = block * stream.size /\ StartOf(block) \in Nat
      /\ n \in 1..stream.size
  BY BlockFrames, Sizing DEF Typed
<1>2. at \in Nat
  BY <1>1 DEF Typed, Buffers
<1>3. Consumed = [from |-> at, to |-> at + StartOf(block + 1) - StartOf(block),
                  first |-> StartOf(block), faded |-> landed]
  BY DEF Consumed
<1>. HIDE DEF at
<1>4. at + StartOf(block + 1) - StartOf(block) = at + n
  BY <1>1, <1>2, BlockFrames, Sizing DEF StartOf, Smaller, Typed
<1>. HIDE DEF n
<1>5. Consumed = [from |-> at, to |-> at + n, first |-> block * stream.size, faded |-> landed]
  BY <1>1, <1>3, <1>4
<1>6. Consumed \in Buffers /\ Consumed.from < Consumed.to
  BY <1>1, <1>2, <1>5 DEF Buffers, Typed
<1>7. ASSUME NEW f \in FramesOf(Consumed)
      PROVE  FrameAt(Consumed, f).frame \div stream.size = block
  <2>1. f \in at..(at + n - 1)
    <3>1. Consumed.from = at /\ Consumed.to = at + n
      BY <1>5
    <3>2. FramesOf(Consumed) = Consumed.from..(Consumed.to - 1)
      BY DEF FramesOf
    <3>3. FramesOf(Consumed) = at..(at + n - 1)
      BY <1>1, <1>2, <3>1, <3>2
    <3>. QED
      BY <3>3
  <2>. DEFINE k == f - at
              p == block * stream.size
  <2>2. k \in 0..(stream.size - 1) /\ p \in Nat
    BY <1>1, <1>2, <2>1
  <2>3. FrameAt(Consumed, f).frame = p + f - at
    BY <1>5 DEF FrameAt
  <2>4. p + f - at = p + k
    <3>. HIDE DEF p
    <3>. QED
      BY <1>1, <1>2, <2>1, <2>2
  <2>5. (p + k) \div stream.size = block
    <3>. HIDE DEF k
    <3>. QED
      BY <1>1, <2>2, Quotient
  <2>. QED
    BY <2>3, <2>4, <2>5
<1>. QED
  BY <1>5, <1>6, <1>7 DEF at

LEMMA SeekFacts ==
  ASSUME Typed, NEW f \in Nat, SeekInternal(f)
  PROVE  /\ UNCHANGED stream
         /\ block' \in 0..Blocks /\ landed' = TRUE
         /\ fadeIn' \in 0..FadeInBlocks /\ buffer' = NoBuffer
         /\ fadeIn' = 0 => block' <= ReadOffset \div stream.size
<1>1. ReadOffset \in Nat /\ DefaultBlock \in Nat /\ stream.firstOffset \in Nat
  BY Sizing DEF Typed
<1>2. f >= MinValue => f - FadeInFrames \in Nat
  BY <1>1 DEF MinValue, FadeInFrames, FadeInBlocks
<1>3. CASE f >= MinValue
  BY <1>2, <1>3, LandingFacts DEF SeekInternal, FadeInBlocks, Typed
<1>4. CASE ~(f >= MinValue)
  BY <1>1, <1>4, LandingFacts DEF SeekInternal, FadeInBlocks, Typed
<1>. QED
  BY <1>3, <1>4

LEMMA BlockFacts ==
  ASSUME Typed, Block
  PROVE  /\ UNCHANGED <<stream, troubles>> /\ block < Blocks
         /\ block' \in 0..Blocks /\ Blocks' = Blocks /\ landed' = FALSE
BY Sizing DEF Block, Typed, Blocks

LEMMA NoBlockFacts ==
  ASSUME Typed, NoBlock
  PROVE  /\ UNCHANGED stream /\ troubles' \in 0..MaxTroubles
         /\ block' \in 0..Blocks /\ Blocks' = Blocks
         /\ UNCHANGED <<block, landed>> \/ landed' = FALSE
<1>1. MaxTroubles \in Nat /\ Blocks \in Nat
  BY Sizing DEF Typed
<1>. QED
  BY <1>1 DEF NoBlock, Typed, Blocks, readerVars

\* Copying from a block whose frames may be heard.
LEMMA CopyFacts ==
  ASSUME NEW b, NEW frames, CopyFrom(b, frames), DOMAIN out = asked,
         \A f \in FramesOf(b) : Audible(FrameAt(b, f)),
         \A f \in asked : Audible(out[f])
  PROVE  /\ rest' = frames \ FramesOf(b)
         /\ DOMAIN out' = asked'
         /\ \A f \in asked' : Audible(out'[f])
<1>1. Audible(Silence)
  BY DEF Audible, Silence
<1>. QED
  BY <1>1 DEF CopyFrom

\* The first frame that is missing.
LEMMA TargetIsFirst ==
  ASSUME NEW t \in Int, NEW z \in Int, Remaining(t, z), t <= z
  PROVE  Target = t
BY MinOfRange DEF Remaining, Target

LEMMA UseKeeps ==
  ASSUME IInv, NEW t \in Int, NEW z \in Int, Remaining(t, z), t <= z,
         Block, Use(Consumed), Consumed.from <= t,
         fadeIn = 0 \/ ~landed, UNCHANGED <<pos, got, answer>>
  PROVE  IInv'
<1>1. Typed /\ Fading
  BY DEF IInv
<1>. PICK b : b = Consumed
  OBVIOUS
<1>2. /\ UNCHANGED <<stream, troubles>> /\ block < Blocks
      /\ block' \in 0..Blocks /\ Blocks' = Blocks /\ landed' = FALSE
  BY <1>1, BlockFacts
<1>3. /\ b \in Buffers /\ b.from < b.to /\ b.faded = landed
      /\ \A f \in FramesOf(b) : FrameAt(b, f).frame \div stream.size = block
  BY <1>1, <1>2, ConsumedFacts
<1>4. \A f \in FramesOf(b) : Audible(FrameAt(b, f))
  <2>1. b.faded => block <= ReadOffset \div stream.size
    BY <1>1, <1>3 DEF Fading
  <2>2. \A f \in FramesOf(b) : FrameAt(b, f).faded = b.faded
    BY DEF FrameAt
  <2>. QED
    BY <1>3, <2>1, <2>2 DEF Audible
<1>5. /\ buffer' = b /\ asked' = asked /\ CopyFrom(b, rest) /\ phase' = "fill"
      /\ UNCHANGED <<fadeIn, backstep>>
  BY DEF Use
<1>6. /\ rest' = rest \ FramesOf(b)
      /\ DOMAIN out' = asked'
      /\ \A f \in asked' : Audible(out'[f])
  BY <1>1, <1>4, <1>5, CopyFacts DEF Fading, Typed
<1>7. Typed'
  <2>1. landed' \in BOOLEAN
    BY <1>2
  <2>2. buffer' \in Buffers /\ buffer'.from <= buffer'.to
    BY <1>3, <1>5 DEF Buffers
  <2>3. StreamTyped' /\ block' \in 0..Blocks' /\ troubles' \in 0..MaxTroubles
    BY <1>1, <1>2 DEF Typed, StreamTyped
  <2>4. phase' = "fill" /\ pos' = pos /\ answer' = answer /\ fadeIn' = fadeIn /\ backstep' = backstep
    BY <1>5
  <2>. QED
    BY <1>1, <1>6, <2>1, <2>2, <2>3, <2>4 DEF Typed
<1>8. Fading'
  <2>1. \A f : Audible(f)' <=> Audible(f)
    BY <1>2 DEF Audible
  <2>2. \A f \in FramesOf(buffer') : Audible(FrameAt(buffer', f))
    BY <1>4, <1>5
  <2>3. \A i \in 1..Len(got') : Audible(got'[i])
    BY <1>1 DEF Fading
  <2>. QED
    BY <1>2, <1>6, <2>2, <2>3 DEF Fading, Audible, FrameAt, FramesOf
<1>9. Ranges'
  <2>1. b.from \in Int /\ b.to \in Int /\ 0 < b.to
    BY <1>3 DEF Buffers
  <2>2. PICK u \in Int :
        /\ (t..z) \ (b.from..(b.to - 1)) = u..z
        /\ u \in t..(z + 1) /\ (b.to <= u \/ u = z + 1)
        /\ u > z => t = u \/ z \in b.from..(b.to - 1)
    <3>1. b.from <= t
      OBVIOUS
    <3>2. t <= z + 1
      OBVIOUS
    <3>. QED
      BY <2>1, <3>1, <3>2, Without
  <2>3. rest' = u..z
    BY <1>6, <2>2 DEF Remaining, FramesOf
  <2>4. First' = First /\ First \in Int
    BY <1>1, Sizing DEF First, Typed
  <2>5. u \in First..z + 1 /\ First <= z
    BY <2>2, <2>4 DEF Remaining
  <2>6. u <= z \/ z \in FramesOf(b)
    BY <2>2, <2>3 DEF FramesOf
  <2>7. b.from <= z + 1
    BY <2>1
  <2>8. Remaining(u, z)'
    BY <1>5, <2>1, <2>2, <2>3, <2>4, <2>5, <2>6, <2>7 DEF Remaining, FramesOf
  <2>. QED
    BY <2>3, <2>8 DEF Ranges
<1>. QED
  BY <1>7, <1>8, <1>9 DEF IInv

\* A step of a search, or the end of the loop: only the reader moves.
LEMMA MoveKeeps ==
  ASSUME IInv, UNCHANGED <<stream, pos, callVars, got, answer>>,
         block' \in 0..Blocks, landed' \in BOOLEAN,
         buffer' = buffer \/ buffer' = NoBuffer,
         fadeIn' \in 0..FadeInBlocks, backstep' \in Nat \cup {-1}, troubles' \in 0..MaxTroubles,
         phase' \in {"search", "forward", "done"},
         phase' # "done" => phase \in {"search", "forward"},
         landed' /\ fadeIn' = 0 => block' <= ReadOffset \div stream.size,
         phase' = "forward" => ~landed'
  PROVE  IInv'
<1>1. Typed /\ Fading /\ UNCHANGED <<asked, rest, out>>
  BY DEF IInv, callVars
<1>2. buffer' \in Buffers /\ buffer'.from <= buffer'.to /\ buffer'.from <= buffer.from
  <2>1. /\ NoBuffer \in Buffers /\ NoBuffer.from = 0 /\ NoBuffer.to = 0
        /\ buffer \in Buffers /\ buffer.from \in Nat /\ buffer.from <= buffer.to
    BY <1>1 DEF Typed, Buffers, NoBuffer
  <2>2. CASE buffer' = buffer
    BY <2>1, <2>2
  <2>3. CASE buffer' = NoBuffer
    BY <2>1, <2>3
  <2>. QED
    BY <2>2, <2>3
<1>3. Typed'
  BY <1>1, <1>2 DEF Typed, StreamTyped, Blocks
<1>4. Fading'
  <2>1. \A f : Audible(f)' <=> Audible(f)
    BY DEF Audible
  <2>2. \A f \in FramesOf(buffer') : Audible(FrameAt(buffer', f))
    <3>1. FramesOf(NoBuffer) = {}
      BY DEF FramesOf, NoBuffer
    <3>. QED
      BY <1>1, <3>1 DEF Fading
  <2>. QED
    BY <1>1, <2>2 DEF Fading, Audible, FrameAt, FramesOf
<1>5. Ranges'
  <2>1. PICK t \in Int, z \in Int : Remaining(t, z)
    BY DEF IInv, Ranges
  <2>2. buffer'.from <= z + 1
    BY <1>1, <1>2, <2>1 DEF Remaining, Typed, Buffers
  <2>3. phase' \in {"search", "forward"} => t <= z
    BY <2>1 DEF Remaining
  <2>4. First' = First
    BY DEF First
  <2>5. Remaining(t, z)'
    BY <1>1, <2>1, <2>2, <2>3, <2>4 DEF Remaining
  <2>. QED
    BY <2>5 DEF Ranges
<1>. QED
  BY <1>3, <1>4, <1>5 DEF IInv

LEMMA InternalKeeps == IInv /\ Internal => IInv'
<1>. SUFFICES ASSUME IInv, Internal
              PROVE  IInv'
  OBVIOUS
<1>1. Typed /\ Fading /\ UNCHANGED <<pos, got, answer>>
  BY DEF IInv, Internal
<1>2. PICK t \in Int, z \in Int : Remaining(t, z)
  BY DEF IInv, Ranges
<1>3. phase \in {"search", "forward"} => t <= z /\ Target = t
  BY <1>2, TargetIsFirst DEF Remaining
<1>4. CASE DiscardFadein
  <2>1. /\ phase = "search" /\ fadeIn' = fadeIn - 1 /\ fadeIn > 0
        /\ UNCHANGED <<buffer, phase, backstep, callVars>>
    BY <1>4 DEF DiscardFadein
  <2>2. /\ UNCHANGED <<stream, troubles>> /\ block' \in 0..Blocks /\ landed' = FALSE
    BY <1>1, <1>4, BlockFacts DEF DiscardFadein
  <2>3. fadeIn' \in 0..FadeInBlocks /\ backstep' \in Nat \cup {-1} /\ troubles' \in 0..MaxTroubles
    BY <1>1, <2>1, <2>2 DEF Typed, FadeInBlocks
  <2>. QED
    BY <1>1, <2>1, <2>2, <2>3, MoveKeeps
<1>5. CASE FindsTarget
  <2>1. phase = "search" /\ fadeIn = 0 /\ Block /\ Use(Consumed) /\ Target \in FramesOf(Consumed)
    BY <1>5 DEF FindsTarget
  <2>2. t <= z /\ Consumed.from <= t
    BY <1>3, <2>1 DEF FramesOf
  <2>. QED
    BY <1>1, <1>2, <2>1, <2>2, UseKeeps
<1>6. CASE IsBeforeTarget
  <2>1. /\ phase = "search" /\ phase' = "forward"
        /\ UNCHANGED <<buffer, fadeIn, backstep, callVars>>
    BY <1>6 DEF IsBeforeTarget
  <2>2. UNCHANGED <<stream, troubles>> /\ block' \in 0..Blocks /\ landed' = FALSE
    BY <1>1, <1>6, BlockFacts DEF IsBeforeTarget
  <2>3. fadeIn' \in 0..FadeInBlocks /\ backstep' \in Nat \cup {-1} /\ troubles' \in 0..MaxTroubles
    BY <1>1, <2>1, <2>2 DEF Typed
  <2>. QED
    BY <1>1, <2>1, <2>2, <2>3, MoveKeeps
<1>7. CASE IsBehindTarget
  <2>1. phase = "search" /\ fadeIn = 0 /\ block < Blocks
    BY <1>7 DEF IsBehindTarget
  <2>2. /\ ReadOffset \in Nat /\ DefaultBlock \in Nat /\ MaxTroubles \in Nat /\ Blocks \in Nat
        /\ Target = t /\ t \in Int /\ backstep \in Nat \cup {-1}
    BY <1>1, <1>3, <2>1, Sizing DEF Typed
  <2>3. \A step \in Steps : step \in Nat /\ Corrected(step) \in Nat
    <3>1. \A step \in Steps : step \in Nat
      BY <2>2 DEF Steps
    <3>2. \A step \in Nat : Corrected(step) \in Nat
      BY <2>2 DEF Corrected
    <3>. QED
      BY <3>1, <3>2
  <2>4. ASSUME NEW step \in Steps, SeekInternal(Corrected(step)), backstep' = step,
               UNCHANGED <<phase, callVars, troubles>>
        PROVE  IInv'
    <3>1. /\ UNCHANGED stream
          /\ block' \in 0..Blocks /\ landed' = TRUE
          /\ fadeIn' \in 0..FadeInBlocks /\ buffer' = NoBuffer
          /\ fadeIn' = 0 => block' <= ReadOffset \div stream.size
      BY <1>1, <2>3, <2>4, SeekFacts
    <3>2. backstep' \in Nat \cup {-1} /\ troubles' \in 0..MaxTroubles /\ phase' = "search"
      BY <1>1, <2>1, <2>3, <2>4 DEF Typed
    <3>. QED
      BY <1>1, <2>1, <2>4, <3>1, <3>2, MoveKeeps
  <2>5. ASSUME GiveUp, UNCHANGED stream, block' = block + 1, landed' = FALSE,
               troubles' \in 0..MaxTroubles
        PROVE  IInv'
    <3>1. /\ phase' = "done" /\ UNCHANGED <<buffer, fadeIn, backstep, callVars>>
      BY <2>5 DEF GiveUp
    <3>2. block' \in 0..Blocks
      BY <1>1, <2>1, <2>2, <2>5 DEF Typed
    <3>3. fadeIn' \in 0..FadeInBlocks /\ backstep' \in Nat \cup {-1}
      BY <1>1, <3>1 DEF Typed
    <3>. QED
      BY <1>1, <2>5, <3>1, <3>2, <3>3, MoveKeeps
  <2>6. troubles \in 0..MaxTroubles /\ (troubles < MaxTroubles => troubles + 1 \in 0..MaxTroubles)
    BY <1>1, <2>2 DEF Typed
  <2>. QED
    BY <1>7, <2>4, <2>5, <2>6 DEF IsBehindTarget, Block
<1>8. CASE SearchForward
  <2>1. phase = "forward" /\ Block /\ ~landed
    BY <1>1, <1>8 DEF SearchForward, Fading
  <2>2. CASE Target \in FramesOf(Consumed) /\ Use(Consumed)
    <3>1. t <= z /\ Consumed.from <= t
      BY <1>3, <2>1, <2>2 DEF FramesOf
    <3>. QED
      BY <1>1, <1>2, <2>1, <2>2, <3>1, UseKeeps
  <2>3. CASE UNCHANGED <<buffer, searchVars, callVars>>
    <3>1. UNCHANGED <<fadeIn, phase, backstep>>
      BY <2>3 DEF searchVars
    <3>2. UNCHANGED <<stream, troubles>> /\ block' \in 0..Blocks /\ landed' = FALSE
      BY <1>1, <2>1, BlockFacts
    <3>3. fadeIn' \in 0..FadeInBlocks /\ backstep' \in Nat \cup {-1} /\ troubles' \in 0..MaxTroubles
      BY <1>1, <3>1, <3>2 DEF Typed
    <3>. QED
      BY <1>1, <2>1, <2>3, <3>1, <3>2, <3>3, MoveKeeps
  <2>. QED
    BY <1>8, <2>2, <2>3 DEF SearchForward
<1>9. CASE FillOn
  <2>1. phase = "fill" /\ ~Filled /\ Block /\ Use(Consumed) /\ ~landed
    BY <1>1, <1>9 DEF FillOn, Fading
  <2>2. /\ 0 < buffer.to /\ (buffer.to <= t \/ t = z + 1)
        /\ First <= z /\ (t <= z \/ z \in FramesOf(buffer))
        /\ asked = First..z
    BY <1>2, <2>1 DEF Remaining
  <2>3. First \in Int
    BY <1>1, Sizing DEF Typed, First
  <2>4. Max(asked) = z
    BY <2>2, <2>3, MinOfRange
  <2>5. t <= z
    BY <2>1, <2>2, <2>4 DEF Filled
  <2>6. buffer # NoBuffer /\ block < Blocks
    BY <1>1, <2>1, <2>2, BlockFacts DEF NoBuffer
  <2>7. Consumed.from <= t
    BY <1>1, <2>2, <2>5, <2>6, ConsumedFacts
  <2>. QED
    BY <1>1, <1>2, <2>1, <2>5, <2>7, UseKeeps
<1>10. CASE FillEnds
  <2>1. phase' = "done" /\ UNCHANGED <<stream, block, landed, buffer, fadeIn, backstep, callVars, troubles>>
    BY <1>10 DEF FillEnds, readerVars
  <2>. QED
    BY <1>1, <2>1, MoveKeeps DEF Typed, Fading
<1>11. CASE SearchFails
  <2>1. phase' = "done" /\ UNCHANGED <<buffer, fadeIn, backstep, callVars>>
    BY <1>11 DEF SearchFails, GiveUp
  <2>2. /\ UNCHANGED stream /\ troubles' \in 0..MaxTroubles
        /\ block' \in 0..Blocks
        /\ UNCHANGED <<block, landed>> \/ landed' = FALSE
    BY <1>1, <1>11, NoBlockFacts DEF SearchFails
  <2>3. landed' \in BOOLEAN
    BY <1>1, <2>2 DEF Typed
  <2>4. fadeIn' \in 0..FadeInBlocks /\ backstep' \in Nat \cup {-1}
    BY <1>1, <2>1 DEF Typed
  <2>5. landed' /\ fadeIn' = 0 => block' <= ReadOffset \div stream.size
    BY <1>1, <2>1, <2>2 DEF Fading
  <2>. QED
    BY <1>1, <2>1, <2>2, <2>3, <2>4, <2>5, MoveKeeps
<1>. QED
  BY <1>4, <1>5, <1>6, <1>7, <1>8, <1>9, <1>10, <1>11 DEF Internal

LEMMA BeginKeeps ==
  ASSUME IInv, NEW n \in Requests, BeginRead(n)
  PROVE  IInv'
<1>1. Typed /\ Fading
  BY DEF IInv
<1>2. /\ phase = "idle" /\ CopyFrom(buffer, asked')
      /\ phase' = (IF rest' = {} THEN "done" ELSE "search") /\ backstep' = -1
      /\ UNCHANGED <<stream, block, landed, buffer, pos, fadeIn, got, answer, troubles>>
  BY DEF BeginRead, readerVars
<1>3. /\ pos \in 0..Total /\ ReadOffset \in Nat /\ Total \in Nat /\ n \in Nat
      /\ buffer.from \in Nat /\ buffer.to \in Nat
  BY <1>1, Sizing, MediaFoundationAssumption DEF Typed, Buffers
<1>4. PICK z \in Int : z = Clamp(pos + n, 0, Total) - 1 + ReadOffset /\ z \in First - 1..ReadOffset + Total - 1
  BY <1>3 DEF Clamp, First
<1>5. asked' = First..z /\ First \in Int
  BY <1>3, <1>4 DEF BeginRead, First
<1>6. /\ rest' = asked' \ FramesOf(buffer)
      /\ DOMAIN out' = asked'
      /\ \A f \in asked' : Audible(out'[f])
  BY <1>1, <1>2, CopyFacts DEF Fading, Typed
<1>7. buffer.from <= First
  <2>1. PICK t0 \in Int, z0 \in Int : Remaining(t0, z0)
    BY DEF IInv, Ranges
  <2>. QED
    BY <1>2, <1>3, <1>5, <2>1 DEF Remaining
<1>8. PICK u \in Int : rest' = u..z /\ u \in First..(z + 1)
  <2>1. First <= z + 1
    BY <1>4, <1>5
  <2>2. \E u \in Int : /\ (First..z) \ (buffer.from..(buffer.to - 1)) = u..z
                       /\ u \in First..(z + 1)
    <3>1. ASSUME NEW f \in Int, NEW from \in Int, NEW to \in Int, from <= f, f <= z + 1
          PROVE  \E u \in Int : (f..z) \ (from..(to - 1)) = u..z /\ u \in f..(z + 1)
      <4>1. \E u \in Int :
              /\ (f..z) \ (from..(to - 1)) = u..z
              /\ u \in f..(z + 1) /\ (to <= u \/ u = z + 1)
              /\ u > z => f = u \/ z \in from..(to - 1)
        BY <3>1, Without, Zenon
      <4>. QED
        BY <4>1, Zenon
    <3>2. buffer.from \in Int /\ buffer.to \in Int
      BY <1>3
    <3>. QED
      BY <1>5, <1>7, <2>1, <3>1, <3>2, Zenon
  <2>3. rest' = (First..z) \ (buffer.from..(buffer.to - 1))
    BY <1>5, <1>6 DEF FramesOf
  <2>. QED
    BY <2>2, <2>3
<1>9. Typed'
  BY <1>1, <1>2, <1>6 DEF Typed, StreamTyped, Blocks
<1>10. Fading'
  <2>1. \A f : Audible(f)' <=> Audible(f)
    BY <1>2 DEF Audible
  <2>2. \A f \in FramesOf(buffer)' : Audible(FrameAt(buffer, f))'
    BY <1>1, <1>2 DEF Fading, Audible, FramesOf, FrameAt
  <2>3. phase' \notin {"forward", "fill"}
    BY <1>2
  <2>. QED
    BY <1>1, <1>2, <1>6, <2>1, <2>2, <2>3 DEF Fading, Audible
<1>11. Remaining(u, z)'
  <2>1. First' = First
    BY <1>2 DEF First
  <2>2. phase' = "search" => u <= z
    BY <1>2, <1>8
  <2>3. phase' \in {"done", "search"}
    BY <1>2
  <2>4. buffer'.from <= z + 1
    BY <1>2, <1>3, <1>4, <1>5, <1>7
  <2>. QED
    BY <1>4, <1>5, <1>8, <2>1, <2>2, <2>3, <2>4 DEF Remaining
<1>. QED
  BY <1>9, <1>10, <1>11 DEF IInv, Ranges

LEMMA ReturnKeeps ==
  ASSUME IInv, Return
  PROVE  IInv'
<1>1. Typed /\ Fading
  BY DEF IInv
<1>2. /\ pos' = pos + Cardinality(asked)
      /\ phase' = "idle" /\ backstep' = -1
      /\ asked' = {} /\ rest' = {} /\ out' = <<>> /\ answer' = NoSeek
      /\ UNCHANGED <<stream, block, landed, buffer, fadeIn, troubles>>
  BY DEF Return, readerVars
<1>3. PICK t \in Int, z \in Int : Remaining(t, z)
  BY DEF IInv, Ranges
<1>4. pos \in 0..Total /\ ReadOffset \in Nat /\ Total \in Nat /\ First \in Int /\ First = pos + ReadOffset
  BY <1>1, Sizing DEF Typed, First
<1>5. z \in First - 1..ReadOffset + Total - 1 /\ asked = First..z /\ buffer.from <= z + 1
  BY <1>3 DEF Remaining
<1>6. Cardinality(asked) = z - First + 1
  BY <1>4, <1>5, FS_Interval
<1>7. pos' \in 0..Total /\ First' = z + 1
  BY <1>2, <1>4, <1>5, <1>6 DEF First
<1>8. Typed'
  <2>1. DOMAIN out' = asked'
    BY <1>2
  <2>2. answer'.pos \in 0..Total
    BY <1>2, <1>4 DEF NoSeek
  <2>. QED
    BY <1>1, <1>2, <1>7, <2>1, <2>2 DEF Typed, StreamTyped, Blocks
<1>9. \A i \in 1..Len(got') : Audible(got'[i])
  <2>. DEFINE f(i) == pos + ReadOffset + i - 1
              k == Cardinality(asked)
  <2>1. got' = [i \in 1..k |-> IF f(i) \in rest THEN Silence ELSE out[f(i)]]
    BY DEF Return
  <2>2. k \in Nat
    BY <1>4, <1>5, <1>6
  <2>3. Len(got') = k
    BY <2>1, <2>2
  <2>4. ASSUME NEW i \in 1..k
        PROVE  Audible(got'[i])
    <3>1. f(i) \in asked
      BY <1>4, <1>5, <1>6
    <3>2. Audible(Silence)
      BY DEF Audible, Silence
    <3>3. Audible(out[f(i)])
      BY <1>1, <3>1 DEF Fading
    <3>4. got'[i] = Silence \/ got'[i] = out[f(i)]
      BY <2>1
    <3>. HIDE DEF f
    <3>. QED
      BY <3>2, <3>3, <3>4
  <2>. QED
    BY <2>3, <2>4
<1>10. Fading'
  BY <1>1, <1>2, <1>9 DEF Fading, Audible, FramesOf, FrameAt
<1>11. Remaining(z + 1, z)'
  <2>1. (z + 1)..z = {}
    OBVIOUS
  <2>. QED
    BY <1>2, <1>4, <1>5, <1>7, <2>1 DEF Remaining
<1>. QED
  BY <1>8, <1>10, <1>11 DEF IInv, Ranges

LEMMA SeekKeeps ==
  ASSUME IInv, NEW off \in Offsets, NEW way \in Way, Seek(off, way)
  PROVE  IInv'
<1>1. Typed /\ Fading
  BY DEF IInv
<1>2. /\ pos \in 0..Total /\ ReadOffset \in Nat /\ Total \in Nat /\ First \in Int
      /\ MaxTroubles \in Nat
  BY <1>1, Sizing DEF Typed, First
<1>. PICK target : target = AbsolutePosition(pos, 0, Total, Move(off), way)
  OBVIOUS
<1>3. Move(off) \in Int
  <2>1. off * FrameSize \in Int /\ FrameSize \in Nat \ {0} /\ OffsetRange \in Nat \ {0}
    BY MediaFoundationAssumption
  <2>2. \A x \in Int, m \in Nat \ {0} : x % m \in Nat
    OBVIOUS
  <2>3. (off * FrameSize) % OffsetRange \in Nat
    BY <2>1, <2>2
  <2>. QED
    BY <2>1, <2>3, Quotient DEF Move, FramesOfOffset
<1>4. target \in 0..Total
  BY <1>2, <1>3 DEF AbsolutePosition, AnchorOf, Clamp, Way
<1>5. /\ phase = "idle" /\ answer'.pos = pos' /\ got' = <<>>
      /\ UNCHANGED <<stream, phase, backstep, asked, rest, out>>
  BY DEF Seek, callVars, readerVars, SeekInternal, SeekRefused
<1>6. PICK t \in Int, z \in Int : Remaining(t, z)
  BY DEF IInv, Ranges
<1>7. asked = {} /\ rest = {} /\ buffer.from <= First
  BY <1>2, <1>5, <1>6 DEF Remaining
<1>8. ASSUME pos' \in 0..Total, block' \in 0..Blocks, landed' \in BOOLEAN,
             fadeIn' \in 0..FadeInBlocks, troubles' \in 0..MaxTroubles,
             buffer' = NoBuffer \/ (buffer' = buffer /\ pos' = pos),
             landed' /\ fadeIn' = 0 => block' <= ReadOffset \div stream.size
      PROVE  IInv'
  <2>1. /\ NoBuffer \in Buffers /\ NoBuffer.from = 0 /\ NoBuffer.to = 0 /\ FramesOf(NoBuffer) = {}
        /\ buffer \in Buffers /\ buffer.from \in Nat /\ buffer.from <= buffer.to
    BY <1>1 DEF Typed, Buffers, NoBuffer, FramesOf
  <2>. PICK y \in Nat : y = First' /\ y <= ReadOffset + Total
    <3>1. \A p \in 0..Total : \E y \in Nat : y = p + ReadOffset /\ y <= ReadOffset + Total
      BY <1>2
    <3>2. First' = pos' + ReadOffset
      BY DEF First
    <3>. QED
      BY <1>8, <3>1, <3>2, Zenon
  <2>2. y = First' /\ y \in Nat /\ 0 <= y
    OBVIOUS
  <2>3. buffer' \in Buffers /\ buffer'.from <= buffer'.to /\ buffer'.from <= First'
    <3>1. CASE buffer' = NoBuffer
      BY <2>1, <2>2, <3>1
    <3>2. CASE buffer' = buffer /\ pos' = pos
      BY <1>7, <2>1, <2>2, <3>2 DEF First
    <3>. QED
      BY <1>8, <3>1, <3>2
  <2>4. Typed'
    BY <1>1, <1>5, <1>8, <2>3 DEF Typed, StreamTyped, Blocks
  <2>5. Fading'
    <3>1. \A f \in FramesOf(buffer') : Audible(FrameAt(buffer', f))
      BY <1>1, <1>8, <2>1 DEF Fading
    <3>2. Len(got') = 0
      BY <1>5
    <3>. QED
      BY <1>1, <1>5, <1>7, <1>8, <3>1, <3>2 DEF Fading, Audible, FramesOf, FrameAt
  <2>7. Remaining(y, y - 1)'
    <3>1. /\ y..(y - 1) = {} /\ (y - 1) + 1 = y /\ y \in Int /\ y - 1 \in Int
          /\ y - 1 \in y - 1..ReadOffset + Total - 1 /\ y \in y..(y - 1) + 1
      <4>1. \A k \in Nat : k <= ReadOffset + Total =>
              /\ k..(k - 1) = {} /\ (k - 1) + 1 = k /\ k \in Int /\ k - 1 \in Int
              /\ k - 1 \in k - 1..ReadOffset + Total - 1 /\ k \in k..(k - 1) + 1
        BY <1>2
      <4>. QED
        BY <4>1, Zenon
    <3>. QED
      BY <1>5, <1>7, <2>2, <2>3, <3>1 DEF Remaining
  <2>. QED
    BY <2>4, <2>5, <2>7 DEF IInv, Ranges
<1>9. CASE target = pos /\ UNCHANGED <<readerVars, buffer, fadeIn, pos, troubles>>
  BY <1>1, <1>8, <1>9 DEF Typed, Fading, readerVars
<1>10. CASE SeekInternal(target + ReadOffset) /\ pos' = target /\ UNCHANGED troubles
  <2>1. target + ReadOffset \in Nat
    BY <1>2, <1>4
  <2>2. /\ block' \in 0..Blocks /\ landed' = TRUE
        /\ fadeIn' \in 0..FadeInBlocks /\ buffer' = NoBuffer
        /\ fadeIn' = 0 => block' <= ReadOffset \div stream.size
    BY <1>1, <1>10, <2>1, SeekFacts
  <2>3. pos' \in 0..Total /\ troubles' \in 0..MaxTroubles
    BY <1>1, <1>4, <1>10 DEF Typed
  <2>. QED
    BY <1>8, <2>2, <2>3
<1>11. CASE SeekRefused /\ UNCHANGED pos
  <2>1. UNCHANGED <<block, landed, buffer, fadeIn, pos>> /\ troubles' \in 0..MaxTroubles
    BY <1>1, <1>2, <1>11 DEF SeekRefused, readerVars, Typed
  <2>. QED
    BY <1>1, <1>8, <2>1 DEF Typed, Fading
<1>. QED
  BY <1>9, <1>10, <1>11 DEF Seek

LEMMA InvInit == Init => IInv
<1>. SUFFICES ASSUME Init
              PROVE  IInv
  OBVIOUS
<1>1. StreamTyped
  BY DEF Init, StreamTyped
<1>2. ReadOffset \in Nat /\ Total \in Nat /\ MaxTroubles \in Nat /\ Blocks \in Nat
  BY <1>1, Sizing
<1>3. /\ buffer = NoBuffer /\ pos = 0 /\ fadeIn = 0 /\ phase = "idle" /\ backstep = -1
      /\ asked = {} /\ rest = {} /\ out = <<>> /\ got = <<>> /\ answer = NoSeek /\ troubles = 0
      /\ landed = (ReadOffset # 0)
  BY DEF Init
<1>4. block \in 0..Blocks /\ (ReadOffset # 0 => block <= ReadOffset \div stream.size)
  BY <1>1, <1>2, LandingFacts DEF Init
<1>5. Typed
  BY <1>1, <1>2, <1>3, <1>4 DEF Typed, Buffers, NoBuffer, NoSeek, FadeInBlocks
<1>6. Fading
  <2>1. FramesOf(buffer) = {} /\ Len(got) = 0
    BY <1>3 DEF FramesOf, NoBuffer
  <2>2. landed => block <= ReadOffset \div stream.size
    BY <1>3, <1>4
  <2>. QED
    BY <1>3, <2>1, <2>2 DEF Fading
<1>7. Remaining(ReadOffset, ReadOffset - 1)
  BY <1>2, <1>3 DEF Remaining, First, NoBuffer
<1>. QED
  BY <1>2, <1>5, <1>6, <1>7 DEF IInv, Ranges

LEMMA InvStep == IInv /\ [Next]_vars => IInv'
<1>. SUFFICES ASSUME IInv, [Next]_vars
              PROVE  IInv'
  OBVIOUS
<1>1. CASE Internal
  BY <1>1, InternalKeeps
<1>2. CASE Return
  BY <1>2, ReturnKeeps
<1>3. CASE \E n \in Requests : BeginRead(n)
  BY <1>3, BeginKeeps
<1>4. CASE \E off \in Offsets, way \in Way : Seek(off, way)
  BY <1>4, SeekKeeps
<1>5. CASE UNCHANGED vars
  BY <1>5 DEF vars, readerVars, searchVars, callVars, IInv, Typed, StreamTyped, Blocks, Ranges, Remaining,
              First, Fading, Audible, FramesOf, FrameAt
<1>. QED
  BY <1>1, <1>2, <1>3, <1>4, <1>5 DEF Next

-----------------------------------------------------------------------------
(* Where a reader that works is: what the buffer holds and what a search   *)
(* knows.                                                                  *)

\* The buffer holds the frames it is taken for and the reader goes on behind it, at
\* what the call still needs, until the stream ends.
Known ==
  buffer # NoBuffer =>
    /\ buffer.first = buffer.from /\ buffer.to = StartOf(block)
    /\ fadeIn = 0 /\ phase # "forward"
    /\ \A f \in rest : buffer.to <= f
    /\ block < Blocks =>
         /\ First <= buffer.to
         /\ phase = "search" => buffer.to \in rest
         /\ phase = "done" => \A f \in asked : f < buffer.to

\* How far the blocks to discard may go beyond the frames jumped back, in front of
\* any target and at the beginning.
Slack     == FadeInBlocks * Larger(0, stream.size - DefaultBlock)
Discarded == ((ReadOffset - FadeInFrames) \div stream.size + FadeInBlocks) * stream.size
Earliest  == IF ReadOffset < MinValue THEN ReadOffset ELSE Discarded

\* Left somewhere by a search that gave up at the beginning.
Adrift == fadeIn = 0 /\ (block < Blocks \/ EndFound <= BeginningFound)

\* Without a buffer nothing is filled, and the reader is at the target or before it,
\* but for the slack.
Searching ==
  buffer = NoBuffer =>
    /\ rest = asked
    /\ phase = "forward" => fadeIn = 0 /\ \A f \in rest : StartOf(block) <= f
    /\ StartOf(block + fadeIn) <= First + Slack \/ Adrift
    /\ phase = "search" /\ backstep # -1 /\ Corrected(backstep) <= ReadOffset =>
         (block + fadeIn) * stream.size <= Earliest

\* The two edges, and the frames filled.
Sought == phase = "done" /\ rest # {} => Target \notin BeginningFound..(EndFound - 1)
Right  == \A f \in asked \ rest : out[f].frame = f

Sight   == Known /\ Searching /\ Sought /\ Right
Sighted == troubles = 0 => Sight

LEMMA Starts ==
  ASSUME StreamTyped
  PROVE  /\ \A n \in Nat : /\ StartOf(n) \in Nat
                           /\ StartOf(n) <= n * stream.size /\ StartOf(n) <= stream.length
                           /\ n >= Blocks => StartOf(n) = stream.length
                           /\ (n + 1) * stream.size < stream.length => n + 1 < Blocks
<1>. DEFINE s == stream.size
            l == stream.length
<1>1. s \in Nat \ {0} /\ l \in Nat /\ l + s - 1 \in Nat /\ Blocks \in Nat
  BY Sizing
<1>2. Blocks = (l + s - 1) \div s
  BY DEF Blocks
<1>. SUFFICES ASSUME NEW n \in Nat
              PROVE  /\ StartOf(n) \in Nat /\ StartOf(n) <= n * s /\ StartOf(n) <= l
                     /\ n >= Blocks => StartOf(n) = l
                     /\ (n + 1) * s < l => n + 1 < Blocks
  OBVIOUS
<1>3. n * s \in Nat /\ (n + 1) * s = n * s + s
  BY <1>1
<1>4. n + 1 <= Blocks \/ l + s - 1 < (n + 1) * s
  BY <1>1, <1>2, <1>3, Quotient
<1>5. (n + 1) * s + s = (n + 2) * s /\ (n + 2) * s \in Nat
  BY <1>1
<1>6. n + 2 <= Blocks \/ l + s - 1 < (n + 2) * s
  BY <1>1, <1>2, <1>5, Quotient
<1>. DEFINE p == n * s
            q == (n + 1) * s
            r == (n + 2) * s
<1>7. StartOf(n) = Smaller(p, l)
  BY DEF StartOf
<1>8. p \in Nat /\ q = p + s /\ r = q + s
  BY <1>1, <1>3, <1>5
<1>. HIDE DEF p, q, r, s, l
<1>9. StartOf(n) \in Nat /\ StartOf(n) <= p /\ StartOf(n) <= l
  BY <1>1, <1>7, <1>8 DEF Smaller
<1>10. n >= Blocks => StartOf(n) = l
  <2>1. n + 1 <= Blocks \/ l + s - 1 < q
    BY <1>4 DEF q, s, l
  <2>. QED
    BY <1>1, <1>7, <1>8, <2>1 DEF Smaller
<1>11. q < l => n + 1 < Blocks
  <2>1. n + 2 <= Blocks \/ l + s - 1 < r
    BY <1>6 DEF r, s, l
  <2>. QED
    BY <1>1, <1>8, <2>1
<1>. QED
  BY <1>9, <1>10, <1>11 DEF p, q, s, l

LEMMA Slacks ==
  ASSUME StreamTyped
  PROVE  /\ Slack \in Nat /\ EndFound = stream.length - Slack /\ EndFound \in Int
         /\ MinValue \in Nat /\ FadeInFrames \in Nat /\ FadeInFrames <= MinValue
         /\ FadeInBlocks * stream.size <= FadeInFrames + Slack
<1>1. /\ stream.size \in Nat /\ stream.length \in Nat /\ stream.firstOffset \in Nat
      /\ DefaultBlock \in Nat
  BY Sizing
<1>. QED
  BY <1>1 DEF Slack, EndFound, MinValue, FadeInFrames, FadeInBlocks, Larger

LEMMA Landed ==
  ASSUME NEW u \in Nat \ {0}, NEW k \in Nat, NEW n \in Nat, n <= k \div u
  PROVE  n * u <= k /\ (n + 2) * u <= k + 2 * u /\ (n + 2) * u <= ((k \div u) + 2) * u
<1>1. k \div u \in Nat /\ n * u \in Nat /\ n * u <= k
  BY Quotient
<1>2. (n + 2) * u = n * u + 2 * u
  OBVIOUS
<1>3. \A i, j \in Nat : i <= j => i * u <= j * u
  OBVIOUS
<1>. PICK j \in Nat : j = (k \div u) + 2
  BY <1>1
<1>4. n + 2 <= j
  BY <1>1
<1>5. (n + 2) * u <= j * u
  BY <1>3, <1>4
<1>. QED
  BY <1>1, <1>2, <1>5

\* A seek of the reader lands where two blocks can be discarded before the frame.
LEMMA JumpLands ==
  ASSUME StreamTyped, NEW f \in Nat, ReadOffset <= f,
         NEW n \in Landings(IF f >= MinValue THEN f - FadeInFrames ELSE ReadOffset)
  PROVE  LET discarded == IF f >= MinValue THEN FadeInBlocks ELSE 0 IN
         /\ n + discarded \in Nat
         /\ StartOf(n + discarded) <= f + Slack
         /\ f = ReadOffset => (n + discarded) * stream.size <= Earliest
<1>1. /\ stream.size \in Nat \ {0} /\ ReadOffset \in Nat /\ Slack \in Nat
      /\ MinValue \in Nat /\ FadeInFrames \in Nat /\ FadeInFrames <= MinValue
      /\ 2 * stream.size <= FadeInFrames + Slack
  BY Sizing, Slacks DEF FadeInBlocks
<1>. PICK u \in Nat \ {0} : u = stream.size
  BY <1>1
<1>2. ASSUME f >= MinValue
      PROVE  /\ n + 2 \in Nat /\ StartOf(n + 2) <= f + Slack
             /\ f = ReadOffset => (n + 2) * u <= Earliest
  <2>1. f - FadeInFrames \in Nat
    BY <1>1, <1>2
  <2>2. n \in Nat /\ n <= (f - FadeInFrames) \div u
    BY <1>1, <1>2, <2>1, LandingFacts, Sizing
  <2>. PICK m \in Nat : m = n + 2
    BY <2>2
  <2>. PICK p \in Nat : p = m * u
    OBVIOUS
  <2>3. p <= f - FadeInFrames + 2 * u /\ p <= (((f - FadeInFrames) \div u) + 2) * u
    BY <2>1, <2>2, Landed
  <2>4. p <= f + Slack
    BY <1>1, <2>1, <2>3
  <2>5. StartOf(m) \in Nat /\ StartOf(m) <= p
    BY <1>1, Starts
  <2>6. f = ReadOffset => p <= Earliest
    BY <1>1, <1>2, <2>3 DEF Earliest, Discarded, FadeInBlocks
  <2>7. StartOf(m) <= f + Slack
    BY <1>1, <2>4, <2>5
  <2>. QED
    BY <2>6, <2>7
<1>3. ASSUME ~(f >= MinValue)
      PROVE  /\ n + 0 \in Nat /\ StartOf(n + 0) <= f + Slack
             /\ f = ReadOffset => (n + 0) * u <= Earliest
  <2>1. n \in Nat /\ n <= ReadOffset \div u
    BY <1>1, <1>3, LandingFacts, Sizing
  <2>2. n + 0 = n
    BY <2>1
  <2>. PICK p \in Nat : p = n * u
    BY <2>1
  <2>3. p <= ReadOffset
    BY <1>1, <2>1, Landed
  <2>4. StartOf(n) \in Nat /\ StartOf(n) <= p
    BY <1>1, <2>1, Starts
  <2>5. StartOf(n) <= f + Slack
    BY <1>1, <2>3, <2>4
  <2>6. f = ReadOffset => p <= Earliest
    BY <1>1, <1>3, <2>3 DEF Earliest
  <2>. QED
    BY <2>1, <2>2, <2>5, <2>6
<1>. QED
  BY <1>2, <1>3 DEF FadeInBlocks

LEMMA SeekLands ==
  ASSUME StreamTyped, NEW f \in Nat, ReadOffset <= f, SeekInternal(f)
  PROVE  /\ block' + fadeIn' \in Nat
         /\ StartOf(block' + fadeIn') <= f + Slack
         /\ f = ReadOffset => (block' + fadeIn') * stream.size <= Earliest
BY JumpLands DEF SeekInternal

\* The next block is taken for the frames it holds.
LEMMA ConsumedIsNext ==
  ASSUME Typed, Known, block < Blocks
  PROVE  /\ Consumed.from = StartOf(block) /\ Consumed.to = StartOf(block + 1)
         /\ Consumed.first = Consumed.from
         /\ Consumed # NoBuffer
         /\ \A f \in FramesOf(Consumed) : FrameAt(Consumed, f).frame = f
<1>1. StartOf(block) \in Nat /\ StartOf(block + 1) - StartOf(block) \in Nat \ {0} /\ block \in Nat
  BY BlockFrames, Sizing DEF Typed
<1>2. StartOf(block + 1) \in Nat
  BY <1>1, Starts DEF Typed
<1>3. Consumed = [from |-> StartOf(block), to |-> StartOf(block) + StartOf(block + 1) - StartOf(block),
                  first |-> StartOf(block), faded |-> landed]
  BY DEF Consumed, Known
<1>4. StartOf(block) + StartOf(block + 1) - StartOf(block) = StartOf(block + 1)
  BY <1>1, <1>2
<1>5. /\ Consumed.from = StartOf(block) /\ Consumed.to = StartOf(block + 1)
      /\ Consumed.first = Consumed.from
  BY <1>3, <1>4
<1>6. Consumed.to # 0
  BY <1>1, <1>2, <1>5
<1>7. \A f \in FramesOf(Consumed) : FrameAt(Consumed, f).frame = f
  BY <1>1, <1>2, <1>5 DEF FramesOf, FrameAt
<1>. QED
  BY <1>5, <1>6, <1>7 DEF NoBuffer

\* The stream stays what it is, and so does all that is said of its blocks.
LEMMA StreamStays ==
  ASSUME UNCHANGED stream
  PROVE  /\ \A n : StartOf(n)' = StartOf(n)
         /\ UNCHANGED <<Blocks, Slack, EndFound, BeginningFound, Earliest>>
<1>1. /\ \A n : StartOf(n)' = StartOf(n)
      /\ UNCHANGED <<Blocks, Slack, EndFound, MinValue, Discarded>>
  BY Zenon DEF StartOf, Blocks, Slack, EndFound, MinValue, Discarded
<1>2. UNCHANGED Earliest
  BY <1>1 DEF Earliest
<1>3. UNCHANGED BeginningFound
  BY <1>1 DEF BeginningFound
<1>. QED
  BY <1>1, <1>2, <1>3

LEMMA KnownNext ==
  ASSUME UNCHANGED stream,
         buffer' # NoBuffer =>
           /\ buffer'.first = buffer'.from /\ buffer'.to = StartOf(block')
           /\ fadeIn' = 0 /\ phase' # "forward"
           /\ \A f \in rest' : buffer'.to <= f
           /\ block' < Blocks =>
                /\ pos' + ReadOffset <= buffer'.to
                /\ phase' = "search" => buffer'.to \in rest'
                /\ phase' = "done" => \A f \in asked' : f < buffer'.to
  PROVE  Known'
BY StreamStays DEF Known, First, StartOf, Blocks

LEMMA SearchingNext ==
  ASSUME UNCHANGED stream,
         buffer' = NoBuffer =>
           /\ rest' = asked'
           /\ phase' = "forward" => fadeIn' = 0 /\ \A f \in rest' : StartOf(block') <= f
           /\ \/ StartOf(block' + fadeIn') <= pos' + ReadOffset + Slack
              \/ fadeIn' = 0 /\ (block' < Blocks \/ EndFound <= BeginningFound)
           /\ phase' = "search" /\ backstep' # -1 /\ Corrected(backstep)' <= ReadOffset =>
                (block' + fadeIn') * stream.size <= Earliest
  PROVE  Searching'
BY StreamStays DEF Searching, First, StartOf, Adrift

\* The frames of the call.
LEMMA CallRange ==
  ASSUME IInv
  PROVE  /\ First \in Nat /\ ReadOffset <= First /\ pos \in Nat /\ ReadOffset \in Nat
         /\ rest \subseteq asked /\ asked \subseteq Nat
         /\ \A f \in asked : First <= f /\ f < ReadOffset + Total
         /\ phase = "idle" => asked = {}
         /\ rest # {} => Target \in rest /\ \A f \in rest : Target <= f
         /\ rest # {} /\ rest = asked => Target = First
         /\ phase \in {"search", "forward"} => rest # {}
<1>1. PICK t \in Int, z \in Int : Remaining(t, z)
  BY DEF IInv, Ranges
<1>2. pos \in 0..Total /\ ReadOffset \in Nat /\ Total \in Nat
  BY Sizing DEF IInv, Typed
<1>3. First \in Nat /\ ReadOffset <= First
  BY <1>2 DEF First
<1>4. /\ z \in First - 1..ReadOffset + Total - 1 /\ t \in First..z + 1
      /\ asked = First..z /\ rest = t..z
      /\ phase = "idle" => z = First - 1
      /\ phase \in {"search", "forward"} => t <= z
  BY <1>1 DEF Remaining
<1>5. rest # {} => t <= z
  BY <1>4
<1>6. t <= z => Target = t
  BY <1>1, TargetIsFirst
<1>7. rest # {} /\ rest = asked => t = First
  <2>. SUFFICES ASSUME t <= z, t..z = First..z
                PROVE  t = First
    BY <1>4, <1>5
  <2>1. First \in t..z
    BY <1>3, <1>4
  <2>. QED
    BY <1>3, <1>4, <2>1
<1>8. phase \in {"search", "forward"} => rest # {}
  BY <1>4
<1>9. /\ rest \subseteq asked /\ asked \subseteq Nat
      /\ \A f \in asked : First <= f /\ f < ReadOffset + Total
      /\ phase = "idle" => asked = {}
  BY <1>2, <1>3, <1>4
<1>10. t <= z => t \in rest /\ \A f \in rest : t <= f
  BY <1>4
<1>. QED
  BY <1>2, <1>3, <1>5, <1>6, <1>7, <1>8, <1>9, <1>10

\* Where the blocks end, a search or a loop gives up on no frame but the last ones.
LEMMA EndIsTheEdge ==
  ASSUME IInv, Known, Searching, block = Blocks, phase \in {"search", "forward", "fill"}, rest # {}
  PROVE  Target \notin BeginningFound..(EndFound - 1)
<1>1. /\ StreamTyped /\ Blocks \in Nat /\ stream.length \in Nat /\ Slack \in Nat /\ fadeIn \in Nat
      /\ EndFound = stream.length - Slack /\ EndFound \in Int
  BY Sizing, Slacks DEF IInv, Typed, FadeInBlocks
<1>2. First \in Nat /\ Target \in Nat /\ Target \in rest
  BY CallRange
<1>3. StartOf(block) = stream.length /\ StartOf(block + fadeIn) = stream.length
  BY <1>1, Starts
<1>4. EndFound <= Target \/ EndFound <= BeginningFound
  <2>1. CASE buffer # NoBuffer
    <3>1. stream.length <= Target
      BY <1>2, <1>3, <2>1 DEF Known
    <3>. QED
      BY <1>1, <1>2, <3>1
  <2>2. CASE buffer = NoBuffer
    <3>1. Target = First
      BY <2>2, CallRange DEF Searching
    <3>2. stream.length <= First + Slack \/ EndFound <= BeginningFound
      BY <1>1, <1>3, <2>2 DEF Searching, Adrift
    <3>. QED
      BY <1>1, <1>2, <3>1, <3>2
  <2>. QED
    BY <2>1, <2>2
<1>5. CASE EndFound <= Target
  BY <1>1, <1>2, <1>5
<1>6. CASE EndFound <= BeginningFound
  <2>1. BeginningFound \in Int
    BY <1>1, Sizing, Slacks DEF BeginningFound, Larger, FadeInBlocks
  <2>. QED
    BY <1>1, <1>2, <1>6, <2>1
<1>. QED
  BY <1>4, <1>5, <1>6

LEMMA UseSights ==
  ASSUME IInv, Sight, Block, Use(Consumed), UNCHANGED pos, fadeIn = 0,
         \A f \in rest : Consumed.from <= f, First <= Consumed.to
  PROVE  Sight'
<1>. PICK b : b = Consumed
  OBVIOUS
<1>1. Typed /\ Known /\ Right
  BY DEF IInv, Sight
<1>2. block < Blocks /\ block' = block + 1 /\ UNCHANGED stream
  BY DEF Block
<1>3. /\ b.from = StartOf(block) /\ b.to = StartOf(block + 1) /\ b.first = b.from
      /\ b # NoBuffer
      /\ \A f \in FramesOf(b) : FrameAt(b, f).frame = f
  BY <1>1, <1>2, ConsumedIsNext
<1>4. /\ buffer' = b /\ asked' = asked /\ phase' = "fill" /\ fadeIn' = 0
      /\ rest' = rest \ FramesOf(b)
      /\ out' = [f \in asked |->
           IF f \in rest \cap FramesOf(b) THEN FrameAt(b, f)
           ELSE IF f \in DOMAIN out THEN out[f] ELSE Silence]
  BY DEF Use, CopyFrom
<1>5. rest \subseteq Nat /\ b.from \in Nat /\ b.to \in Nat
  BY <1>1, <1>2, <1>3, CallRange, ConsumedFacts DEF Buffers
<1>6. \A f \in rest' : b.to <= f
  BY <1>4, <1>5 DEF FramesOf
<1>7. Known'
  <2>1. buffer'.first = buffer'.from /\ buffer'.to = StartOf(block')
    BY <1>2, <1>3, <1>4
  <2>2. pos' + ReadOffset <= buffer'.to
    BY <1>4 DEF First
  <2>. QED
    BY <1>2, <1>4, <1>6, <2>1, <2>2, KnownNext
<1>8. Searching'
  BY <1>3, <1>4 DEF Searching
<1>9. Right'
  <2>. SUFFICES ASSUME NEW f \in asked, f \notin rest'
                PROVE  out'[f].frame = f
    BY <1>4 DEF Right
  <2>1. DOMAIN out = asked
    BY <1>1 DEF Typed
  <2>2. CASE f \in rest
    BY <1>3, <1>4, <2>2
  <2>3. CASE f \notin rest
    BY <1>1, <1>4, <2>1, <2>3 DEF Right
  <2>. QED
    BY <2>2, <2>3
<1>10. Sought'
  BY <1>4 DEF Sought
<1>. QED
  BY <1>7, <1>8, <1>9, <1>10 DEF Sight

LEMMA DiscardSights ==
  ASSUME IInv, Sight, DiscardFadein, UNCHANGED pos
  PROVE  Sight'
<1>1. Typed /\ Known /\ Searching /\ Right
  BY DEF IInv, Sight
<1>2. /\ phase = "search" /\ fadeIn > 0 /\ block < Blocks
      /\ block' = block + 1 /\ fadeIn' = fadeIn - 1
      /\ UNCHANGED <<stream, buffer, phase, backstep, asked, rest, out>>
  BY DEF DiscardFadein, Block, callVars
<1>3. block \in Nat /\ fadeIn \in Nat /\ block' + fadeIn' = block + fadeIn
  BY <1>1, <1>2, Sizing DEF Typed, FadeInBlocks
<1>4. buffer = NoBuffer /\ ~Adrift
  BY <1>1, <1>2, <1>3 DEF Known, Adrift
<1>5. Known'
  BY <1>2, <1>4 DEF Known
<1>6. Searching'
  <2>1. StartOf(block' + fadeIn') <= pos' + ReadOffset + Slack
    BY <1>1, <1>3, <1>4 DEF Searching, First
  <2>2. Corrected(backstep)' = Corrected(backstep)
    BY <1>2 DEF Corrected, Target
  <2>. QED
    BY <1>1, <1>2, <1>3, <1>4, <2>1, <2>2, SearchingNext DEF Searching
<1>7. Right' /\ Sought'
  BY <1>1, <1>2 DEF Right, Sought
<1>. QED
  BY <1>5, <1>6, <1>7 DEF Sight

LEMMA FindsSights ==
  ASSUME IInv, Sight, FindsTarget, UNCHANGED pos
  PROVE  Sight'
<1>1. phase = "search" /\ fadeIn = 0 /\ Target \in FramesOf(Consumed) /\ Block /\ Use(Consumed)
  BY DEF FindsTarget
<1>2. block < Blocks /\ Typed
  BY <1>1 DEF Block, IInv
<1>3. Consumed.from \in Nat /\ Consumed.to \in Nat
  BY <1>2, ConsumedFacts DEF Buffers
<1>4. Target \in rest /\ (\A f \in rest : Target <= f) /\ First <= Target /\ First \in Nat /\ rest \subseteq Nat
  BY <1>1, CallRange
<1>5. Consumed.from <= Target /\ Target < Consumed.to
  BY <1>1, <1>3, <1>4 DEF FramesOf
<1>. PICK c : c = Consumed.from
  OBVIOUS
<1>6. \A f \in rest : c <= f
  BY <1>3, <1>4, <1>5
<1>7. First <= Consumed.to
  BY <1>3, <1>4, <1>5
<1>. QED
  BY <1>1, <1>6, <1>7, UseSights

LEMMA BeforeSights ==
  ASSUME IInv, Sight, IsBeforeTarget, UNCHANGED pos
  PROVE  Sight'
<1>1. Typed /\ Known /\ Searching /\ Right
  BY DEF IInv, Sight
<1>2. /\ phase = "search" /\ fadeIn = 0 /\ Target >= Consumed.to
      /\ block < Blocks /\ block' = block + 1 /\ phase' = "forward"
      /\ UNCHANGED <<stream, buffer, fadeIn, backstep, asked, rest, out>>
  BY DEF IsBeforeTarget, Block, callVars
<1>3. /\ Consumed.from \in Nat /\ Consumed.to \in Nat /\ Consumed.from < Consumed.to
      /\ Consumed.from = StartOf(block) /\ Consumed.to = StartOf(block + 1)
  BY <1>1, <1>2, ConsumedFacts, ConsumedIsNext DEF Buffers
<1>4. /\ Target \in rest /\ (\A f \in rest : Target <= f) /\ rest \subseteq Nat
      /\ First \in Nat /\ (rest = asked => Target = First)
  BY <1>2, CallRange
<1>5. buffer = NoBuffer
  <2>. SUFFICES ASSUME buffer # NoBuffer
                PROVE  FALSE
    OBVIOUS
  <2>1. Consumed.from \in rest
    BY <1>1, <1>2, <1>3 DEF Known
  <2>. QED
    BY <1>2, <1>3, <1>4, <2>1
<1>6. Known'
  BY <1>2, <1>5 DEF Known
<1>7. Target = First /\ rest = asked
  BY <1>1, <1>4, <1>5 DEF Searching
<1>8. \A f \in rest : StartOf(block') <= f
  BY <1>2, <1>3, <1>4
<1>9. StartOf(block' + fadeIn') <= pos' + ReadOffset + Slack
  <2>1. block' + fadeIn' = block'
    BY <1>1, <1>2, Sizing DEF Typed
  <2>2. StartOf(block') <= First /\ StartOf(block') \in Nat
    BY <1>2, <1>3, <1>4, <1>7
  <2>3. Slack \in Nat
    BY <1>1, Slacks DEF Typed
  <2>4. pos' + ReadOffset = First
    BY DEF First
  <2>. QED
    BY <1>4, <2>1, <2>2, <2>3, <2>4
<1>10. Searching'
  BY <1>2, <1>7, <1>8, <1>9, SearchingNext
<1>11. Right' /\ Sought'
  BY <1>1, <1>2 DEF Right, Sought
<1>. QED
  BY <1>6, <1>10, <1>11 DEF Sight

\* A search goes back to a frame before the target, not before the beginning.
LEMMA CorrectedFacts ==
  ASSUME NEW step \in Nat, Target \in Nat, ReadOffset \in Nat, ReadOffset <= Target
  PROVE  /\ Corrected(step) \in Nat /\ ReadOffset <= Corrected(step) /\ Corrected(step) <= Target
BY DEF Corrected

\* What a search knows that gives up at the beginning.
LEMMA BeginningIsTheEdge ==
  ASSUME IInv, Searching, buffer = NoBuffer, phase = "search", fadeIn = 0,
         Steps = {}, Target < StartOf(block)
  PROVE  /\ Target \notin BeginningFound..(EndFound - 1)
         /\ block + 1 < Blocks \/ EndFound <= BeginningFound
<1>1. Typed
  BY DEF IInv
<1>2. /\ StreamTyped /\ stream.size \in Nat \ {0} /\ stream.length \in Nat
      /\ block \in Nat /\ EndFound \in Int /\ MinValue \in Nat /\ FadeInFrames \in Nat
      /\ FadeInFrames <= MinValue
  BY <1>1, Sizing, Slacks DEF Typed
<1>3. Target \in Nat /\ ReadOffset \in Nat /\ ReadOffset <= Target
  <2>1. Target \in rest /\ rest \subseteq asked /\ asked \subseteq Nat /\ ReadOffset <= First
        /\ First \in Nat /\ ReadOffset \in Nat /\ \A f \in asked : First <= f
    BY CallRange
  <2>. QED
    BY <2>1
<1>4. backstep \in Nat /\ backstep # -1 /\ Corrected(backstep) <= ReadOffset
  <2>1. backstep # -1 /\ ~(Corrected(backstep) > ReadOffset)
    BY DEF Steps
  <2>2. backstep \in Nat
    BY <1>1, <2>1 DEF Typed
  <2>. QED
    BY <1>3, <2>1, <2>2, CorrectedFacts
<1>. PICK p \in Nat : p = block * stream.size /\ (block + 1) * stream.size = p + stream.size
  BY <1>2
<1>5. p <= Earliest
  <2>1. block + fadeIn = block
    BY <1>2
  <2>. QED
    BY <1>4, <2>1 DEF Searching
<1>6. Target < p
  BY <1>2, <1>3, Starts
<1>7. ReadOffset >= MinValue /\ Earliest = Discarded
  BY <1>2, <1>3, <1>5, <1>6 DEF Earliest
<1>8. Discarded \in Nat
  <2>1. ReadOffset - FadeInFrames \in Nat
    BY <1>2, <1>3, <1>7
  <2>. PICK q \in Nat : q = (ReadOffset - FadeInFrames) \div stream.size
    BY <1>2, <2>1, Quotient
  <2>2. \A u \in Nat : (q + 2) * u \in Nat
    OBVIOUS
  <2>. QED
    BY <1>2, <2>2 DEF Discarded, FadeInBlocks
<1>9. Target < Discarded /\ ReadOffset < Discarded /\ p <= Discarded
  BY <1>3, <1>5, <1>6, <1>7, <1>8
<1>10. CASE Discarded + stream.size < stream.length
  <2>1. BeginningFound = Discarded
    BY <1>2, <1>3, <1>7, <1>10 DEF BeginningFound, Discarded
  <2>3. (block + 1) * stream.size < stream.length
    BY <1>2, <1>8, <1>9, <1>10
  <2>4. block + 1 < Blocks
    BY <1>2, <2>3, Starts
  <2>. QED
    BY <1>3, <1>8, <1>9, <2>1, <2>4
<1>11. CASE ~(Discarded + stream.size < stream.length)
  <2>1. BeginningFound = Larger(Discarded, EndFound)
    <3>1. ~(Discarded <= ReadOffset) /\ ~(ReadOffset < MinValue)
      BY <1>2, <1>3, <1>7, <1>8, <1>9
    <3>. QED
      BY <1>11, <3>1 DEF BeginningFound, Discarded
  <2>. QED
    BY <1>2, <1>3, <1>8, <1>9, <2>1 DEF Larger
<1>. QED
  BY <1>10, <1>11

LEMMA BehindSights ==
  ASSUME IInv, Sight, IsBehindTarget, UNCHANGED <<pos, troubles>>
  PROVE  Sight'
<1>1. Typed /\ StreamTyped /\ Known /\ Searching /\ Right
  BY DEF IInv, Sight, Typed
<1>2. phase = "search" /\ fadeIn = 0 /\ block < Blocks /\ Target < Consumed.from
  BY DEF IsBehindTarget
<1>3. /\ Target \in rest /\ rest \subseteq asked /\ asked \subseteq Nat /\ Target \in Nat
      /\ First \in Nat /\ ReadOffset \in Nat /\ ReadOffset <= First
      /\ (rest = asked => Target = First)
  BY <1>2, CallRange
<1>4. Consumed.from = StartOf(block) /\ Consumed.from \in Nat /\ block \in Nat
  BY <1>1, <1>2, ConsumedFacts, ConsumedIsNext, Sizing DEF Buffers, Typed
<1>5. buffer = NoBuffer
  <2>. SUFFICES ASSUME buffer # NoBuffer
                PROVE  FALSE
    OBVIOUS
  <2>1. Consumed.from <= Target
    BY <1>1, <1>3, <1>4 DEF Known
  <2>. QED
    BY <1>2, <1>3, <1>4, <2>1
<1>6. rest = asked /\ Target = First
  BY <1>1, <1>3, <1>5 DEF Searching
<1>7. ASSUME NEW step \in Steps, SeekInternal(Corrected(step)), backstep' = step,
             UNCHANGED <<phase, callVars, troubles>>
      PROVE  Sight'
  <2>1. step \in Nat
    BY <1>1, <1>7, MediaFoundationAssumption DEF Steps, Typed
  <2>2. /\ Corrected(step) \in Nat /\ ReadOffset <= Corrected(step) /\ Corrected(step) <= First
    BY <1>3, <1>6, <2>1, CorrectedFacts
  <2>. PICK f \in Nat : f = Corrected(step)
    BY <2>2
  <2>3. /\ block' + fadeIn' \in Nat
        /\ StartOf(block' + fadeIn') <= f + Slack
        /\ f = ReadOffset => (block' + fadeIn') * stream.size <= Earliest
    BY <1>1, <1>7, <2>2, SeekLands
  <2>4. UNCHANGED <<stream, asked, rest, out>> /\ phase' = "search" /\ buffer' = NoBuffer
    BY <1>2, <1>7 DEF SeekInternal, callVars
  <2>5. StartOf(block' + fadeIn') <= pos' + ReadOffset + Slack
    <3>1. pos' + ReadOffset = First
      BY DEF First
    <3>2. Slack \in Nat /\ StartOf(block' + fadeIn') \in Nat
      BY <1>1, <2>3, Slacks, Starts
    <3>. QED
      BY <1>3, <2>2, <2>3, <3>1, <3>2
  <2>6. Corrected(backstep)' = f
    BY <1>7, <2>4 DEF Corrected, Target
  <2>7. f <= ReadOffset => f = ReadOffset
    BY <1>3, <2>2
  <2>8. Searching'
    BY <1>6, <2>3, <2>4, <2>5, <2>6, <2>7, SearchingNext
  <2>9. Known' /\ Right' /\ Sought'
    BY <1>1, <2>4 DEF Known, Right, Sought
  <2>. QED
    BY <2>8, <2>9 DEF Sight
<1>8. ASSUME Steps = {}, Block, GiveUp
      PROVE  Sight'
  <2>1. /\ Target \notin BeginningFound..(EndFound - 1)
        /\ block + 1 < Blocks \/ EndFound <= BeginningFound
    BY <1>1, <1>2, <1>4, <1>5, <1>8, BeginningIsTheEdge
  <2>2. /\ block' = block + 1 /\ phase' = "done"
        /\ UNCHANGED <<stream, buffer, fadeIn, backstep, asked, rest, out>>
    BY <1>8 DEF Block, GiveUp, callVars
  <2>3. Searching'
    BY <1>2, <1>6, <2>1, <2>2, SearchingNext
  <2>4. Sought'
    <3>1. Target' = Target
      BY <2>2 DEF Target
    <3>2. UNCHANGED <<BeginningFound, EndFound>>
      BY <2>2, StreamStays
    <3>. QED
      BY <2>1, <3>1, <3>2 DEF Sought
  <2>5. Known' /\ Right'
    BY <1>1, <1>5, <2>2 DEF Known, Right
  <2>. QED
    BY <2>3, <2>4, <2>5 DEF Sight
<1>9. ~(troubles' = troubles + 1)
  <2>1. troubles \in Nat
    BY <1>1, Sizing DEF Typed
  <2>. QED
    BY <2>1
<1>. QED
  BY <1>7, <1>8, <1>9 DEF IsBehindTarget

LEMMA ForwardSights ==
  ASSUME IInv, Sight, SearchForward, UNCHANGED pos
  PROVE  Sight'
<1>1. Typed /\ StreamTyped /\ Known /\ Searching /\ Right
  BY DEF IInv, Sight, Typed
<1>2. phase = "forward" /\ Block /\ block < Blocks /\ block' = block + 1 /\ UNCHANGED stream
  BY DEF SearchForward, Block
<1>3. buffer = NoBuffer
  BY <1>1, <1>2 DEF Known
<1>4. fadeIn = 0 /\ rest = asked /\ \A f \in rest : StartOf(block) <= f
  BY <1>1, <1>2, <1>3 DEF Searching
<1>5. /\ Target \in rest /\ (\A f \in rest : Target <= f) /\ rest \subseteq Nat
      /\ First \in Nat /\ Target = First
  BY <1>2, <1>4, CallRange
<1>6. /\ Consumed.from \in Nat /\ Consumed.to \in Nat
      /\ Consumed.from = StartOf(block) /\ Consumed.to = StartOf(block + 1)
  BY <1>1, <1>2, ConsumedFacts, ConsumedIsNext DEF Buffers
<1>7. CASE Target \in FramesOf(Consumed) /\ Use(Consumed)
  <2>1. First <= Consumed.to
    BY <1>5, <1>6, <1>7 DEF FramesOf
  <2>2. \A f \in rest : Consumed.from <= f
    BY <1>4, <1>6
  <2>. QED
    BY <1>2, <1>4, <1>7, <2>1, <2>2, UseSights
<1>8. CASE Target \notin FramesOf(Consumed) /\ UNCHANGED <<buffer, searchVars, callVars>>
  <2>1. UNCHANGED <<buffer, fadeIn, phase, backstep, asked, rest, out>>
    BY <1>8 DEF searchVars, callVars
  <2>2. Consumed.to <= Target
    BY <1>4, <1>5, <1>6, <1>8 DEF FramesOf
  <2>3. \A f \in rest : StartOf(block') <= f
    BY <1>2, <1>5, <1>6, <2>2
  <2>4. StartOf(block' + fadeIn') <= pos' + ReadOffset + Slack
    <3>1. block' + fadeIn' = block'
      BY <1>1, <1>2, <1>4, <2>1, Sizing DEF Typed
    <3>2. Slack \in Nat
      BY <1>1, Slacks
    <3>3. pos' + ReadOffset = First
      BY DEF First
    <3>. QED
      BY <1>2, <1>5, <1>6, <2>2, <3>1, <3>2, <3>3
  <2>5. Searching'
    BY <1>2, <1>4, <2>1, <2>3, <2>4, SearchingNext
  <2>6. Known' /\ Right' /\ Sought'
    BY <1>1, <1>2, <1>3, <2>1 DEF Known, Right, Sought
  <2>. QED
    BY <2>5, <2>6 DEF Sight
<1>. QED
  BY <1>7, <1>8 DEF SearchForward

\* The loop goes on in a buffer, with something left to fill.
LEMMA FillRange ==
  ASSUME IInv, phase = "fill"
  PROVE  /\ buffer # NoBuffer
         /\ ~Filled => rest # {}
         /\ asked # {} /\ Max(asked) \in asked /\ \A f \in asked : f <= Max(asked)
<1>1. PICK t \in Int, z \in Int : Remaining(t, z)
  BY DEF IInv, Ranges
<1>2. First \in Nat
  BY CallRange
<1>3. /\ 0 < buffer.to /\ First <= z /\ (t <= z \/ z \in FramesOf(buffer))
      /\ asked = First..z /\ rest = t..z
  BY <1>1 DEF Remaining
<1>4. Max(asked) = z
  BY <1>2, <1>3, MinOfRange
<1>5. buffer # NoBuffer
  BY <1>3 DEF NoBuffer
<1>. QED
  BY <1>2, <1>3, <1>4, <1>5 DEF Filled

LEMMA FillSights ==
  ASSUME IInv, Sight, FillOn \/ FillEnds, UNCHANGED pos
  PROVE  Sight'
<1>1. Typed /\ StreamTyped /\ Known /\ Searching /\ Right
  BY DEF IInv, Sight, Typed
<1>2. phase = "fill"
  BY DEF FillOn, FillEnds
<1>3. buffer # NoBuffer /\ (\A f \in rest : buffer.to <= f) /\ fadeIn = 0 /\ buffer.to \in Nat
  BY <1>1, <1>2, FillRange DEF Known, Typed, Buffers
<1>4. rest \subseteq asked /\ asked \subseteq Nat /\ First \in Nat
  BY CallRange
<1>5. CASE FillOn
  <2>1. Block /\ Use(Consumed) /\ block < Blocks
    BY <1>5 DEF FillOn, Block
  <2>2. /\ Consumed.from = buffer.to /\ Consumed.from < Consumed.to
        /\ Consumed.from \in Nat /\ Consumed.to \in Nat
    BY <1>1, <1>3, <2>1, ConsumedFacts DEF Buffers
  <2>3. First <= Consumed.to
    BY <1>1, <1>3, <1>4, <2>1, <2>2 DEF Known
  <2>. QED
    BY <1>3, <2>1, <2>2, <2>3, UseSights
<1>6. CASE FillEnds
  <2>1. /\ Filled /\ phase' = "done"
        /\ UNCHANGED <<stream, block, buffer, fadeIn, backstep, asked, rest, out>>
    BY <1>6 DEF FillEnds, readerVars, callVars
  <2>. PICK m \in Nat : m = Max(asked)
    BY <1>2, <1>4, FillRange
  <2>2. m \in asked /\ (\A f \in asked : f <= m) /\ m < buffer.to
    BY <1>2, <1>3, <1>4, <2>1, FillRange DEF Filled, FramesOf
  <2>3. \A f \in asked : f < buffer.to
    BY <1>3, <1>4, <2>2
  <2>4. rest = {}
    BY <1>3, <1>4, <2>3
  <2>5. block < Blocks => pos' + ReadOffset <= buffer.to
    BY <1>1, <1>3 DEF Known, First
  <2>6. Known'
    BY <1>1, <1>3, <2>1, <2>3, <2>5, KnownNext DEF Known
  <2>7. Searching' /\ Right' /\ Sought'
    BY <1>1, <1>3, <2>1, <2>4 DEF Searching, Right, Sought
  <2>. QED
    BY <2>6, <2>7 DEF Sight
<1>. QED
  BY <1>5, <1>6

LEMMA FailsSights ==
  ASSUME IInv, Sight, SearchFails, UNCHANGED <<pos, troubles>>
  PROVE  Sight'
<1>1. Typed /\ StreamTyped /\ Known /\ Searching /\ Right
  BY DEF IInv, Sight, Typed
<1>2. phase \in {"search", "forward"} \/ (phase = "fill" /\ ~Filled)
  BY DEF SearchFails
<1>3. troubles \in Nat /\ Blocks \in Nat
  BY <1>1, Sizing DEF Typed
<1>4. block = Blocks /\ UNCHANGED <<stream, block>>
  BY <1>3 DEF SearchFails, NoBlock, readerVars
<1>5. phase' = "done" /\ UNCHANGED <<buffer, fadeIn, backstep, asked, rest, out>>
  BY DEF SearchFails, GiveUp, callVars
<1>6. rest # {}
  BY <1>2, CallRange, FillRange
<1>7. Target \notin BeginningFound..(EndFound - 1)
  BY <1>1, <1>2, <1>4, <1>6, EndIsTheEdge
<1>8. Sought'
  <2>1. Target' = Target
    BY <1>5 DEF Target
  <2>2. UNCHANGED <<BeginningFound, EndFound>>
    BY <1>4, StreamStays
  <2>. QED
    BY <1>7, <2>1, <2>2 DEF Sought
<1>9. Known'
  BY <1>1, <1>3, <1>4, <1>5, KnownNext DEF Known
<1>10. Searching'
  BY <1>1, <1>4, <1>5, SearchingNext DEF Searching, First, Adrift
<1>11. Right'
  BY <1>1, <1>5 DEF Right
<1>. QED
  BY <1>8, <1>9, <1>10, <1>11 DEF Sight

LEMMA BeginSights ==
  ASSUME IInv, Sight, NEW n \in Requests, BeginRead(n)
  PROVE  Sight'
<1>1. Typed /\ StreamTyped /\ Known /\ Searching /\ Right
  BY DEF IInv, Sight, Typed
<1>. PICK z : z = Clamp(pos + n, 0, Total) - 1 + ReadOffset
  OBVIOUS
<1>2. /\ phase = "idle" /\ asked' = First..z
      /\ phase' = (IF rest' = {} THEN "done" ELSE "search") /\ backstep' = -1
      /\ UNCHANGED <<stream, block, buffer, pos, fadeIn>>
      /\ rest' = asked' \ FramesOf(buffer)
      /\ out' = [f \in asked' |->
           IF f \in asked' \cap FramesOf(buffer) THEN FrameAt(buffer, f)
           ELSE IF f \in DOMAIN out THEN out[f] ELSE Silence]
  BY DEF BeginRead, readerVars, CopyFrom, First
<1>3. /\ First \in Nat /\ z \in Int /\ asked = {} /\ rest = {}
      /\ buffer.from \in Nat /\ buffer.to \in Nat
  <2>1. First \in Nat /\ asked = {} /\ rest = {}
    BY <1>2, CallRange
  <2>2. buffer.from \in Nat /\ buffer.to \in Nat
    BY <1>1 DEF Typed, Buffers
  <2>3. pos \in Nat /\ n \in Nat /\ Total \in Nat /\ ReadOffset \in Nat
    BY <1>1, Sizing, MediaFoundationAssumption DEF Typed
  <2>4. z \in Int
    BY <2>3 DEF Clamp
  <2>. QED
    BY <2>1, <2>2, <2>4
<1>4. buffer.from <= First
  <2>1. PICK t0 \in Int, z0 \in Int : Remaining(t0, z0)
    BY DEF IInv, Ranges
  <2>. QED
    BY <1>2, <1>3, <2>1 DEF Remaining
<1>5. asked' \subseteq Int /\ \A f \in asked' : First <= f /\ buffer.from <= f
  BY <1>2, <1>3, <1>4
<1>6. \A f \in asked' : f \in FramesOf(buffer) <=> f < buffer.to
  BY <1>3, <1>5 DEF FramesOf
<1>7. Known'
  <2>. SUFFICES ASSUME buffer # NoBuffer
                PROVE  /\ \A f \in rest' : buffer.to <= f
                       /\ block < Blocks =>
                            /\ phase' = "search" => buffer.to \in rest'
                            /\ phase' = "done" => \A f \in asked' : f < buffer.to
    BY <1>1, <1>2, KnownNext DEF Known, First
  <2>1. \A f \in rest' : buffer.to <= f
    BY <1>2, <1>3, <1>5, <1>6
  <2>2. ASSUME block < Blocks, rest' # {}
        PROVE  buffer.to \in rest'
    <3>1. First <= buffer.to
      BY <1>1, <2>2 DEF Known
    <3>2. PICK f \in rest' : buffer.to <= f
      BY <2>1, <2>2
    <3>3. f \in First..z
      BY <1>2
    <3>4. buffer.to \in asked'
      BY <1>2, <1>3, <3>1, <3>2, <3>3
    <3>. QED
      BY <1>2, <1>3, <1>6, <3>4
  <2>3. ASSUME rest' = {}
        PROVE  \A f \in asked' : f < buffer.to
    BY <1>2, <1>6, <2>3
  <2>. QED
    BY <1>2, <2>1, <2>2, <2>3
<1>8. Searching'
  <2>1. buffer = NoBuffer => rest' = asked'
    <3>1. FramesOf(NoBuffer) = {}
      BY DEF NoBuffer, FramesOf
    <3>. QED
      BY <1>2, <3>1
  <2>. QED
    BY <1>1, <1>2, <2>1, SearchingNext DEF Searching, First, Adrift
<1>9. Right'
  <2>. SUFFICES ASSUME NEW f \in asked', f \notin rest'
                PROVE  out'[f].frame = f
    BY DEF Right
  <2>1. f \in FramesOf(buffer) /\ out'[f] = FrameAt(buffer, f)
    BY <1>2
  <2>2. buffer # NoBuffer
    BY <2>1 DEF NoBuffer, FramesOf
  <2>3. buffer.first = buffer.from
    BY <1>1, <2>2 DEF Known
  <2>. QED
    BY <1>3, <1>5, <2>1, <2>3 DEF FrameAt
<1>10. Sought'
  BY <1>2 DEF Sought
<1>. QED
  BY <1>7, <1>8, <1>9, <1>10 DEF Sight

LEMMA ReturnSights ==
  ASSUME IInv, Sight, Return
  PROVE  Sight'
<1>1. Typed /\ StreamTyped /\ Known /\ Searching /\ Right
  BY DEF IInv, Sight, Typed
<1>2. /\ phase = "done" /\ phase' = "idle" /\ backstep' = -1
      /\ pos' = pos + Cardinality(asked)
      /\ asked' = {} /\ rest' = {} /\ UNCHANGED <<stream, block, buffer, fadeIn>>
  BY DEF Return, readerVars
<1>3. PICK t \in Int, z \in Int : Remaining(t, z)
  BY DEF IInv, Ranges
<1>4. /\ pos \in Nat /\ ReadOffset \in Nat /\ First \in Nat /\ First = pos + ReadOffset
      /\ z \in First - 1..ReadOffset + Total - 1 /\ asked = First..z /\ Total \in Nat
  BY <1>1, <1>3, CallRange, Sizing DEF First, Remaining
<1>5. Cardinality(asked) = z - First + 1
  BY <1>4, FS_Interval
<1>6. pos' + ReadOffset = z + 1
  BY <1>2, <1>4, <1>5
<1>7. Known'
  <2>. SUFFICES ASSUME buffer # NoBuffer, block < Blocks
                PROVE  z + 1 <= buffer.to
    BY <1>1, <1>2, <1>6, KnownNext DEF Known
  <2>1. First <= buffer.to /\ (\A f \in asked : f < buffer.to) /\ buffer.to \in Nat
    BY <1>1, <1>2 DEF Known, Typed, Buffers
  <2>2. z \in asked \/ z + 1 = First
    BY <1>4
  <2>. QED
    BY <1>4, <2>1, <2>2
<1>8. Searching'
  <2>. SUFFICES ASSUME StartOf(block + fadeIn) <= First + Slack
                PROVE  StartOf(block + fadeIn) <= z + 1 + Slack
    BY <1>1, <1>2, <1>6, SearchingNext DEF Searching, Adrift
  <2>1. block + fadeIn \in Nat
    BY <1>1, Sizing DEF Typed, FadeInBlocks
  <2>2. StartOf(block + fadeIn) \in Nat /\ Slack \in Nat
    BY <1>1, <2>1, Starts, Slacks
  <2>. QED
    BY <1>4, <2>2
<1>9. Right' /\ Sought'
  BY <1>2 DEF Right, Sought
<1>. QED
  BY <1>7, <1>8, <1>9 DEF Sight

LEMMA Targets ==
  ASSUME Typed, NEW off \in Offsets, NEW way \in Way
  PROVE  /\ Move(off) \in Int
         /\ AbsolutePosition(pos, 0, Total, Move(off), way) \in 0..Total
<1>1. pos \in 0..Total /\ Total \in Nat
  BY Sizing DEF Typed
<1>2. Move(off) \in Int
  <2>1. off * FrameSize \in Int /\ FrameSize \in Nat \ {0} /\ OffsetRange \in Nat \ {0}
    BY MediaFoundationAssumption
  <2>2. \A x \in Int, m \in Nat \ {0} : x % m \in Nat
    OBVIOUS
  <2>3. (off * FrameSize) % OffsetRange \in Nat
    BY <2>1, <2>2
  <2>. QED
    BY <2>1, <2>3, Quotient DEF Move, FramesOfOffset
<1>. QED
  BY <1>1, <1>2 DEF AbsolutePosition, AnchorOf, Clamp, Way

LEMMA SeekSights ==
  ASSUME IInv, Sight, NEW off \in Offsets, NEW way \in Way, Seek(off, way), UNCHANGED troubles
  PROVE  Sight'
<1>1. Typed /\ StreamTyped /\ Known /\ Searching /\ Right
  BY DEF IInv, Sight, Typed
<1>. PICK target : target = AbsolutePosition(pos, 0, Total, Move(off), way)
  OBVIOUS
<1>2. target \in 0..Total
  BY <1>1, Targets
<1>3. phase = "idle" /\ UNCHANGED <<phase, backstep, asked, rest, out>>
  BY DEF Seek, callVars
<1>4. asked = {} /\ rest = {} /\ ReadOffset \in Nat
  BY <1>3, CallRange
<1>5. Right' /\ Sought'
  BY <1>3, <1>4 DEF Right, Sought
<1>6. CASE UNCHANGED <<readerVars, buffer, fadeIn, pos>>
  <2>1. UNCHANGED <<stream, block, buffer, fadeIn, pos>>
    BY <1>6 DEF readerVars
  <2>2. Known'
    BY <1>1, <1>3, <2>1, KnownNext DEF Known, First
  <2>3. Searching'
    BY <1>1, <1>3, <2>1, SearchingNext DEF Searching, First, Adrift
  <2>. QED
    BY <1>5, <2>2, <2>3 DEF Sight
<1>7. CASE SeekInternal(target + ReadOffset) /\ pos' = target
  <2>. PICK f \in Nat : f = target + ReadOffset /\ ReadOffset <= f
    BY <1>2, <1>4
  <2>1. StartOf(block' + fadeIn') <= f + Slack
    BY <1>1, <1>7, SeekLands
  <2>2. UNCHANGED stream /\ buffer' = NoBuffer /\ pos' + ReadOffset = f
    BY <1>7 DEF SeekInternal
  <2>3. Known'
    BY <2>2 DEF Known
  <2>4. Searching'
    BY <1>3, <1>4, <2>1, <2>2, SearchingNext
  <2>. QED
    BY <1>5, <2>3, <2>4 DEF Sight
<1>8. ~SeekRefused
  <2>1. troubles \in Nat
    BY <1>1, Sizing DEF Typed
  <2>. QED
    BY <2>1 DEF SeekRefused
<1>. QED
  BY <1>6, <1>7, <1>8 DEF Seek

LEMMA InitSights == Init => Sighted
<1>. SUFFICES ASSUME Init
              PROVE  Sight
  BY DEF Sighted
<1>1. /\ buffer = NoBuffer /\ pos = 0 /\ fadeIn = 0 /\ phase = "idle" /\ backstep = -1
      /\ asked = {} /\ rest = {}
  BY DEF Init
<1>2. StreamTyped
  BY DEF Init, StreamTyped
<1>3. ReadOffset \in Nat /\ Slack \in Nat /\ stream.size \in Nat \ {0} /\ Blocks \in Nat
  BY <1>2, Sizing, Slacks
<1>4. block \in Nat /\ block <= ReadOffset \div stream.size
  <2>1. ReadOffset = 0 => block = 0 /\ ReadOffset \div stream.size \in Nat
    BY <1>2, Sizing DEF Init
  <2>. QED
    BY <1>2, <1>3, <2>1, LandingFacts DEF Init
<1>5. StartOf(block) \in Nat /\ StartOf(block) <= block * stream.size /\ block * stream.size \in Nat
  BY <1>2, <1>3, <1>4, Starts
<1>6. block * stream.size <= ReadOffset
  BY <1>3, <1>4, Landed
<1>7. StartOf(block) <= First + Slack
  <2>1. First = ReadOffset
    BY <1>1, <1>3 DEF First
  <2>. QED
    BY <1>3, <1>5, <1>6, <2>1
<1>8. block + fadeIn = block
  BY <1>1, <1>4
<1>. QED
  BY <1>1, <1>7, <1>8 DEF Sight, Known, Searching, Sought, Right

LEMMA StepSights == IInv /\ Sighted /\ [Next]_vars => Sighted'
<1>. SUFFICES ASSUME IInv, Sighted, [Next]_vars, troubles' = 0
              PROVE  Sight'
  BY DEF Sighted
<1>1. troubles = 0 /\ Sight
  <2>1. troubles \in Nat
    BY Sizing DEF IInv, Typed
  <2>2. troubles' = troubles \/ troubles' = troubles + 1
    BY DEF Next, Internal, Return, BeginRead, Seek, SeekInternal, SeekRefused, DiscardFadein, FindsTarget,
           IsBeforeTarget, IsBehindTarget, SearchForward, FillOn, FillEnds, SearchFails, Block, NoBlock, vars
  <2>. QED
    BY <2>1, <2>2 DEF Sighted
<1>2. UNCHANGED troubles
  BY <1>1
<1>3. ASSUME Internal
      PROVE  Sight'
  <2>1. UNCHANGED pos
    BY <1>3 DEF Internal
  <2>. QED
    BY <1>1, <1>2, <1>3, <2>1, DiscardSights, FindsSights, BeforeSights, BehindSights, ForwardSights,
       FillSights, FailsSights DEF Internal
<1>4. CASE Return
  BY <1>1, <1>4, ReturnSights
<1>5. CASE \E n \in Requests : BeginRead(n)
  BY <1>1, <1>5, BeginSights
<1>6. CASE \E off \in Offsets, way \in Way : Seek(off, way)
  BY <1>1, <1>2, <1>6, SeekSights
<1>7. CASE UNCHANGED vars
  <2>1. UNCHANGED <<stream, block, buffer, pos, fadeIn, phase, backstep, asked, rest, out>>
    BY <1>7 DEF vars, readerVars, searchVars, callVars
  <2>2. Known'
    BY <1>1, <2>1, KnownNext DEF Sight, Known, First
  <2>3. Searching'
    <3>1. Corrected(backstep)' = Corrected(backstep)
      BY <2>1 DEF Corrected, Target
    <3>. QED
      BY <1>1, <2>1, <3>1, SearchingNext DEF Sight, Searching, First, Adrift
  <2>4. Sought' /\ Right'
    <3>1. Target' = Target
      BY <2>1 DEF Target
    <3>2. UNCHANGED <<BeginningFound, EndFound>>
      BY <2>1, StreamStays
    <3>. QED
      BY <1>1, <2>1, <3>1, <3>2 DEF Sight, Sought, Right
  <2>. QED
    BY <2>2, <2>3, <2>4 DEF Sight
<1>. QED
  BY <1>3, <1>4, <1>5, <1>6, <1>7 DEF Next

-----------------------------------------------------------------------------
(* That the source implements FrameDevice.                                 *)

\* A call is asked for what the position and the end leave of a request.
AskedFor ==
  phase # "idle" =>
    \E n \in Requests : asked = First..(Clamp(pos + n, 0, Total) - 1 + ReadOffset)

\* What the mapping has for a device that breaks: a call of the reader went wrong, or
\* the stream has frames that no search reaches.
Broken == troubles > 0 \/ BeginningFound > ReadOffset \/ EndFound < Total + ReadOffset

LEMMA AskedForInit == Init => AskedFor
BY DEF Init, AskedFor

LEMMA AskedForStep ==
  ASSUME AskedFor, [Next]_vars
  PROVE  AskedFor'
<1>1. CASE Internal
  <2>1. UNCHANGED pos /\ phase # "idle"
    BY <1>1 DEF Internal, DiscardFadein, FindsTarget, IsBeforeTarget, IsBehindTarget, SearchForward,
                FillOn, FillEnds, SearchFails
  <2>2. UNCHANGED asked
    BY <1>1 DEF Internal, DiscardFadein, FindsTarget, IsBeforeTarget, IsBehindTarget, SearchForward,
                FillOn, FillEnds, SearchFails, Use, GiveUp, callVars
  <2>. QED
    BY <2>1, <2>2 DEF AskedFor, First
<1>2. CASE Return
  BY <1>2 DEF Return, AskedFor
<1>3. ASSUME NEW n \in Requests, BeginRead(n)
      PROVE  AskedFor'
  <2>1. asked' = First..(Clamp(pos + n, 0, Total) - 1 + ReadOffset) /\ UNCHANGED pos
    BY <1>3 DEF BeginRead, First
  <2>. QED
    BY <2>1 DEF AskedFor, First
<1>4. ASSUME NEW off \in Offsets, NEW way \in Way, Seek(off, way)
      PROVE  AskedFor'
  BY <1>4 DEF Seek, AskedFor
<1>5. CASE UNCHANGED vars
  BY <1>5 DEF vars, callVars, searchVars, AskedFor, First
<1>. QED
  BY <1>1, <1>2, <1>3, <1>4, <1>5 DEF Next

LEMMA Edges ==
  ASSUME StreamTyped
  PROVE  BeginningFound \in Int /\ EndFound \in Int
BY Sizing, Slacks DEF BeginningFound, Larger, FadeInBlocks

\* No seek maps to no seek.
LEMMA NoMove == [NoSeek EXCEPT !.off = Move(@)] = Device!NoSeek
<1>1. FrameSize \in Nat \ {0} /\ OffsetRange \in Nat \ {0}
  BY MediaFoundationAssumption
<1>2. Move(0) = 0
  <2>1. 0 * FrameSize = 0
    BY <1>1
  <2>2. \A m \in Nat \ {0} : 0 % m = 0 /\ 0 \div m = 0
    OBVIOUS
  <2>. QED
    BY <1>1, <2>1, <2>2 DEF Move, FramesOfOffset
<1>. QED
  BY <1>2 DEF NoSeek, Device!NoSeek

\* A read that returns leaves nothing out.
LEMMA NothingIsLeft ==
  ASSUME IInv, Sight, phase = "done", ~Broken
  PROVE  rest = {}
<1>. SUFFICES ASSUME rest # {}
              PROVE  FALSE
  OBVIOUS
<1>1. /\ Target \in rest /\ rest \subseteq asked /\ asked \subseteq Nat /\ ReadOffset \in Nat
      /\ First \in Nat /\ ReadOffset <= First
      /\ \A f \in asked : First <= f /\ f < ReadOffset + Total
  BY CallRange
<1>2. BeginningFound \in Int /\ EndFound \in Int /\ Total \in Nat
  BY Edges, Sizing DEF IInv, Typed
<1>3. BeginningFound <= ReadOffset /\ Total + ReadOffset <= EndFound
  BY <1>1, <1>2 DEF Broken
<1>4. Target \in BeginningFound..(EndFound - 1)
  BY <1>1, <1>2, <1>3
<1>. QED
  BY <1>4 DEF Sight, Sought

\* Returning is the read of a row of frames.
LEMMA ReturnsRow ==
  ASSUME IInv, Sight, AskedFor, Return, ~Broken
  PROVE  \E n \in Requests : Device!Read(n)
<1>. PICK n \in Requests : asked = First..(Clamp(pos + n, 0, Total) - 1 + ReadOffset)
  BY DEF Return, AskedFor
<1>. DEFINE count == IF n <= Total - pos THEN n ELSE Total - pos
<1>1. n \in Nat /\ pos \in 0..Total /\ Total \in Nat /\ ReadOffset \in Nat
  BY Sizing, MediaFoundationAssumption DEF IInv, Typed
<1>2. count \in Nat /\ asked = (pos + ReadOffset)..(pos + ReadOffset + count - 1)
  BY <1>1 DEF Clamp, First
<1>3. Cardinality(asked) = count
  <2>1. pos + ReadOffset \in Int /\ pos + ReadOffset + count - 1 \in Int
    BY <1>1, <1>2
  <2>. HIDE DEF count
  <2>. QED
    BY <1>1, <1>2, <2>1, FS_Interval
<1>4. rest = {}
  BY NothingIsLeft DEF Return
<1>. HIDE DEF count
<1>5. got' = [i \in 1..count |-> out[pos + ReadOffset + i - 1]]
  BY <1>3, <1>4 DEF Return
<1>6. Len(got') = count
  BY <1>2, <1>5
<1>7. \A i \in 1..count : got'[i].frame - ReadOffset = pos + i - 1
  <2>. SUFFICES ASSUME NEW i \in 1..count
                PROVE  got'[i].frame - ReadOffset = pos + i - 1
    OBVIOUS
  <2>. PICK f \in Int : f = pos + ReadOffset + i - 1
    BY <1>1, <1>2
  <2>1. f \in asked
    <3>1. f \in (pos + ReadOffset)..(pos + ReadOffset + count - 1)
      BY <1>1, <1>2
    <3>. QED
      BY <1>2, <3>1
  <2>2. out[f].frame = f
    BY <1>4, <2>1 DEF Sight, Right
  <2>3. got'[i].frame = f
    BY <1>5, <2>2
  <2>. QED
    BY <1>1, <1>2, <2>3
<1>8. [i \in 1..Len(got') |-> got'[i].frame - ReadOffset] = [i \in 1..count |-> pos + i - 1]
  BY <1>6, <1>7
<1>9. pos' = pos + count /\ answer' = NoSeek
  BY <1>3 DEF Return
<1>10. Device!Read(n)
  BY <1>8, <1>9, NoMove DEF Device!Read, count
<1>. QED
  BY <1>10

\* A seek goes where one of the row goes.
LEMMA SeeksRow ==
  ASSUME IInv, NEW off \in Offsets, NEW way \in Way, Seek(off, way), UNCHANGED troubles
  PROVE  \E o \in {Move(f) : f \in Offsets}, w \in {"beg", "cur", "end"} : Device!Seek(o, w)
<1>. PICK target : target = AbsolutePosition(pos, 0, Total, Move(off), way)
  OBVIOUS
<1>1. pos \in 0..Total /\ Total \in Nat /\ troubles \in Nat
  BY Sizing DEF IInv, Typed
<1>2. Move(off) \in Int /\ target \in 0..Total
  BY Targets DEF IInv
<1>3. target = Device!Within(Device!From(way) + Move(off))
  BY <1>1, <1>2 DEF AbsolutePosition, AnchorOf, Clamp, Way, Device!Within, Device!From
<1>4. pos' = target
  BY <1>1 DEF Seek, SeekRefused
<1>5. answer' = [way |-> way, off |-> off, pos |-> pos'] /\ got' = <<>>
  BY DEF Seek
<1>6. [answer' EXCEPT !.off = Move(@)] = [way |-> way, off |-> Move(off), pos |-> pos']
  BY <1>5
<1>7. [i \in 1..Len(got') |-> got'[i].frame - ReadOffset] = <<>>
  BY <1>5
<1>8. Device!Seek(Move(off), way)
  BY <1>3, <1>4, <1>6, <1>7 DEF Device!Seek
<1>. QED
  BY <1>8 DEF Way

\* While nothing goes wrong a source that is not broken stays so.
LEMMA BrokenStays ==
  ASSUME IInv, [Next]_vars, ~Broken'
  PROVE  ~Broken /\ troubles = 0 /\ UNCHANGED <<troubles, stream>>
<1>1. UNCHANGED stream
  BY DEF Next, Internal, Return, BeginRead, Seek, SeekInternal, SeekRefused, DiscardFadein, FindsTarget,
         IsBeforeTarget, IsBehindTarget, SearchForward, FillOn, FillEnds, SearchFails, Block, NoBlock, readerVars, vars
<1>2. troubles \in Nat
  BY Sizing DEF IInv, Typed
<1>3. troubles' = troubles \/ troubles' = troubles + 1
  BY DEF Next, Internal, Return, BeginRead, Seek, SeekInternal, SeekRefused, DiscardFadein, FindsTarget,
         IsBeforeTarget, IsBehindTarget, SearchForward, FillOn, FillEnds, SearchFails, Block, NoBlock, vars
<1>4. troubles' = 0 /\ troubles = 0
  BY <1>2, <1>3 DEF Broken
<1>5. UNCHANGED <<BeginningFound, EndFound>>
  BY <1>1, StreamStays
<1>. QED
  BY <1>1, <1>4, <1>5 DEF Broken

LEMMA StepOfRow ==
  ASSUME IInv, Sighted, AskedFor, [Next]_vars
  PROVE  [Device!Next]_(Device!vars)
<1>1. CASE Broken'
  BY <1>1 DEF Broken, Device!Next
<1>2. CASE ~Broken'
  <2>1. ~Broken /\ troubles = 0 /\ UNCHANGED <<troubles, stream>>
    BY <1>2, BrokenStays
  <2>2. Sight
    BY <2>1 DEF Sighted
  <2>3. UNCHANGED Broken
    BY <2>1, StreamStays DEF Broken
  <2>4. CASE UNCHANGED <<pos, got, answer>>
    BY <2>3, <2>4 DEF Device!vars, Broken
  <2>5. CASE Return
    <3>1. \E n \in Requests : Device!Read(n)
      BY <2>1, <2>2, <2>5, ReturnsRow
    <3>. QED
      BY <1>2, <2>1, <3>1 DEF Device!Next, Broken
  <2>6. CASE \E off \in Offsets, way \in Way : Seek(off, way)
    <3>1. \E o \in {Move(f) : f \in Offsets}, w \in {"beg", "cur", "end"} : Device!Seek(o, w)
      BY <2>1, <2>6, SeeksRow
    <3>. QED
      BY <1>2, <3>1 DEF Device!Next, Broken
  <2>7. Internal \/ (\E n \in Requests : BeginRead(n)) \/ UNCHANGED vars => UNCHANGED <<pos, got, answer>>
    BY DEF Internal, BeginRead, vars
  <2>. QED
    BY <2>4, <2>5, <2>6, <2>7 DEF Next
<1>. QED
  BY <1>1, <1>2

LEMMA InitOfRow == Init => Device!Init
<1>. SUFFICES ASSUME Init
              PROVE  Device!Init
  OBVIOUS
<1>1. pos = 0 /\ got = <<>> /\ answer = NoSeek
  BY DEF Init
<1>2. [i \in 1..Len(got) |-> got[i].frame - ReadOffset] = <<>>
  BY <1>1
<1>. QED
  BY <1>1, <1>2, NoMove DEF Device!Init

-----------------------------------------------------------------------------
\* Positions, ranges and the search always have their types; the frames asked for
\* are those of the stream (media_foundation_source::read, seek).
THEOREM TypeCorrect == Spec => []TypeOK
BY InvInit, InvStep, InvImplies, PTL DEF Spec

\* What remains of a range ends with it, and is not empty while the loop of
\* readFromFile goes on: the dereferenced begin of an interval set exists.
THEOREM RangesStayWhole == Spec => []OneIntervalRemains
BY InvInit, InvStep, InvImplies, PTL DEF Spec

\* Whatever is read and sought and whatever goes wrong in the reader, no client
\* hears a faded frame behind the block the audio begins in.
THEOREM NoFadeInIsHeard == Spec => []FadeInIsDiscarded
BY InvInit, InvStep, InvImplies, PTL DEF Spec

\* Over a reader that works no read gives up on a frame but at the edges: a search that
\* began in the wrong place, in front of the target or behind it, ends in its block
\* (searchAndRetrieveBlock, searchForwardAndRetrieveBlock, searchBackwardAndRetrieveBlock).
THEOREM SearchesSucceed == Spec => []GivesUpOnlyAtTheEdges
<1>1. Init => IInv /\ Sighted
  BY InvInit, InitSights
<1>2. IInv /\ Sighted /\ [Next]_vars => (IInv /\ Sighted)'
  BY InvStep, StepSights
<1>3. IInv /\ Sighted => GivesUpOnlyAtTheEdges
  BY DEF Sighted, Sight, Sought, GivesUpOnlyAtTheEdges
<1>. QED
  BY <1>1, <1>2, <1>3, PTL DEF Spec

\* Over a reader that works and a stream without frames out of reach, the source is a row
\* of frames with a position, for every size of its blocks, every read offset and every
\* way the reader lands: a read hands out the frames that follow, as they are, and a seek
\* goes where its offset says (media_foundation_source::read, seek).
THEOREM SourceIsARowOfFrames == Spec => ImplementsFrameDevice
<1>1. Init => IInv /\ Sighted /\ AskedFor
  BY InvInit, InitSights, AskedForInit
<1>2. IInv /\ Sighted /\ AskedFor /\ [Next]_vars => (IInv /\ Sighted /\ AskedFor)'
  BY InvStep, StepSights, AskedForStep
<1>3. IInv /\ Sighted /\ AskedFor /\ [Next]_vars => [Device!Next]_(Device!vars)
  BY StepOfRow
<1>. QED
  BY <1>1, <1>2, <1>3, InitOfRow, PTL DEF Spec, ImplementsFrameDevice, Device!Spec
=============================================================================
