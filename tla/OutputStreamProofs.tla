------------------------- MODULE OutputStreamProofs -------------------------
(***************************************************************************)
(* What holds of OutputStream for every container, size of frame and       *)
(* buffer, for all writes, failures of the device, and kills.              *)
(***************************************************************************)
EXTENDS OutputStream, SequenceTheorems, TLAPS

-----------------------------------------------------------------------------
(* Cells of a file.                                                        *)

Names == {"whole", "frames", "data"}
Cells == [field : Names \cup {"fixed", "pcm"}, value : Nat, part : Nat]

LEMMA Sizing ==
  /\ Formats \subseteq {"wav", "aiff"}
  /\ BytesPerFrame \in Nat \ {0}
  /\ BufBytes \in Nat \ {0}
  /\ MaxBytes \in Nat /\ MaxFaults \in Nat /\ MaxFaults * BufBytes \in Nat
  /\ WriteSizes \subseteq Nat
  /\ MaxPos \in Nat /\ MaxPos > 58 + MaxBytes + MaxFaults * BufBytes
BY OutputStreamAssumption DEF BufBytes

LEMMA HeaderLengths == \A f \in Formats : HeaderLen(f) \in 44..58
BY Sizing DEF HeaderLen

\* Writing over a file, and past its end.
LEMMA OverwriteFacts ==
  ASSUME NEW S, NEW old \in Seq(S), NEW new \in Seq(S), NEW p \in 0..Len(old)
  PROVE  /\ Overwrite(old, p, new) \in Seq(S)
         /\ Len(Overwrite(old, p, new)) = Larger(Len(old), p + Len(new))
         /\ \A i \in 1..Len(Overwrite(old, p, new)) :
              Overwrite(old, p, new)[i] = IF i <= p THEN old[i]
                                          ELSE IF i <= p + Len(new) THEN new[i - p]
                                          ELSE old[i]
<1>. DEFINE before == SubSeq(old, 1, p)
            q      == p + Len(new) + 1
            behind == SubSeq(old, q, Len(old))
            both   == before \o new
<1>1. Len(old) \in Nat /\ Len(new) \in Nat /\ p \in Nat /\ q \in Nat
  OBVIOUS
<1>2. before \in Seq(S) /\ Len(before) = p /\ \A i \in 1..p : before[i] = old[i]
  <2>1. \A i \in 1..p : old[i] \in S
    OBVIOUS
  <2>2. /\ before \in Seq(S)
        /\ Len(before) = IF 1 <= p THEN p - 1 + 1 ELSE 0
        /\ \A i \in 1..(p - 1 + 1) : before[i] = old[1 + i - 1]
    BY <1>1, <2>1, SubSeqProperties
  <2>. HIDE DEF before
  <2>. QED
    BY <1>1, <2>2
<1>3. /\ behind \in Seq(S)
      /\ Len(behind) = IF q <= Len(old) THEN Len(old) - q + 1 ELSE 0
      /\ \A i \in 1..(Len(old) - q + 1) : behind[i] = old[q + i - 1]
  <2>1. \A i \in q..Len(old) : old[i] \in S
    BY <1>1
  <2>. HIDE DEF q
  <2>. QED
    BY <1>1, <2>1, SubSeqProperties
<1>. HIDE DEF before, behind
<1>4. /\ both \in Seq(S) /\ Len(both) = p + Len(new)
      /\ \A i \in 1..(p + Len(new)) : both[i] = IF i <= p THEN before[i] ELSE new[i - p]
  BY <1>2, ConcatProperties
<1>. HIDE DEF both
<1>. DEFINE file1 == both \o behind
<1>5. /\ file1 \in Seq(S)
      /\ Len(file1) = Len(both) + Len(behind)
      /\ \A i \in 1..(Len(both) + Len(behind)) :
           file1[i] = IF i <= Len(both) THEN both[i] ELSE behind[i - Len(both)]
  BY <1>3, <1>4, ConcatProperties
<1>6. Overwrite(old, p, new) = file1
  BY DEF Overwrite, both, before, behind
<1>. HIDE DEF file1, q
<1>7. Len(file1) = Larger(Len(old), p + Len(new))
  <2>1. q = p + Len(new) + 1
    BY DEF q
  <2>2. Len(file1) = (p + Len(new)) + Len(behind)
    BY <1>4, <1>5
  <2>3. CASE q <= Len(old)
    <3>1. Len(behind) = Len(old) - q + 1
      BY <1>3, <2>3
    <3>. QED
      BY <1>1, <2>1, <2>2, <2>3, <3>1 DEF Larger
  <2>4. CASE ~(q <= Len(old))
    <3>1. Len(behind) = 0
      BY <1>3, <2>4
    <3>. QED
      BY <1>1, <2>1, <2>2, <2>4, <3>1 DEF Larger
  <2>. QED
    BY <2>3, <2>4
<1>8. ASSUME NEW i \in 1..Len(file1)
      PROVE  file1[i] = IF i <= p THEN old[i] ELSE IF i <= p + Len(new) THEN new[i - p] ELSE old[i]
  <2>1. CASE i <= p + Len(new)
    <3>1. i \in 1..(p + Len(new)) /\ i \in 1..(Len(both) + Len(behind))
      <4>1. i \in 1..(Len(both) + Len(behind))
        BY <1>5
      <4>. QED
        BY <1>1, <2>1, <4>1
    <3>2. file1[i] = both[i]
      BY <1>4, <1>5, <2>1, <3>1
    <3>3. both[i] = IF i <= p THEN before[i] ELSE new[i - p]
      BY <1>4, <3>1
    <3>. QED
      BY <1>2, <2>1, <3>1, <3>2, <3>3
  <2>2. CASE i > p + Len(new)
    <3>1. i \in 1..(Len(both) + Len(behind)) /\ ~(i <= Len(both)) /\ i <= Len(old)
      BY <1>1, <1>4, <1>5, <1>7, <2>2 DEF Larger
    <3>2. file1[i] = behind[i - Len(both)]
      BY <1>5, <3>1
    <3>3. i - Len(both) \in 1..(Len(old) - q + 1) /\ q + (i - Len(both)) - 1 = i
      BY <1>1, <1>4, <2>2, <3>1 DEF q
    <3>4. behind[i - Len(both)] = old[i]
      BY <1>3, <3>3
    <3>. QED
      BY <1>1, <2>2, <3>2, <3>4
  <2>. QED
    BY <1>1, <2>1, <2>2
<1>. QED
  BY <1>5, <1>6, <1>7, <1>8

\* Where the header has which field.
FieldAt(f, i) ==
  IF i \in 5..8 THEN "whole"
  ELSE IF f = "aiff" /\ i \in 23..26 THEN "frames"
  ELSE IF (f = "wav" /\ i \in 41..44) \/ (f = "aiff" /\ i \in 47..50) THEN "data"
  ELSE "fixed"

LEMMA HeaderFacts ==
  ASSUME NEW f \in Formats
  PROVE  /\ Header(f) \in Seq(Cells)
         /\ Len(Header(f)) = HeaderLen(f)
         /\ \A i \in 1..HeaderLen(f) :
              /\ Header(f)[i].field = FieldAt(f, i)
              /\ FieldAt(f, i) \in Names => Header(f)[i].value = 0
<1>. DEFINE here(i) == {p \in Placeholders(f) : i \in (p.at + 1)..(p.at + 4)}
<1>1. f \in {"wav", "aiff"} /\ HeaderLen(f) \in Nat
  BY Sizing, HeaderLengths
<1>2. Header(f) = [i \in 1..HeaderLen(f) |->
        IF here(i) = {} THEN Cell("fixed", i, 0)
        ELSE LET p == CHOOSE p \in here(i) : TRUE IN Cell(p.field, 0, i - p.at)]
  BY DEF Header
<1>3. ASSUME NEW i \in 1..HeaderLen(f)
      PROVE  /\ Header(f)[i] \in Cells
             /\ Header(f)[i].field = FieldAt(f, i)
             /\ FieldAt(f, i) \in Names => Header(f)[i].value = 0
  <2>1. CASE here(i) = {}
    <3>1. Header(f)[i] = Cell("fixed", i, 0)
      BY <1>2, <2>1
    <3>2. FieldAt(f, i) = "fixed"
      <4>1. \A p \in Placeholders(f) : i \notin (p.at + 1)..(p.at + 4)
        BY <2>1
      <4>2. CASE f = "wav"
        <5>1. i \notin 5..8 /\ i \notin 41..44
          BY <4>1, <4>2 DEF Placeholders
        <5>. QED
          BY <4>2, <5>1 DEF FieldAt
      <4>3. CASE f = "aiff"
        <5>1. i \notin 5..8 /\ i \notin 23..26 /\ i \notin 47..50
          BY <4>1, <4>3 DEF Placeholders
        <5>. QED
          BY <4>3, <5>1 DEF FieldAt
      <4>. QED
        BY <1>1, <4>2, <4>3
    <3>. QED
      BY <1>1, <3>1, <3>2 DEF Cell, Cells, Names
  <2>2. CASE here(i) # {}
    <3>. DEFINE p == CHOOSE p \in here(i) : TRUE
    <3>1. p \in here(i)
      BY <2>2
    <3>2. Header(f)[i] = Cell(p.field, 0, i - p.at)
      BY <1>2, <2>2
    <3>. HIDE DEF p
    <3>3. p.field = FieldAt(f, i) /\ p.field \in Names /\ i - p.at \in Nat
      BY <1>1, <3>1 DEF FieldAt, Placeholders, Names
    <3>. QED
      BY <3>2, <3>3 DEF Cell, Cells
  <2>. QED
    BY <2>1, <2>2
<1>. HIDE DEF here
<1>4. Header(f) \in Seq(Cells) /\ Len(Header(f)) = HeaderLen(f)
  <2>1. Header(f) \in [1..HeaderLen(f) -> Cells]
    BY <1>2, <1>3
  <2>. QED
    BY <1>1, <2>1
<1>. QED
  BY <1>3, <1>4

-----------------------------------------------------------------------------
(* The inductive invariant.                                                *)

H == HeaderLen(format)

\* What close writes into a field of a file of n cells.
Final(f, n, name) ==
  LET size == Uint32(n)
      pcm  == Uint32(size - HeaderLen(f))
  IN  IF name = "whole" THEN Uint32(size - 8)
      ELSE IF name = "frames" THEN pcm \div BytesPerFrame
      ELSE IF f = "wav" THEN pcm ELSE Uint32(pcm + 8)

Patch(f, n, at, name) == [at |-> at, field |-> name, value |-> Final(f, n, name)]

\* The patches from the first to the last, and what is left after each.
Remaining(f, n) ==
  IF f = "wav"
  THEN {<<Patch(f, n, 4, "whole"), Patch(f, n, 40, "data")>>, <<Patch(f, n, 40, "data")>>, <<>>}
  ELSE {<<Patch(f, n, 4, "whole"), Patch(f, n, 22, "frames"), Patch(f, n, 46, "data")>>,
        <<Patch(f, n, 22, "frames"), Patch(f, n, 46, "data")>>, <<Patch(f, n, 46, "data")>>, <<>>}

Shape ==
  /\ format \in Formats
  /\ file \in Seq(Cells) /\ buf \in Seq(Nat) /\ todo \in Seq(Nat)
  /\ Len(buf) <= BufBytes
  /\ handed \in 0..MaxBytes /\ faults \in 0..MaxFaults
  /\ pos \in 0..MaxPos /\ view \in {0, H}
  /\ fail \in BOOLEAN /\ bad \in BOOLEAN
  /\ phase \in {"creating", "open", "synced", "patching", "closed", "refused", "broken", "killed"}

\* Where the descriptor and the view are while PCM is written.
Places ==
  /\ phase = "creating" =>
       /\ file = <<>> /\ pos = 0 /\ view = 0
       /\ buf = <<>> /\ todo = <<>> /\ handed = 0 /\ faults = 0
  /\ phase \in {"open", "synced"} => view = H /\ pos = Len(file)
  /\ phase \in {"open", "synced", "patching", "closed"} => Len(file) >= H
  /\ phase = "patching" => view = 0

\* Only a failure makes the file longer than what was handed over.
Room ==
  phase \in {"open", "synced"} =>
    Len(file) + Len(buf) + Len(todo) <= H + handed + faults * BufBytes

\* Without failures the file, the buffer and the call go on where the one before ends.
Sound == IF Len(file) > H THEN Len(file) - H ELSE 0

Order ==
  faults = 0 /\ phase # "creating" =>
    /\ \A i \in 1..Sound : file[H + i].value = i
    /\ \A i \in 1..Len(buf) : buf[i] = Sound + i
    /\ \A i \in 1..Len(todo) : todo[i] = Sound + Len(buf) + i
    /\ Sound + Len(buf) + Len(todo) = handed

\* The header keeps its layout, and nothing but PCM is behind it.
Layout ==
  \A i \in 1..Len(file) : file[i].field = IF i <= H THEN FieldAt(format, i) ELSE "pcm"

\* A size is nothing or final, and final only after the last byte of PCM.
Sizes ==
  \A i \in 1..Len(file) : file[i].field \in Names =>
    \/ file[i].value = 0
    \/ /\ phase \in {"patching", "closed", "broken", "killed"}
       /\ Len(file) >= H
       /\ file[i].value = Final(format, Len(file), file[i].field)

\* What is left of the patches; the fields of the others are final.
Patching ==
  /\ phase \in {"patching", "closed"} =>
       \A i \in 1..Len(file) : file[i].field \in Names =>
         \/ file[i].value = Final(format, Len(file), file[i].field)
         \/ \E j \in 1..Len(patches) : patches[j].field = file[i].field
  /\ phase = "closed" => patches = <<>>
  /\ phase = "patching" => patches \in Remaining(format, Len(file))

IInv == Shape /\ Places /\ Room /\ Order /\ Layout /\ Sizes /\ Patching

LEMMA InitIInv == Init => IInv
<1>. SUFFICES ASSUME Init PROVE IInv
  OBVIOUS
<1>1. /\ format \in Formats /\ file = <<>> /\ pos = 0 /\ view = 0 /\ buf = <<>> /\ todo = <<>>
      /\ handed = 0 /\ fail = FALSE /\ bad = FALSE /\ phase = "creating" /\ faults = 0
  BY DEF Init
<1>2. fail \in BOOLEAN /\ bad \in BOOLEAN
  BY <1>1
<1>3. Shape
  BY <1>1, <1>2, Sizing DEF Shape
<1>4. Places /\ Room /\ Order /\ Patching
  BY <1>1 DEF Places, Room, Order, Patching
<1>5. Layout /\ Sizes
  BY <1>1 DEF Layout, Sizes
<1>. QED
  BY <1>3, <1>4, <1>5 DEF IInv

-----------------------------------------------------------------------------
(* Writes of the device at the end of the file.                            *)

LEMMA AppendFacts ==
  ASSUME NEW S, NEW old \in Seq(S), NEW new \in Seq(S)
  PROVE  /\ Overwrite(old, Len(old), new) \in Seq(S)
         /\ Len(Overwrite(old, Len(old), new)) = Len(old) + Len(new)
         /\ \A i \in 1..(Len(old) + Len(new)) :
              Overwrite(old, Len(old), new)[i] = IF i <= Len(old) THEN old[i] ELSE new[i - Len(old)]
<1>. DEFINE f == Overwrite(old, Len(old), new)
<1>1. Len(old) \in 0..Len(old) /\ Len(new) \in Nat
  OBVIOUS
<1>2. /\ f \in Seq(S)
      /\ Len(f) = Larger(Len(old), Len(old) + Len(new))
      /\ \A i \in 1..Len(f) :
           f[i] = IF i <= Len(old) THEN old[i]
                  ELSE IF i <= Len(old) + Len(new) THEN new[i - Len(old)] ELSE old[i]
  BY <1>1, OverwriteFacts
<1>. HIDE DEF f
<1>3. Len(f) = Len(old) + Len(new)
  BY <1>1, <1>2 DEF Larger
<1>4. \A i \in 1..(Len(old) + Len(new)) : f[i] = IF i <= Len(old) THEN old[i] ELSE new[i - Len(old)]
  BY <1>1, <1>2, <1>3
<1>. QED
  BY <1>2, <1>3, <1>4 DEF f

\* The file gets the first m cells of new, and the descriptor is behind them.
Extended(m, new) ==
  /\ file' \in Seq(Cells)
  /\ Len(file') = Len(file) + m
  /\ \A i \in 1..(Len(file) + m) : file'[i] = IF i <= Len(file) THEN file[i] ELSE new[i - Len(file)]
  /\ pos' = Len(file) + m

LEMMA DeviceExtends ==
  ASSUME file \in Seq(Cells), NEW new \in Seq(Cells), faults \in 0..MaxFaults,
         DeviceTakes(Len(file), new) \/ DeviceThrows(Len(file), new)
  PROVE  \E m \in 0..Len(new) :
           /\ Extended(m, new)
           /\ faults' \in 0..MaxFaults
           /\ \/ faults' = faults /\ m = Len(new)
              \/ faults' = faults + 1 /\ m < Len(new)
<1>1. CASE DeviceTakes(Len(file), new)
  <2>1. file' = Overwrite(file, Len(file), new) /\ pos' = Len(file) + Len(new) /\ faults' = faults
    BY <1>1 DEF DeviceTakes
  <2>2. Extended(Len(new), new)
    BY <2>1, AppendFacts DEF Extended
  <2>. QED
    BY <2>1, <2>2
<1>2. CASE DeviceThrows(Len(file), new)
  <2>1. PICK m \in 0..(Len(new) - 1) :
          file' = Overwrite(file, Len(file), SubSeq(new, 1, m)) /\ pos' = Len(file) + m
    BY <1>2 DEF DeviceThrows
  <2>. DEFINE part == SubSeq(new, 1, m)
  <2>2. \A i \in 1..m : new[i] \in Cells
    BY <2>1
  <2>3. /\ part \in Seq(Cells)
        /\ Len(part) = IF 1 <= m THEN m - 1 + 1 ELSE 0
        /\ \A i \in 1..(m - 1 + 1) : part[i] = new[1 + i - 1]
    BY <2>1, <2>2, SubSeqProperties
  <2>. HIDE DEF part
  <2>4. Len(part) = m /\ \A i \in 1..m : part[i] = new[i]
    BY <2>1, <2>3
  <2>5. /\ Overwrite(file, Len(file), part) \in Seq(Cells)
        /\ Len(Overwrite(file, Len(file), part)) = Len(file) + Len(part)
        /\ \A i \in 1..(Len(file) + Len(part)) :
             Overwrite(file, Len(file), part)[i] = IF i <= Len(file) THEN file[i] ELSE part[i - Len(file)]
    BY <2>3, AppendFacts
  <2>6. \A i \in 1..(Len(file) + m) : ~(i <= Len(file)) => part[i - Len(file)] = new[i - Len(file)]
    BY <2>1, <2>4
  <2>7. file' = Overwrite(file, Len(file), part)
    BY <2>1 DEF part
  <2>8. Extended(m, new)
    BY <2>1, <2>4, <2>5, <2>6, <2>7 DEF Extended
  <2>9. faults' = faults + 1 /\ faults < MaxFaults
    BY <1>2 DEF DeviceThrows
  <2>. QED
    BY <2>1, <2>8, <2>9, Sizing
<1>. QED
  BY <1>1, <1>2

LEMMA WhereTheSinkWrites ==
  ASSUME NEW p \in Int, NEW v \in Int, v <= p, p <= MaxPos
  PROVE  SinkSeek(p, v, 0, "cur") = p
BY Sizing DEF SinkSeek, AbsolutePosition, AnchorOf, Clamp

LEMMA WherePatchesGo ==
  ASSUME NEW p \in Int, NEW at \in Nat, at <= MaxPos
  PROVE  SinkSeek(p, 0, at, "beg") = at
BY Sizing DEF SinkSeek, AbsolutePosition, AnchorOf, Clamp

\* While PCM is written the sink writes at the end of the file.
LEMMA SinkIsAtEnd ==
  ASSUME IInv, phase \in {"open", "synced"}
  PROVE  /\ SinkSeek(pos, view, 0, "cur") = Len(file)
         /\ Len(file) + Len(buf) <= MaxPos
<1>1. /\ faults \in 0..MaxFaults /\ handed \in 0..MaxBytes
      /\ file \in Seq(Cells) /\ buf \in Seq(Nat) /\ todo \in Seq(Nat)
      /\ H \in 44..58
  BY HeaderLengths DEF IInv, Shape, H
<1>2. pos = Len(file) /\ view = H /\ Len(file) >= H
  BY DEF IInv, Places
<1>3. Len(file) + Len(buf) + Len(todo) <= H + handed + faults * BufBytes
  BY DEF IInv, Room
<1>4. Len(file) \in Nat /\ Len(buf) \in Nat /\ Len(todo) \in Nat
  BY <1>1
<1>5. \A x, y, b \in Nat : x <= y => x * b <= y * b /\ x * b \in Nat
  OBVIOUS
<1>6. faults * BufBytes <= MaxFaults * BufBytes /\ faults * BufBytes \in Nat
  BY <1>1, <1>5, Sizing
<1>. DEFINE left == faults * BufBytes
            most == MaxFaults * BufBytes
<1>7. /\ left \in Nat /\ most \in Nat /\ left <= most
      /\ MaxPos \in Nat /\ MaxPos > 58 + MaxBytes + most /\ MaxBytes \in Nat
      /\ Len(file) + Len(buf) + Len(todo) <= H + handed + left
  BY <1>3, <1>6, Sizing
<1>. HIDE DEF left, most
<1>8. Len(file) + Len(buf) <= MaxPos
  BY <1>1, <1>4, <1>7
<1>9. Len(file) <= MaxPos /\ H \in Int /\ Len(file) \in Int
  BY <1>1, <1>4, <1>7, <1>8
<1>10. SinkSeek(Len(file), H, 0, "cur") = Len(file)
  BY <1>2, <1>9, WhereTheSinkWrites
<1>. QED
  BY <1>2, <1>8, <1>10

-----------------------------------------------------------------------------
(* The steps.                                                              *)

LEMMA PcmCellFacts ==
  ASSUME NEW ids \in Seq(Nat)
  PROVE  /\ PcmCells(ids) \in Seq(Cells)
         /\ Len(PcmCells(ids)) = Len(ids)
         /\ \A i \in 1..Len(ids) : PcmCells(ids)[i].field = "pcm" /\ PcmCells(ids)[i].value = ids[i]
<1>1. \A i \in 1..Len(ids) : ids[i] \in Nat /\ Cell("pcm", ids[i], 0) \in Cells
  BY DEF Cell, Cells
<1>2. PcmCells(ids) = [i \in 1..Len(ids) |-> Cell("pcm", ids[i], 0)]
  BY DEF PcmCells
<1>3. PcmCells(ids) \in [1..Len(ids) -> Cells] /\ Len(ids) \in Nat
  BY <1>1, <1>2
<1>4. PcmCells(ids) \in Seq(Cells) /\ Len(PcmCells(ids)) = Len(ids)
  BY <1>3
<1>. QED
  BY <1>1, <1>2, <1>4 DEF Cell

\* The buffer goes to the file, all of it or a part.
LEMMA FlushKeepsIInv ==
  ASSUME IInv, phase = "open", NEW m \in 0..Len(buf), Extended(m, PcmCells(buf)),
         UNCHANGED <<format, view, handed, patches>>,
         phase' \in {"open", "synced"}, faults' \in 0..MaxFaults,
         fail' \in BOOLEAN, bad' \in BOOLEAN,
         \/ faults' = faults /\ m = Len(buf) /\ buf' = <<>> /\ todo' = todo
         \/ faults' = faults + 1 /\ buf' \in {buf, <<>>} /\ todo' \in {todo, <<>>}
  PROVE  IInv'
<1>1. /\ file \in Seq(Cells) /\ buf \in Seq(Nat) /\ todo \in Seq(Nat)
      /\ Len(buf) <= BufBytes /\ handed \in 0..MaxBytes /\ faults \in 0..MaxFaults
      /\ format \in Formats /\ view \in {0, H} /\ H \in 44..58 /\ H' = H
  BY HeaderLengths DEF IInv, Shape, H
<1>2. /\ Len(file) \in Nat /\ Len(buf) \in Nat /\ Len(todo) \in Nat /\ m \in Nat
      /\ view = H /\ pos = Len(file) /\ Len(file) >= H
  BY <1>1 DEF IInv, Places
<1>3. /\ file' \in Seq(Cells) /\ Len(file') = Len(file) + m /\ pos' = Len(file) + m
      /\ \A i \in 1..(Len(file) + m) :
           file'[i] = IF i <= Len(file) THEN file[i] ELSE PcmCells(buf)[i - Len(file)]
  BY DEF Extended
<1>4. \A i \in 1..Len(buf) : PcmCells(buf)[i].field = "pcm" /\ PcmCells(buf)[i].value = buf[i]
  BY <1>1, PcmCellFacts
<1>5. (buf' = buf \/ buf' = <<>>) /\ (todo' = todo \/ todo' = <<>>)
  OBVIOUS
<1>6. Shape'
  <2>1. pos' \in 0..MaxPos
    BY <1>2, <1>3, SinkIsAtEnd, Sizing
  <2>2. buf' \in Seq(Nat) /\ todo' \in Seq(Nat) /\ Len(buf') <= BufBytes
    <3>1. <<>> \in Seq(Nat) /\ Len(<<>>) = 0 /\ BufBytes \in Nat
      BY Sizing
    <3>2. buf' \in Seq(Nat) /\ Len(buf') <= BufBytes
      <4>1. CASE buf' = buf
        BY <1>1, <4>1
      <4>2. CASE buf' = <<>>
        BY <3>1, <4>2
      <4>. QED
        BY <1>5, <4>1, <4>2
    <3>3. todo' \in Seq(Nat)
      BY <1>1, <1>5, <3>1
    <3>. QED
      BY <3>2, <3>3
  <2>. QED
    BY <1>1, <1>3, <2>1, <2>2 DEF Shape
<1>7. Places'
  BY <1>1, <1>2, <1>3 DEF Places
<1>8. Room'
  <2>. DEFINE left == faults * BufBytes
  <2>1. Len(file) + Len(buf) + Len(todo) <= H + handed + left
    BY DEF IInv, Room
  <2>2. left \in Nat /\ (faults + 1) * BufBytes = left + BufBytes /\ BufBytes \in Nat
    BY <1>1, Sizing
  <2>3. Len(buf') \in {Len(buf), 0} /\ Len(todo') \in {Len(todo), 0}
    BY <1>5
  <2>. DEFINE left1 == faults' * BufBytes
  <2>4. left1 = IF faults' = faults THEN left ELSE left + BufBytes
    BY <1>1, <2>2
  <2>5. \/ left1 = left /\ m = Len(buf) /\ Len(buf') = 0 /\ Len(todo') = Len(todo)
        \/ left1 = left + BufBytes
    BY <1>1, <2>4
  <2>. HIDE DEF left, left1
  <2>6. Len(file) + m + Len(buf') + Len(todo') <= H + handed + left1
    BY <1>1, <1>2, <2>1, <2>2, <2>3, <2>5, SMTT(30)
  <2>. QED
    BY <1>1, <1>3, <2>6 DEF Room, left1
<1>9. Order'
  <2>. SUFFICES ASSUME faults' = 0 PROVE Order'
    BY DEF Order
  <2>1. faults = 0 /\ m = Len(buf) /\ buf' = <<>> /\ todo' = todo
    BY <1>1
  <2>. DEFINE s == Len(file) - H
              s1 == s + Len(buf)
  <2>2. s \in Nat /\ Sound = s /\ Sound' = s1
    BY <1>1, <1>2, <1>3, <2>1 DEF Sound
  <2>3. /\ \A i \in 1..s : file[H + i].value = i
        /\ \A i \in 1..Len(buf) : buf[i] = s + i
        /\ \A i \in 1..Len(todo) : todo[i] = s + Len(buf) + i
        /\ s + Len(buf) + Len(todo) = handed
    BY <2>1, <2>2 DEF IInv, Order
  <2>4. ASSUME NEW q \in 1..(Len(file) + m), q > H
        PROVE  file'[q].value = q - H
    <3>1. CASE q <= Len(file)
      <4>1. q - H \in 1..s /\ H + (q - H) = q
        BY <1>1, <1>2, <2>4, <3>1
      <4>2. file[q].value = q - H
        BY <2>3, <4>1
      <4>. QED
        BY <1>3, <3>1, <4>2
    <3>2. CASE q > Len(file)
      <4>1. q - Len(file) \in 1..Len(buf) /\ s + (q - Len(file)) = q - H /\ ~(q <= Len(file))
        BY <1>1, <1>2, <2>1, <3>2
      <4>2. file'[q] = PcmCells(buf)[q - Len(file)]
        BY <1>3, <4>1
      <4>3. file'[q].value = buf[q - Len(file)]
        BY <1>4, <4>1, <4>2
      <4>. QED
        BY <2>3, <4>1, <4>3
    <3>. QED
      BY <1>2, <3>1, <3>2
  <2>5. \A i \in 1..s1 : file'[H + i].value = i
    <3>1. \A i \in 1..s1 : H + i \in 1..(Len(file) + m) /\ H + i > H /\ (H + i) - H = i
      BY <1>1, <1>2, <2>1
    <3>. QED
      BY <2>4, <3>1
  <2>. HIDE DEF s, s1
  <2>6. s1 = s + Len(buf) /\ Len(buf') = 0 /\ handed' = handed
    BY <2>1 DEF s1
  <2>. QED
    BY <1>1, <1>2, <2>1, <2>2, <2>3, <2>5, <2>6 DEF Order
<1>10. \A i \in 1..(Len(file) + m) :
         \/ i <= Len(file) /\ file'[i] = file[i]
         \/ i > Len(file) /\ i > H /\ file'[i].field = "pcm"
  <2>1. ASSUME NEW i \in 1..(Len(file) + m), i > Len(file)
        PROVE  i > H /\ file'[i].field = "pcm"
    <3>1. i > H /\ i - Len(file) \in 1..Len(buf) /\ ~(i <= Len(file))
      BY <1>1, <1>2, <2>1, SMTT(30)
    <3>2. file'[i] = PcmCells(buf)[i - Len(file)]
      BY <1>3, <3>1
    <3>. QED
      BY <1>4, <3>1, <3>2
  <2>2. \A i \in 1..(Len(file) + m) : i <= Len(file) => file'[i] = file[i]
    BY <1>3
  <2>. QED
    BY <1>2, <2>1, <2>2
<1>11. Layout'
  <2>1. \A i \in 1..Len(file) : file[i].field = IF i <= H THEN FieldAt(format, i) ELSE "pcm"
    BY DEF IInv, Layout
  <2>2. \A i \in 1..(Len(file) + m) : file'[i].field = IF i <= H THEN FieldAt(format, i) ELSE "pcm"
    BY <1>1, <1>2, <1>10, <2>1
  <2>. QED
    BY <1>1, <1>3, <2>2 DEF Layout
<1>12. Sizes'
  <2>1. \A i \in 1..Len(file) : file[i].field \in Names => file[i].value = 0
    BY DEF IInv, Sizes
  <2>2. \A i \in 1..(Len(file) + m) : file'[i].field \in Names => file'[i].value = 0
    BY <1>2, <1>10, <2>1 DEF Names
  <2>. QED
    BY <1>3, <2>2 DEF Sizes
<1>13. Patching'
  BY DEF Patching
<1>. QED
  BY <1>6, <1>7, <1>8, <1>9, <1>11, <1>12, <1>13 DEF IInv

LEMMA OverflowKeepsIInv == IInv /\ Overflow => IInv'
<1>. SUFFICES ASSUME IInv, Overflow PROVE IInv'
  OBVIOUS
<1>1. /\ phase = "open" /\ phase' = phase /\ UNCHANGED <<format, view, handed, fail, patches>>
      /\ SinkSeek(pos, view, 0, "cur") = Len(file)
  BY SinkIsAtEnd DEF Overflow
<1>2. \/ DeviceTakes(Len(file), PcmCells(buf)) /\ buf' = <<>> /\ UNCHANGED <<todo, bad>>
      \/ DeviceThrows(Len(file), PcmCells(buf)) /\ bad' = TRUE /\ todo' = <<>> /\ UNCHANGED buf
  BY <1>1 DEF Overflow
<1>3. /\ file \in Seq(Cells) /\ faults \in 0..MaxFaults /\ fail' \in BOOLEAN /\ bad \in BOOLEAN
      /\ PcmCells(buf) \in Seq(Cells) /\ Len(PcmCells(buf)) = Len(buf)
  BY <1>1, PcmCellFacts DEF IInv, Shape
<1>4. bad' \in BOOLEAN
  BY <1>2, <1>3
<1>5. PICK m \in 0..Len(buf) :
        /\ Extended(m, PcmCells(buf)) /\ faults' \in 0..MaxFaults
        /\ \/ faults' = faults /\ m = Len(buf)
           \/ faults' = faults + 1 /\ m < Len(buf)
  BY <1>2, <1>3, DeviceExtends
<1>6. CASE DeviceTakes(Len(file), PcmCells(buf)) /\ buf' = <<>> /\ UNCHANGED <<todo, bad>>
  <2>1. faults' = faults /\ ~(faults' = faults + 1)
    BY <1>3, <1>6 DEF DeviceTakes
  <2>. QED
    BY <1>1, <1>3, <1>4, <1>5, <1>6, <2>1, FlushKeepsIInv
<1>7. CASE DeviceThrows(Len(file), PcmCells(buf)) /\ bad' = TRUE /\ todo' = <<>> /\ UNCHANGED buf
  <2>1. faults' = faults + 1
    BY <1>7 DEF DeviceThrows
  <2>. QED
    BY <1>1, <1>3, <1>4, <1>5, <1>7, <2>1, FlushKeepsIInv
<1>. QED
  BY <1>2, <1>6, <1>7

LEMMA SyncKeepsIInv ==
  ASSUME IInv, phase = "open", Sync, buf' = <<>>, phase' \in {"open", "synced"},
         UNCHANGED <<format, view, todo, handed, fail, bad, patches>>
  PROVE  IInv'
<1>1. SinkSeek(pos, view, 0, "cur") = Len(file)
  BY SinkIsAtEnd
<1>2. /\ file \in Seq(Cells) /\ faults \in 0..MaxFaults
      /\ PcmCells(buf) \in Seq(Cells) /\ Len(PcmCells(buf)) = Len(buf)
      /\ Len(file) \in Nat /\ pos = Len(file)
  BY PcmCellFacts DEF IInv, Shape, Places
<1>3. fail' \in BOOLEAN /\ bad' \in BOOLEAN
  BY DEF IInv, Shape
<1>4. CASE buf = <<>> /\ UNCHANGED <<file, pos, faults>>
  <2>1. Len(buf) = 0 /\ 0 \in 0..Len(buf) /\ faults' \in 0..MaxFaults /\ faults' = faults
    BY <1>2, <1>4
  <2>2. Len(file') = Len(file) /\ file' \in Seq(Cells) /\ pos' = Len(file)
    BY <1>2, <1>4
  <2>3. \A i \in 1..(Len(file) + 0) : i <= Len(file) /\ file'[i] = file[i]
    BY <1>2, <1>4
  <2>4. Extended(0, PcmCells(buf))
    BY <1>2, <2>2, <2>3 DEF Extended
  <2>. QED
    BY <1>3, <2>1, <2>4, FlushKeepsIInv
<1>5. CASE \/ DeviceTakes(Len(file), PcmCells(buf))
           \/ DeviceThrows(Len(file), PcmCells(buf))
  <2>1. PICK m \in 0..Len(buf) :
          /\ Extended(m, PcmCells(buf)) /\ faults' \in 0..MaxFaults
          /\ \/ faults' = faults /\ m = Len(buf)
             \/ faults' = faults + 1 /\ m < Len(buf)
    BY <1>2, <1>5, DeviceExtends
  <2>. QED
    BY <1>3, <2>1, FlushKeepsIInv
<1>. QED
  BY <1>1, <1>4, <1>5 DEF Sync

\* Steps that leave the file as it is, and the close where it is.
LEMMA FileUntouched ==
  ASSUME IInv, UNCHANGED <<format, file, pos, view, patches>>, faults' = faults, phase' # "creating",
         \/ phase = "open" /\ phase' = "open"
         \/ phase # "creating" /\ phase' = "killed"
  PROVE  Layout' /\ Sizes' /\ Patching' /\ Places'
<1>1. Layout'
  BY DEF IInv, Layout, H
<1>2. Sizes'
  <2>1. \A i \in 1..Len(file) : file[i].field \in Names =>
          \/ file[i].value = 0
          \/ /\ phase \in {"patching", "closed", "broken", "killed"}
             /\ Len(file) >= H
             /\ file[i].value = Final(format, Len(file), file[i].field)
    BY DEF IInv, Sizes
  <2>2. H' = H
    BY DEF H
  <2>. QED
    BY <2>1, <2>2 DEF Sizes
<1>3. Patching'
  BY DEF Patching
<1>4. Places'
  BY DEF IInv, Places, H
<1>. QED
  BY <1>1, <1>2, <1>3, <1>4

LEMMA WriteKeepsIInv ==
  ASSUME IInv, NEW n \in WriteSizes, Write(n)
  PROVE  IInv'
<1>1. /\ phase = "open" /\ phase' = "open" /\ todo = <<>> /\ handed + n <= MaxBytes
      /\ todo' = [i \in 1..n |-> handed + i] /\ handed' = handed + n
      /\ UNCHANGED <<format, file, pos, view, buf, fail, bad, patches, faults>>
  BY DEF Write
<1>2. /\ file \in Seq(Cells) /\ buf \in Seq(Nat) /\ n \in Nat /\ handed \in Nat
      /\ MaxBytes \in Nat /\ Len(buf) \in Nat /\ Len(file) \in Nat /\ faults \in 0..MaxFaults
  BY Sizing DEF IInv, Shape
<1>3. todo' \in [1..n -> Nat] /\ Len(todo) = 0
  BY <1>1, <1>2
<1>4. todo' \in Seq(Nat) /\ Len(todo') = n /\ \A i \in 1..n : todo'[i] = handed + i
  BY <1>1, <1>2, <1>3
<1>5. H' = H /\ H \in 44..58 /\ Sound' = Sound /\ Sound \in Nat
  <2>1. H' = H /\ H \in 44..58
    BY <1>1, HeaderLengths DEF H, IInv, Shape
  <2>. QED
    BY <1>1, <1>2, <2>1 DEF Sound
<1>6. Shape'
  <2>1. handed' \in 0..MaxBytes
    BY <1>1, <1>2
  <2>2. fail' \in BOOLEAN /\ bad' \in BOOLEAN
    BY <1>1 DEF IInv, Shape
  <2>. QED
    BY <1>1, <1>4, <1>5, <2>1, <2>2 DEF IInv, Shape
<1>7. Room'
  <2>. DEFINE left == faults * BufBytes
  <2>1. left \in Nat /\ Len(file) + Len(buf) + Len(todo) <= H + handed + left /\ faults' * BufBytes = left
    BY <1>1, <1>2, Sizing DEF IInv, Room
  <2>. HIDE DEF left
  <2>2. Len(file) + Len(buf) + n <= H + (handed + n) + left
    BY <1>2, <1>3, <1>5, <2>1
  <2>. QED
    BY <1>1, <1>4, <1>5, <2>1, <2>2 DEF Room
<1>8. Order'
  <2>. SUFFICES ASSUME faults' = 0 PROVE Order'
    BY DEF Order
  <2>1. /\ \A i \in 1..Sound : file[H + i].value = i
        /\ \A i \in 1..Len(buf) : buf[i] = Sound + i
        /\ Sound + Len(buf) + Len(todo) = handed
    BY <1>1 DEF IInv, Order
  <2>2. Sound + Len(buf) = handed
    BY <1>2, <1>3, <1>5, <2>1
  <2>. QED
    BY <1>1, <1>2, <1>4, <1>5, <2>1, <2>2 DEF Order
<1>9. Layout' /\ Sizes' /\ Patching' /\ Places'
  <2>1. UNCHANGED <<format, file, pos, view, patches>> /\ faults' = faults /\ phase' # "creating"
    BY <1>1
  <2>. QED
    BY <1>1, <2>1, FileUntouched
<1>. QED
  BY <1>6, <1>7, <1>8, <1>9 DEF IInv

LEMMA StoreKeepsIInv == IInv /\ Store => IInv'
<1>. SUFFICES ASSUME IInv, Store PROVE IInv'
  OBVIOUS
<1>. DEFINE m == Smaller(Len(todo), BufBytes - Len(buf))
            front == SubSeq(todo, 1, m)
            back  == SubSeq(todo, m + 1, Len(todo))
<1>1. /\ phase = "open" /\ phase' = "open" /\ m > 0
      /\ buf' = buf \o front /\ todo' = back
      /\ UNCHANGED <<format, file, pos, view, handed, fail, bad, patches, faults>>
  BY DEF Store
<1>2. /\ file \in Seq(Cells) /\ buf \in Seq(Nat) /\ todo \in Seq(Nat)
      /\ Len(buf) \in Nat /\ Len(file) \in Nat /\ Len(todo) \in Nat /\ faults \in 0..MaxFaults
      /\ handed \in 0..MaxBytes /\ BufBytes \in Nat /\ Len(buf) <= BufBytes
  BY Sizing DEF IInv, Shape
<1>3. m \in 1..Len(todo) /\ m <= BufBytes - Len(buf)
  BY <1>1, <1>2 DEF Smaller
<1>. HIDE DEF m
<1>4. \A i \in 1..Len(todo) : todo[i] \in Nat
  BY <1>2
<1>5. front \in Seq(Nat) /\ Len(front) = m /\ \A i \in 1..m : front[i] = todo[i]
  <2>1. \A i \in 1..m : todo[i] \in Nat
    BY <1>2, <1>3, <1>4
  <2>2. /\ front \in Seq(Nat)
        /\ Len(front) = IF 1 <= m THEN m - 1 + 1 ELSE 0
        /\ \A i \in 1..(m - 1 + 1) : front[i] = todo[1 + i - 1]
    BY <1>3, <2>1, SubSeqProperties
  <2>. HIDE DEF front
  <2>. QED
    BY <1>3, <2>2
<1>6. back \in Seq(Nat) /\ Len(back) = Len(todo) - m /\ \A i \in 1..(Len(todo) - m) : back[i] = todo[m + i]
  <2>1. \A i \in (m + 1)..Len(todo) : todo[i] \in Nat
    BY <1>2, <1>3, <1>4
  <2>2. /\ back \in Seq(Nat)
        /\ Len(back) = IF m + 1 <= Len(todo) THEN Len(todo) - (m + 1) + 1 ELSE 0
        /\ \A i \in 1..(Len(todo) - (m + 1) + 1) : back[i] = todo[(m + 1) + i - 1]
    <3>. DEFINE q == m + 1
    <3>1. q \in Int
      BY <1>3
    <3>2. \A i \in q..Len(todo) : todo[i] \in Nat
      BY <2>1
    <3>. HIDE DEF q
    <3>3. /\ SubSeq(todo, q, Len(todo)) \in Seq(Nat)
          /\ Len(SubSeq(todo, q, Len(todo))) = IF q <= Len(todo) THEN Len(todo) - q + 1 ELSE 0
          /\ \A i \in 1..(Len(todo) - q + 1) : SubSeq(todo, q, Len(todo))[i] = todo[q + i - 1]
      BY <1>2, <3>1, <3>2, SubSeqProperties
    <3>. QED
      BY <3>3 DEF q
  <2>. HIDE DEF back
  <2>3. Len(back) = Len(todo) - m
    BY <1>2, <1>3, <2>2
  <2>4. \A i \in 1..(Len(todo) - m) : (m + 1) + i - 1 = m + i /\ i \in 1..(Len(todo) - (m + 1) + 1)
    BY <1>2, <1>3
  <2>. QED
    BY <2>2, <2>3, <2>4
<1>. HIDE DEF front, back
<1>7. buf' \in Seq(Nat) /\ Len(buf') = Len(buf) + m
      /\ \A i \in 1..(Len(buf) + m) : buf'[i] = IF i <= Len(buf) THEN buf[i] ELSE front[i - Len(buf)]
  BY <1>1, <1>2, <1>5, ConcatProperties
<1>8. H' = H /\ H \in 44..58 /\ Sound' = Sound /\ Sound \in Nat
  <2>1. H' = H /\ H \in 44..58
    BY <1>1, HeaderLengths DEF H, IInv, Shape
  <2>. QED
    BY <1>1, <1>2, <2>1 DEF Sound
<1>9. Shape'
  <2>1. fail' \in BOOLEAN /\ bad' \in BOOLEAN
    BY <1>1 DEF IInv, Shape
  <2>2. Len(buf') <= BufBytes
    BY <1>2, <1>3, <1>7
  <2>. QED
    BY <1>1, <1>6, <1>7, <1>8, <2>1, <2>2 DEF IInv, Shape
<1>10. Room'
  <2>. DEFINE left == faults * BufBytes
  <2>1. Len(file) + Len(buf) + Len(todo) <= H + handed + left /\ faults' * BufBytes = left
    BY <1>1, <1>2 DEF IInv, Room
  <2>2. left \in Nat
    BY <1>2
  <2>. HIDE DEF left
  <2>3. Len(file) + Len(buf') + Len(todo') <= H + handed + left
    BY <1>1, <1>2, <1>3, <1>6, <1>7, <1>8, <2>1, <2>2
  <2>. QED
    BY <1>1, <1>8, <2>1, <2>3 DEF Room
<1>11. Order'
  <2>. SUFFICES ASSUME faults' = 0 PROVE Order'
    BY DEF Order
  <2>1. /\ \A i \in 1..Sound : file[H + i].value = i
        /\ \A i \in 1..Len(buf) : buf[i] = Sound + i
        /\ \A i \in 1..Len(todo) : todo[i] = Sound + Len(buf) + i
        /\ Sound + Len(buf) + Len(todo) = handed
    BY <1>1 DEF IInv, Order
  <2>2. ASSUME NEW i \in 1..(Len(buf) + m) PROVE buf'[i] = Sound + i
    <3>1. CASE i <= Len(buf)
      <4>1. i \in 1..Len(buf)
        BY <1>2, <1>3, <3>1
      <4>2. buf'[i] = buf[i]
        BY <1>7, <3>1
      <4>. QED
        BY <2>1, <4>1, <4>2
    <3>2. CASE i > Len(buf)
      <4>1. i - Len(buf) \in 1..m /\ i - Len(buf) \in 1..Len(todo) /\ ~(i <= Len(buf))
            /\ Sound + Len(buf) + (i - Len(buf)) = Sound + i
        BY <1>2, <1>3, <1>8, <3>2
      <4>2. buf'[i] = front[i - Len(buf)]
        BY <1>7, <4>1
      <4>3. front[i - Len(buf)] = todo[i - Len(buf)]
        BY <1>5, <4>1
      <4>4. todo[i - Len(buf)] = Sound + Len(buf) + (i - Len(buf))
        BY <2>1, <4>1
      <4>. QED
        BY <4>1, <4>2, <4>3, <4>4
    <3>. QED
      BY <1>2, <1>3, <3>1, <3>2
  <2>3. ASSUME NEW i \in 1..(Len(todo) - m) PROVE todo'[i] = Sound + (Len(buf) + m) + i
    <3>1. m + i \in 1..Len(todo) /\ Sound + Len(buf) + (m + i) = Sound + (Len(buf) + m) + i
      BY <1>2, <1>3, <1>8
    <3>. QED
      BY <1>1, <1>6, <2>1, <3>1
  <2>4. Sound + (Len(buf) + m) + (Len(todo) - m) = handed
    <3>1. \A a, b, c, d \in Int : a + b + c = d => a + (b + m) + (c - m) = d
      BY <1>3
    <3>2. Sound + Len(buf) + Len(todo) = handed /\ handed \in Int /\ Sound \in Int
      BY <1>2, <1>8, <2>1
    <3>. QED
      BY <1>2, <3>1, <3>2
  <2>5. \A i \in 1..Sound : file'[H' + i].value = i
    BY <1>1, <1>8, <2>1
  <2>6. /\ \A i \in 1..Sound' : file'[H' + i].value = i
        /\ \A i \in 1..Len(buf') : buf'[i] = Sound' + i
    BY <1>7, <1>8, <2>2, <2>5
  <2>7. \A i \in 1..Len(todo') : todo'[i] = Sound' + Len(buf') + i
    <3>1. Len(todo') = Len(todo) - m /\ Sound' = Sound /\ Len(buf') = Len(buf) + m
      BY <1>1, <1>6, <1>7, <1>8
    <3>. QED
      BY <2>3, <3>1
  <2>8. Sound' + Len(buf') + Len(todo') = handed'
    BY <1>1, <1>6, <1>7, <1>8, <2>4
  <2>. QED
    BY <2>6, <2>7, <2>8 DEF Order
<1>12. Layout' /\ Sizes' /\ Patching' /\ Places'
  <2>1. UNCHANGED <<format, file, pos, view, patches>> /\ faults' = faults /\ phase' # "creating"
    BY <1>1
  <2>. QED
    BY <1>1, <2>1, FileUntouched
<1>. QED
  BY <1>9, <1>10, <1>11, <1>12 DEF IInv

\* Clear, a refused write, and a kill once there is a stream.
LEMMA QuietKeepsIInv ==
  ASSUME IInv, UNCHANGED <<format, file, pos, view, buf, todo, handed, patches, faults>>,
         fail' \in BOOLEAN, bad' \in BOOLEAN, phase # "creating",
         \/ phase = "open" /\ phase' = "open"
         \/ phase' = "killed"
  PROVE  IInv'
<1>1. H' = H
  BY DEF H
<1>2. Shape'
  BY <1>1 DEF IInv, Shape
<1>3. Room'
  BY <1>1 DEF IInv, Room
<1>4. Order'
  <2>1. Sound' = Sound
    BY <1>1 DEF Sound
  <2>. QED
    BY <1>1, <2>1 DEF IInv, Order
<1>5. faults' = faults /\ phase' # "creating"
  OBVIOUS
<1>. QED
  BY <1>2, <1>3, <1>4, <1>5, FileUntouched DEF IInv

LEMMA CreateKeepsIInv == IInv /\ Create => IInv'
<1>. SUFFICES ASSUME IInv, Create PROVE IInv'
  OBVIOUS
<1>1. /\ phase = "creating" /\ file = <<>> /\ pos = 0 /\ view = 0 /\ buf = <<>> /\ todo = <<>>
      /\ handed = 0 /\ faults = 0
      /\ UNCHANGED <<format, buf, todo, handed, fail, bad, patches>>
  BY DEF Create, IInv, Places
<1>. DEFINE new == Header(format)
<1>2. /\ H' = H /\ H \in 44..58 /\ new \in Seq(Cells) /\ Len(new) = H /\ format \in Formats
      /\ \A i \in 1..H : new[i].field = FieldAt(format, i) /\ (FieldAt(format, i) \in Names => new[i].value = 0)
  BY <1>1, HeaderLengths, HeaderFacts DEF IInv, Shape, H
<1>. HIDE DEF new
<1>3. file \in Seq(Cells) /\ Len(file) = 0 /\ faults \in 0..MaxFaults
  BY <1>1 DEF IInv, Shape
<1>4. DeviceTakes(Len(file), new) \/ DeviceThrows(Len(file), new)
  BY <1>1, <1>3 DEF Create, new
<1>5. PICK m \in 0..Len(new) :
        /\ Extended(m, new) /\ faults' \in 0..MaxFaults
        /\ \/ faults' = faults /\ m = Len(new)
           \/ faults' = faults + 1 /\ m < Len(new)
  BY <1>2, <1>3, <1>4, DeviceExtends
<1>6. m \in 0..H /\ file' \in Seq(Cells) /\ Len(file') = m /\ pos' = m
  BY <1>2, <1>3, <1>5 DEF Extended
<1>7. \A i \in 1..m : file'[i] = new[i]
  <2>1. \A i \in 1..m : i - Len(file) = i /\ ~(i <= Len(file)) /\ i \in 1..(Len(file) + m)
    BY <1>3, <1>6
  <2>2. \A i \in 1..(Len(file) + m) : file'[i] = IF i <= Len(file) THEN file[i] ELSE new[i - Len(file)]
    BY <1>5 DEF Extended
  <2>. QED
    BY <2>1, <2>2
<1>8. \/ /\ faults' = 0 /\ m = H /\ view' = H /\ phase' = "open"
      \/ /\ faults' = 1 /\ view' = 0 /\ phase' = "refused"
  <2>1. CASE DeviceTakes(pos, Header(format)) /\ view' = SinkSeek(pos', view, 0, "cur") /\ phase' = "open"
    <3>1. faults' = 0 /\ m = H
      BY <1>1, <1>2, <1>5, <2>1 DEF DeviceTakes
    <3>2. m <= MaxPos /\ m \in Int /\ 0 <= m
      BY <1>2, <1>6, Sizing
    <3>3. SinkSeek(m, 0, 0, "cur") = m
      BY <3>2, WhereTheSinkWrites
    <3>. QED
      BY <1>1, <1>6, <2>1, <3>1, <3>3
  <2>2. CASE DeviceThrows(pos, Header(format)) /\ phase' = "refused" /\ UNCHANGED view
    BY <1>1, <2>2 DEF DeviceThrows
  <2>. QED
    BY <2>1, <2>2 DEF Create
<1>9. Shape'
  <2>1. pos' \in 0..MaxPos
    BY <1>2, <1>6, Sizing
  <2>2. fail' \in BOOLEAN /\ bad' \in BOOLEAN
    BY <1>1 DEF IInv, Shape
  <2>3. view' \in {0, H} /\ phase' \in {"open", "refused"}
    BY <1>8
  <2>. QED
    BY <1>1, <1>2, <1>5, <1>6, <2>1, <2>2, <2>3 DEF IInv, Shape
<1>10. Places'
  BY <1>2, <1>6, <1>8 DEF Places
<1>11. Room'
  <2>. SUFFICES ASSUME phase' = "open" PROVE Room'
    BY <1>8 DEF Room
  <2>1. Len(file') = H /\ Len(buf') = 0 /\ Len(todo') = 0 /\ faults' = 0 /\ handed' = 0
    BY <1>1, <1>6, <1>8
  <2>2. 0 * BufBytes = 0
    BY Sizing
  <2>. QED
    BY <1>2, <2>1, <2>2 DEF Room
<1>12. Order'
  <2>1. Sound' = 0
    BY <1>2, <1>6 DEF Sound
  <2>2. Len(buf') = 0 /\ Len(todo') = 0 /\ handed' = 0
    BY <1>1
  <2>. QED
    BY <2>1, <2>2 DEF Order
<1>13. Layout'
  BY <1>1, <1>2, <1>6, <1>7 DEF Layout
<1>14. Sizes'
  <2>1. \A i \in 1..m : file'[i].field \in Names => file'[i].value = 0
    BY <1>2, <1>6, <1>7
  <2>. QED
    BY <1>6, <2>1 DEF Sizes
<1>15. Patching'
  BY <1>8 DEF Patching
<1>. QED
  BY <1>9, <1>10, <1>11, <1>12, <1>13, <1>14, <1>15 DEF IInv

LEMMA KillKeepsIInv == IInv /\ Kill => IInv'
<1>. SUFFICES ASSUME IInv, Kill PROVE IInv'
  OBVIOUS
<1>1. phase' = "killed" /\ UNCHANGED <<format, pos, view, buf, todo, handed, fail, bad, patches, faults>>
  BY DEF Kill
<1>2. fail' \in BOOLEAN /\ bad' \in BOOLEAN
  BY <1>1 DEF IInv, Shape
<1>3. CASE phase # "creating"
  BY <1>1, <1>2, <1>3, QuietKeepsIInv DEF Kill
<1>4. CASE phase = "creating"
  <2>1. PICK m \in 0..HeaderLen(format) : file' = SubSeq(Header(format), 1, m)
    BY <1>4 DEF Kill
  <2>. DEFINE new == Header(format)
  <2>2. /\ H' = H /\ H \in 44..58 /\ new \in Seq(Cells) /\ Len(new) = H /\ m \in 0..H
        /\ \A i \in 1..H : new[i].field = FieldAt(format, i) /\ (FieldAt(format, i) \in Names => new[i].value = 0)
    BY <1>1, HeaderLengths, HeaderFacts DEF IInv, Shape, H
  <2>. HIDE DEF new
  <2>3. \A i \in 1..m : new[i] \in Cells
    BY <2>2
  <2>4. /\ SubSeq(new, 1, m) \in Seq(Cells)
        /\ Len(SubSeq(new, 1, m)) = IF 1 <= m THEN m - 1 + 1 ELSE 0
        /\ \A i \in 1..(m - 1 + 1) : SubSeq(new, 1, m)[i] = new[1 + i - 1]
    BY <2>2, <2>3, SubSeqProperties
  <2>5. file' = SubSeq(new, 1, m)
    BY <2>1 DEF new
  <2>6. file' \in Seq(Cells) /\ Len(file') = m /\ \A i \in 1..m : file'[i] = new[i]
    BY <2>2, <2>4, <2>5
  <2>7. buf = <<>> /\ todo = <<>> /\ handed = 0
    BY <1>4 DEF IInv, Places
  <2>8. Shape'
    BY <1>1, <1>2, <2>2, <2>6 DEF IInv, Shape
  <2>9. Order'
    <3>1. Sound' = 0
      BY <2>2, <2>6 DEF Sound
    <3>2. Len(buf') = 0 /\ Len(todo') = 0 /\ handed' = 0
      BY <1>1, <2>7
    <3>. QED
      BY <3>1, <3>2 DEF Order
  <2>10. Layout'
    BY <1>1, <2>2, <2>6 DEF Layout
  <2>11. Sizes'
    <3>1. \A i \in 1..m : file'[i].field \in Names => file'[i].value = 0
      BY <2>2, <2>6
    <3>. QED
      BY <2>6, <3>1 DEF Sizes
  <2>12. Places' /\ Room' /\ Patching'
    BY <1>1 DEF Places, Room, Patching
  <2>. QED
    BY <2>8, <2>9, <2>10, <2>11, <2>12 DEF IInv
<1>. QED
  BY <1>3, <1>4

\* close computes the sizes of the whole file, and patches every size of the header.
LEMMA PatchesAreFinal ==
  ASSUME NEW f \in Formats, NEW n \in Nat
  PROVE  /\ Patches(f, Uint32(n)) \in Remaining(f, n)
         /\ \A i \in 1..HeaderLen(f) : FieldAt(f, i) \in Names =>
              \E j \in 1..Len(Patches(f, Uint32(n))) : Patches(f, Uint32(n))[j].field = FieldAt(f, i)
<1>1. f = "wav" \/ f = "aiff"
  BY Sizing
<1>2. CASE f = "wav"
  <2>. DEFINE a == Patch(f, n, 4, "whole")
              b == Patch(f, n, 40, "data")
  <2>1. Patches(f, Uint32(n)) = <<a, b>>
    BY <1>2 DEF Patches, Patch, Final
  <2>2. a.field = "whole" /\ b.field = "data"
    BY DEF Patch
  <2>3. Remaining(f, n) = {<<a, b>>, <<b>>, <<>>}
    BY <1>2 DEF Remaining
  <2>. HIDE DEF a, b
  <2>4. \A i \in 1..HeaderLen(f) : FieldAt(f, i) \in Names => FieldAt(f, i) \in {"whole", "data"}
    BY <1>2 DEF FieldAt, Names
  <2>5. Len(<<a, b>>) = 2 /\ <<a, b>>[1] = a /\ <<a, b>>[2] = b /\ 1 \in 1..2 /\ 2 \in 1..2
    OBVIOUS
  <2>. QED
    BY <2>1, <2>2, <2>3, <2>4, <2>5
<1>3. CASE f = "aiff"
  <2>. DEFINE a == Patch(f, n, 4, "whole")
              b == Patch(f, n, 22, "frames")
              c == Patch(f, n, 46, "data")
  <2>1. Patches(f, Uint32(n)) = <<a, b, c>>
    BY <1>3 DEF Patches, Patch, Final
  <2>2. a.field = "whole" /\ b.field = "frames" /\ c.field = "data"
    BY DEF Patch
  <2>3. Remaining(f, n) = {<<a, b, c>>, <<b, c>>, <<c>>, <<>>}
    BY <1>3 DEF Remaining
  <2>. HIDE DEF a, b, c
  <2>4. Len(<<a, b, c>>) = 3 /\ <<a, b, c>>[1] = a /\ <<a, b, c>>[2] = b /\ <<a, b, c>>[3] = c
        /\ 1 \in 1..3 /\ 2 \in 1..3 /\ 3 \in 1..3
    OBVIOUS
  <2>. QED
    BY <2>1, <2>2, <2>3, <2>4 DEF Names
<1>. QED
  BY <1>1, <1>2, <1>3

LEMMA CloseSinkKeepsIInv == IInv /\ CloseSink => IInv'
<1>. SUFFICES ASSUME IInv, CloseSink PROVE IInv'
  OBVIOUS
<1>1. /\ phase = "synced" /\ phase' = "patching" /\ view' = 0
      /\ pos' = SinkSeek(pos, view', 0, "cur") /\ patches' = Patches(format, Uint32(pos'))
      /\ UNCHANGED <<format, file, buf, todo, handed, fail, bad, faults>>
  BY DEF CloseSink
<1>2. /\ file \in Seq(Cells) /\ Len(file) \in Nat /\ pos = Len(file) /\ pos \in 0..MaxPos /\ MaxPos \in Nat
      /\ Len(file) >= H /\ format \in Formats /\ H' = H /\ H \in 44..58
  <2>1. pos = Len(file) /\ Len(file) >= H
    BY <1>1 DEF IInv, Places
  <2>2. file \in Seq(Cells) /\ pos \in 0..MaxPos /\ MaxPos \in Nat /\ format \in Formats
    BY Sizing DEF IInv, Shape
  <2>3. H' = H /\ H \in 44..58 /\ Len(file) \in Nat
    BY <1>1, <2>2, HeaderLengths DEF H
  <2>. QED
    BY <2>1, <2>2, <2>3
<1>3. pos' = Len(file)
  BY <1>1, <1>2, WhereTheSinkWrites
<1>. DEFINE n == Len(file)
<1>4. /\ patches' \in Remaining(format, n)
      /\ \A i \in 1..H : FieldAt(format, i) \in Names =>
           \E j \in 1..Len(patches') : patches'[j].field = FieldAt(format, i)
  BY <1>1, <1>2, <1>3, PatchesAreFinal DEF H
<1>5. /\ \A i \in 1..n : file[i].field = IF i <= H THEN FieldAt(format, i) ELSE "pcm"
      /\ \A i \in 1..n : file[i].field \in Names => file[i].value = 0
  BY <1>1 DEF IInv, Layout, Sizes
<1>6. Shape'
  <2>1. fail' \in BOOLEAN /\ bad' \in BOOLEAN
    BY <1>1 DEF IInv, Shape
  <2>. QED
    BY <1>1, <1>2, <1>3, <2>1 DEF IInv, Shape
<1>7. Places' /\ Room'
  BY <1>1, <1>2, <1>3 DEF Places, Room
<1>8. Order'
  <2>1. Sound' = Sound
    BY <1>1, <1>2 DEF Sound
  <2>. QED
    BY <1>1, <1>2, <2>1 DEF IInv, Order
<1>9. Layout' /\ Sizes'
  BY <1>1, <1>2, <1>5 DEF Layout, Sizes
<1>10. Patching'
  <2>1. \A i \in 1..n : file[i].field \in Names => \E j \in 1..Len(patches') : patches'[j].field = file[i].field
    <3>1. ASSUME NEW i \in 1..n, file[i].field \in Names
          PROVE  i \in 1..H /\ file[i].field = FieldAt(format, i)
      BY <1>2, <1>5, <3>1 DEF Names
    <3>. QED
      BY <1>4, <3>1
  <2>2. file' = file /\ format' = format
    BY <1>1
  <2>. QED
    BY <1>1, <1>4, <2>1, <2>2 DEF Patching
<1>. QED
  BY <1>6, <1>7, <1>8, <1>9, <1>10 DEF IInv

LEMMA CloseFileKeepsIInv == IInv /\ CloseFile => IInv'
<1>. SUFFICES ASSUME IInv, CloseFile PROVE IInv'
  OBVIOUS
<1>1. /\ phase = "patching" /\ patches = <<>> /\ phase' = "closed"
      /\ UNCHANGED <<format, file, pos, view, buf, todo, handed, fail, bad, patches, faults>>
  BY DEF CloseFile
<1>2. H' = H /\ Sound' = Sound
  BY <1>1 DEF H, Sound
<1>3. Shape'
  <2>1. fail' \in BOOLEAN /\ bad' \in BOOLEAN
    BY <1>1 DEF IInv, Shape
  <2>. QED
    BY <1>1, <1>2, <2>1 DEF IInv, Shape
<1>4. Places' /\ Room'
  BY <1>1, <1>2 DEF IInv, Places, Room
<1>5. Order'
  BY <1>1, <1>2 DEF IInv, Order
<1>6. Layout'
  BY <1>1, <1>2 DEF IInv, Layout
<1>7. Sizes'
  BY <1>1, <1>2 DEF IInv, Sizes
<1>8. Patching'
  BY <1>1 DEF IInv, Patching
<1>. QED
  BY <1>3, <1>4, <1>5, <1>6, <1>7, <1>8 DEF IInv

LEMMA FirstAndRest ==
  ASSUME NEW S, NEW p \in Seq(S), p # <<>>
  PROVE  /\ Head(p) = p[1] /\ Tail(p) \in Seq(S) /\ Len(Tail(p)) = Len(p) - 1
         /\ \A j \in 1..Len(p) : j = 1 \/ (j - 1 \in 1..Len(Tail(p)) /\ Tail(p)[j - 1] = p[j])
OBVIOUS

\* The first patch goes to the four bytes of its field, and only the others are left.
LEMMA NextPatch ==
  ASSUME NEW f \in Formats, NEW n \in Nat, NEW p \in Remaining(f, n), p # <<>>
  PROVE  \E at \in Nat, name \in Names :
           /\ Head(p) = Patch(f, n, at, name)
           /\ at + 4 <= HeaderLen(f)
           /\ \A i \in 1..HeaderLen(f) : FieldAt(f, i) = name <=> i \in (at + 1)..(at + 4)
           /\ Tail(p) \in Remaining(f, n)
           /\ \A j \in 1..Len(p) :
                p[j].field = name \/ \E k \in 1..Len(Tail(p)) : Tail(p)[k].field = p[j].field
<1>. DEFINE w == Patch(f, n, 4, "whole")
            r == Patch(f, n, 22, "frames")
            d == Patch(f, n, IF f = "wav" THEN 40 ELSE 46, "data")
<1>1. f = "wav" \/ f = "aiff"
  BY Sizing
<1>2. /\ Head(p) = p[1]
      /\ \A j \in 1..Len(p) : j = 1 \/ (j - 1 \in 1..Len(Tail(p)) /\ Tail(p)[j - 1] = p[j])
  <2>1. p \in {<<w, d>>, <<w, r, d>>, <<r, d>>, <<d>>}
    BY <1>1 DEF Remaining
  <2>. HIDE DEF w, r, d
  <2>. DEFINE S == {w, r, d}
  <2>2. w \in S /\ r \in S /\ d \in S
    OBVIOUS
  <2>. HIDE DEF S
  <2>3. <<w, d>> \in Seq(S) /\ <<w, r, d>> \in Seq(S) /\ <<r, d>> \in Seq(S) /\ <<d>> \in Seq(S)
    BY <2>2
  <2>4. p \in Seq(S)
    BY <2>1, <2>3
  <2>. QED
    BY <2>4, FirstAndRest
<1>3. ASSUME NEW at \in Nat, NEW name \in Names, p[1] = Patch(f, n, at, name), at + 4 <= HeaderLen(f),
             \A i \in 1..HeaderLen(f) : FieldAt(f, i) = name <=> i \in (at + 1)..(at + 4),
             Tail(p) \in Remaining(f, n)
      PROVE  \E at1 \in Nat, name1 \in Names :
               /\ Head(p) = Patch(f, n, at1, name1)
               /\ at1 + 4 <= HeaderLen(f)
               /\ \A i \in 1..HeaderLen(f) : FieldAt(f, i) = name1 <=> i \in (at1 + 1)..(at1 + 4)
               /\ Tail(p) \in Remaining(f, n)
               /\ \A j \in 1..Len(p) :
                    p[j].field = name1 \/ \E k \in 1..Len(Tail(p)) : Tail(p)[k].field = p[j].field
  <2>1. Patch(f, n, at, name).field = name
    BY DEF Patch
  <2>2. \A j \in 1..Len(p) : p[j].field = name \/ \E k \in 1..Len(Tail(p)) : Tail(p)[k].field = p[j].field
    BY <1>2, <1>3, <2>1
  <2>. QED
    BY <1>2, <1>3, <2>2
<1>4. CASE f = "wav"
  <2>1. /\ d = Patch(f, n, 40, "data") /\ "whole" \in Names /\ "data" \in Names
        /\ 4 \in Nat /\ 4 + 4 <= HeaderLen(f) /\ 40 \in Nat /\ 40 + 4 <= HeaderLen(f)
        /\ \A i \in 1..HeaderLen(f) : FieldAt(f, i) = "whole" <=> i \in (4 + 1)..(4 + 4)
        /\ \A i \in 1..HeaderLen(f) : FieldAt(f, i) = "data" <=> i \in (40 + 1)..(40 + 4)
    BY <1>4 DEF HeaderLen, FieldAt, Names
  <2>2. Remaining(f, n) = {<<w, d>>, <<d>>, <<>>}
    BY <1>4, <2>1 DEF Remaining
  <2>. HIDE DEF w, d
  <2>3. CASE p = <<w, d>>
    <3>1. p[1] = w /\ Tail(p) = <<d>>
      BY <2>3
    <3>2. p[1] = Patch(f, n, 4, "whole") /\ Tail(p) \in Remaining(f, n)
      BY <2>1, <2>2, <3>1 DEF w
    <3>. QED
      BY <1>3, <2>1, <3>2
  <2>4. CASE p = <<d>>
    <3>1. p[1] = d /\ Tail(p) = <<>>
      BY <2>4
    <3>2. p[1] = Patch(f, n, 40, "data") /\ Tail(p) \in Remaining(f, n)
      BY <2>1, <2>2, <3>1
    <3>. QED
      BY <1>3, <2>1, <3>2
  <2>. QED
    BY <2>2, <2>3, <2>4
<1>5. CASE f = "aiff"
  <2>1. /\ d = Patch(f, n, 46, "data") /\ "whole" \in Names /\ "frames" \in Names /\ "data" \in Names
        /\ 4 \in Nat /\ 4 + 4 <= HeaderLen(f) /\ 22 \in Nat /\ 22 + 4 <= HeaderLen(f)
        /\ 46 \in Nat /\ 46 + 4 <= HeaderLen(f)
        /\ \A i \in 1..HeaderLen(f) : FieldAt(f, i) = "whole" <=> i \in (4 + 1)..(4 + 4)
        /\ \A i \in 1..HeaderLen(f) : FieldAt(f, i) = "frames" <=> i \in (22 + 1)..(22 + 4)
        /\ \A i \in 1..HeaderLen(f) : FieldAt(f, i) = "data" <=> i \in (46 + 1)..(46 + 4)
    BY <1>5 DEF HeaderLen, FieldAt, Names
  <2>2. Remaining(f, n) = {<<w, r, d>>, <<r, d>>, <<d>>, <<>>}
    BY <1>5, <2>1 DEF Remaining
  <2>. HIDE DEF w, r, d
  <2>3. CASE p = <<w, r, d>>
    <3>1. p[1] = w /\ Tail(p) = <<r, d>>
      BY <2>3
    <3>2. p[1] = Patch(f, n, 4, "whole") /\ Tail(p) \in Remaining(f, n)
      BY <2>1, <2>2, <3>1 DEF w
    <3>. QED
      BY <1>3, <2>1, <3>2
  <2>4. CASE p = <<r, d>>
    <3>1. p[1] = r /\ Tail(p) = <<d>>
      BY <2>4
    <3>2. p[1] = Patch(f, n, 22, "frames") /\ Tail(p) \in Remaining(f, n)
      BY <2>1, <2>2, <3>1 DEF r
    <3>. QED
      BY <1>3, <2>1, <3>2
  <2>5. CASE p = <<d>>
    <3>1. p[1] = d /\ Tail(p) = <<>>
      BY <2>5
    <3>2. p[1] = Patch(f, n, 46, "data") /\ Tail(p) \in Remaining(f, n)
      BY <2>1, <2>2, <3>1
    <3>. QED
      BY <1>3, <2>1, <3>2
  <2>. QED
    BY <2>2, <2>3, <2>4, <2>5
<1>. QED
  BY <1>1, <1>4, <1>5

LEMMA Widths ==
  /\ 2^SizeBits \in Nat
  /\ \A x \in Int : Uint32(x) \in 0..(2^SizeBits - 1)
  /\ \A x \in 0..(2^SizeBits - 1) : Uint32(x) = x
<1>1. \A M \in Nat \ {0} : /\ \A x \in Int : x % M \in 0..(M - 1)
                          /\ \A x \in 0..(M - 1) : x % M = x
  OBVIOUS
<1>2. 2^SizeBits \in Nat \ {0}
  <2>1. 2^SizeBits \in Int
    BY OutputStreamAssumption
  <2>2. \A x \in Int : x > 0 => x \in Nat \ {0}
    OBVIOUS
  <2>. QED
    BY <2>1, <2>2, OutputStreamAssumption
<1>. DEFINE M == 2^SizeBits
<1>3. M \in Nat \ {0} /\ \A x : Uint32(x) = x % M
  BY <1>2 DEF Uint32
<1>. HIDE DEF M
<1>4. M \in Nat /\ (\A x \in Int : Uint32(x) \in 0..(M - 1)) /\ (\A x \in 0..(M - 1) : Uint32(x) = x)
  BY <1>1, <1>3
<1>. QED
  BY <1>4 DEF M

LEMMA FinalIsSize ==
  ASSUME NEW f \in Formats, NEW n \in Nat, NEW name
  PROVE  Final(f, n, name) \in Nat
<1>. DEFINE size == Uint32(n)
            pcm  == Uint32(size - HeaderLen(f))
<1>1. \A x \in Int : Uint32(x) \in Nat
  BY Widths
<1>2. size \in Nat /\ HeaderLen(f) \in Int
  BY <1>1, HeaderLengths
<1>. HIDE DEF size
<1>3. pcm \in Nat /\ Uint32(size - 8) \in Nat
  BY <1>1, <1>2
<1>. HIDE DEF pcm
<1>4. Uint32(pcm + 8) \in Nat
  BY <1>1, <1>3
<1>5. pcm \div BytesPerFrame \in Nat
  <2>1. \A b \in Nat \ {0}, x \in Nat : x \div b \in Nat
    OBVIOUS
  <2>. QED
    BY <1>3, <2>1, Sizing
<1>. QED
  BY <1>3, <1>4, <1>5 DEF Final, size, pcm

\* A patch changes the bytes of its field, all or the first of them, and no other.
LEMMA PatchedFile ==
  ASSUME IInv, PatchField
  PROVE  \E at \in Nat, name \in Names, m \in 0..4 :
           /\ at + 4 <= H
           /\ \A i \in 1..H : FieldAt(format, i) = name <=> i \in (at + 1)..(at + 4)
           /\ file' \in Seq(Cells) /\ Len(file') = Len(file) /\ pos' = at + m
           /\ \A i \in 1..Len(file) :
                IF i \in (at + 1)..(at + m)
                THEN file'[i].field = name /\ file'[i].value = Final(format, Len(file), name)
                ELSE file'[i] = file[i]
           /\ \/ /\ m = 4 /\ faults' = faults /\ phase' = "patching"
                 /\ patches' \in Remaining(format, Len(file))
                 /\ \A j \in 1..Len(patches) :
                      \/ patches[j].field = name
                      \/ \E k \in 1..Len(patches') : patches'[k].field = patches[j].field
              \/ faults' = faults + 1 /\ faults' <= MaxFaults /\ phase' = "broken"
<1>. DEFINE n == Len(file)
<1>1. /\ phase = "patching" /\ patches # <<>> /\ view = 0 /\ format \in Formats
      /\ file \in Seq(Cells) /\ n \in Nat /\ n >= H /\ H \in 44..58 /\ pos \in Int
      /\ patches \in Remaining(format, n) /\ faults \in 0..MaxFaults
  <2>1. phase = "patching" /\ patches # <<>>
    BY DEF PatchField
  <2>2. format \in Formats /\ file \in Seq(Cells) /\ faults \in 0..MaxFaults /\ pos \in Int
    BY Sizing DEF IInv, Shape
  <2>3. view = 0 /\ n >= H /\ patches \in Remaining(format, n)
    BY <2>1 DEF IInv, Places, Patching
  <2>4. H \in 44..58 /\ n \in Nat
    BY <2>2, HeaderLengths DEF H
  <2>. QED
    BY <2>1, <2>2, <2>3, <2>4
<1>. HIDE DEF n
<1>2. PICK at \in Nat, name \in Names :
        /\ Head(patches) = Patch(format, n, at, name)
        /\ at + 4 <= H
        /\ \A i \in 1..H : FieldAt(format, i) = name <=> i \in (at + 1)..(at + 4)
        /\ Tail(patches) \in Remaining(format, n)
        /\ \A j \in 1..Len(patches) :
             patches[j].field = name \/ \E k \in 1..Len(Tail(patches)) : Tail(patches)[k].field = patches[j].field
  BY <1>1, NextPatch DEF H
<1>. DEFINE v == Final(format, n, name)
            new == FieldCells(name, v)
<1>3. v \in Nat /\ Head(patches).at = at /\ Head(patches).field = name /\ Head(patches).value = v
  BY <1>1, <1>2, FinalIsSize DEF Patch
<1>. HIDE DEF v
<1>4. new \in Seq(Cells) /\ Len(new) = 4 /\ \A k \in 1..4 : new[k].field = name /\ new[k].value = v
  <2>1. new = [k \in 1..4 |-> Cell(name, v, k)] /\ \A k \in 1..4 : Cell(name, v, k) \in Cells
    BY <1>3 DEF FieldCells, Cell, Cells
  <2>2. new \in [1..4 -> Cells]
    BY <2>1
  <2>. HIDE DEF new
  <2>3. new \in Seq(Cells) /\ Len(new) = 4
    <3>1. \A k \in Nat : \A x \in [1..k -> Cells] : x \in Seq(Cells) /\ Len(x) = k
      OBVIOUS
    <3>. QED
      BY <2>2, <3>1
  <2>. QED
    BY <2>1, <2>3 DEF Cell
<1>. HIDE DEF new
<1>5. SinkSeek(pos, view, Head(patches).at, "beg") = at
  <2>1. at <= MaxPos
    <3>1. \A x, y, z \in Nat : x > 58 + y + z => x > 58
      OBVIOUS
    <3>2. MaxPos \in Nat /\ MaxPos > 58
      BY <3>1, Sizing
    <3>. QED
      BY <1>1, <1>2, <3>2
  <2>2. SinkSeek(pos, 0, at, "beg") = at
    BY <1>1, <2>1, WherePatchesGo
  <2>. QED
    BY <1>1, <1>3, <2>2
<1>6. \/ DeviceTakes(at, new) /\ patches' = Tail(patches) /\ phase' = phase
      \/ DeviceThrows(at, new) /\ patches' = <<>> /\ phase' = "broken"
  BY <1>3, <1>5 DEF PatchField, new
<1>7. ASSUME NEW part, part \in Seq(Cells), NEW k \in 0..4, Len(part) = k,
             \A j \in 1..k : part[j] = new[j], file' = Overwrite(file, at, part)
      PROVE  /\ file' \in Seq(Cells) /\ Len(file') = n
             /\ \A i \in 1..n : IF i \in (at + 1)..(at + k)
                               THEN file'[i].field = name /\ file'[i].value = v
                               ELSE file'[i] = file[i]
  <2>. DEFINE g == Overwrite(file, at, part)
  <2>1. at \in 0..Len(file) /\ Len(file) = n
    BY <1>1, <1>2 DEF n
  <2>2. /\ g \in Seq(Cells)
        /\ Len(g) = Larger(n, at + k)
        /\ \A i \in 1..Len(g) : g[i] = IF i <= at THEN file[i]
                                      ELSE IF i <= at + k THEN part[i - at] ELSE file[i]
    <3>1. file \in Seq(Cells)
      BY <1>1
    <3>2. /\ g \in Seq(Cells)
          /\ Len(g) = Larger(Len(file), at + Len(part))
          /\ \A i \in 1..Len(g) : g[i] = IF i <= at THEN file[i]
                                        ELSE IF i <= at + Len(part) THEN part[i - at] ELSE file[i]
      BY <1>7, <2>1, <3>1, OverwriteFacts
    <3>. HIDE DEF g
    <3>. QED
      BY <1>7, <2>1, <3>2
  <2>. HIDE DEF g
  <2>3. Len(g) = n
    <3>1. n \in Int /\ at + k \in Int /\ at + k <= n
      BY <1>1, <1>2
    <3>2. Larger(n, at + k) = n
      BY <3>1 DEF Larger
    <3>. QED
      BY <2>2, <3>2
  <2>4. ASSUME NEW i \in 1..n
        PROVE  IF i \in (at + 1)..(at + k)
               THEN g[i].field = name /\ g[i].value = v ELSE g[i] = file[i]
    <3>1. CASE i \in (at + 1)..(at + k)
      <4>1. ~(i <= at) /\ i <= at + k /\ i - at \in 1..k /\ i - at \in 1..4
        BY <1>1, <3>1
      <4>2. g[i] = part[i - at]
        BY <2>2, <2>3, <4>1
      <4>3. part[i - at] = new[i - at]
        BY <1>7, <4>1
      <4>. QED
        BY <1>4, <3>1, <4>1, <4>2, <4>3
    <3>2. CASE ~(i \in (at + 1)..(at + k))
      <4>1. i <= at \/ ~(i <= at + k)
        BY <1>1, <3>2
      <4>. QED
        BY <2>2, <2>3, <3>2, <4>1
    <3>. QED
      BY <3>1, <3>2
  <2>5. file' = g
    BY <1>7 DEF g
  <2>. QED
    BY <2>2, <2>3, <2>4, <2>5
<1>8. CASE DeviceTakes(at, new) /\ patches' = Tail(patches) /\ phase' = phase
  <2>1. file' = Overwrite(file, at, new) /\ pos' = at + 4 /\ faults' = faults
    BY <1>4, <1>8 DEF DeviceTakes
  <2>2. /\ file' \in Seq(Cells) /\ Len(file') = n
        /\ \A i \in 1..n : IF i \in (at + 1)..(at + 4)
                          THEN file'[i].field = name /\ file'[i].value = v
                          ELSE file'[i] = file[i]
    <3>1. new \in Seq(Cells) /\ 4 \in 0..4 /\ Len(new) = 4 /\ \A j \in 1..4 : new[j] = new[j]
      BY <1>4
    <3>. QED
      BY <1>7, <2>1, <3>1
  <2>3. 4 \in 0..4
    OBVIOUS
  <2>4. patches' = Tail(patches) /\ phase' = "patching"
    BY <1>1, <1>8
  <2>. QED
    BY <1>2, <2>1, <2>2, <2>3, <2>4 DEF n, v
<1>9. CASE DeviceThrows(at, new) /\ patches' = <<>> /\ phase' = "broken"
  <2>1. PICK m \in 0..3 : file' = Overwrite(file, at, SubSeq(new, 1, m)) /\ pos' = at + m
    BY <1>4, <1>9 DEF DeviceThrows
  <2>2. faults' = faults + 1 /\ faults' <= MaxFaults
    BY <1>1, <1>9, Sizing DEF DeviceThrows
  <2>. DEFINE part == SubSeq(new, 1, m)
  <2>3. \A i \in 1..m : new[i] \in Cells
    <3>1. new \in Seq(Cells)
      BY <1>4
    <3>2. \A i \in 1..Len(new) : new[i] \in Cells
      BY <3>1
    <3>3. \A i \in 1..m : i \in 1..Len(new)
      BY <1>4, <2>1
    <3>. QED
      BY <3>2, <3>3
  <2>4. /\ part \in Seq(Cells)
        /\ Len(part) = IF 1 <= m THEN m - 1 + 1 ELSE 0
        /\ \A i \in 1..(m - 1 + 1) : part[i] = new[1 + i - 1]
    BY <1>4, <2>1, <2>3, SubSeqProperties
  <2>5. file' = Overwrite(file, at, part)
    BY <2>1
  <2>. HIDE DEF part
  <2>6. Len(part) = m /\ m \in 0..4 /\ \A j \in 1..m : part[j] = new[j]
    BY <2>4
  <2>7. /\ file' \in Seq(Cells) /\ Len(file') = n
        /\ \A i \in 1..n : IF i \in (at + 1)..(at + m)
                          THEN file'[i].field = name /\ file'[i].value = v
                          ELSE file'[i] = file[i]
    BY <1>7, <2>4, <2>5, <2>6
  <2>8. m \in 0..4
    OBVIOUS
  <2>. QED
    BY <1>2, <1>9, <2>1, <2>2, <2>7, <2>8 DEF n, v
<1>. QED
  BY <1>6, <1>8, <1>9

LEMMA PatchFieldKeepsIInv == IInv /\ PatchField => IInv'
<1>. SUFFICES ASSUME IInv, PatchField PROVE IInv'
  OBVIOUS
<1>. DEFINE n == Len(file)
<1>1. /\ phase = "patching" /\ view = 0 /\ format \in Formats /\ file \in Seq(Cells) /\ n \in Nat /\ n >= H
      /\ H \in 44..58 /\ H' = H /\ faults \in 0..MaxFaults
      /\ UNCHANGED <<format, view, buf, todo, handed, fail, bad>>
  <2>1. phase = "patching" /\ UNCHANGED <<format, view, buf, todo, handed, fail, bad>>
    BY DEF PatchField
  <2>2. format \in Formats /\ file \in Seq(Cells) /\ faults \in 0..MaxFaults
    BY DEF IInv, Shape
  <2>3. view = 0 /\ n >= H
    BY <2>1 DEF IInv, Places
  <2>4. H \in 44..58 /\ H' = H /\ n \in Nat
    BY <2>1, <2>2, HeaderLengths DEF H
  <2>. QED
    BY <2>1, <2>2, <2>3, <2>4
<1>2. PICK at \in Nat, name \in Names, m \in 0..4 :
        /\ at + 4 <= H
        /\ \A i \in 1..H : FieldAt(format, i) = name <=> i \in (at + 1)..(at + 4)
        /\ file' \in Seq(Cells) /\ Len(file') = n /\ pos' = at + m
        /\ \A i \in 1..n :
             IF i \in (at + 1)..(at + m)
             THEN file'[i].field = name /\ file'[i].value = Final(format, n, name)
             ELSE file'[i] = file[i]
        /\ \/ /\ m = 4 /\ faults' = faults /\ phase' = "patching"
              /\ patches' \in Remaining(format, n)
              /\ \A j \in 1..Len(patches) :
                   \/ patches[j].field = name
                   \/ \E k \in 1..Len(patches') : patches'[k].field = patches[j].field
           \/ faults' = faults + 1 /\ faults' <= MaxFaults /\ phase' = "broken"
  BY PatchedFile
<1>. HIDE DEF n
<1>3. \A i \in (at + 1)..(at + m) : i \in 1..H /\ i \in 1..n /\ FieldAt(format, i) = name
  BY <1>1, <1>2
<1>4. \A i \in 1..n : file[i].field = IF i <= H THEN FieldAt(format, i) ELSE "pcm"
  BY DEF IInv, Layout, n
<1>5. Shape'
  <2>1. pos' \in 0..MaxPos
    <3>1. \A x, y, z \in Nat : x > 58 + y + z => x > 58
      OBVIOUS
    <3>2. MaxPos \in Nat /\ MaxPos > 58
      BY <3>1, Sizing
    <3>3. pos' = at + m
      BY <1>2
    <3>4. at + m \in 0..58
      BY <1>1, <1>2
    <3>. QED
      BY <3>2, <3>3, <3>4
  <2>2. fail' \in BOOLEAN /\ bad' \in BOOLEAN
    BY <1>1 DEF IInv, Shape
  <2>3. faults' \in 0..MaxFaults /\ phase' \in {"patching", "broken"}
    BY <1>1, <1>2, Sizing
  <2>. QED
    BY <1>1, <1>2, <2>1, <2>2, <2>3 DEF IInv, Shape
<1>6. Places' /\ Room'
  BY <1>1, <1>2 DEF Places, Room
<1>7. Order'
  <2>. SUFFICES ASSUME faults' = 0 PROVE Order'
    BY DEF Order
  <2>1. faults = 0
    BY <1>1, <1>2
  <2>2. Sound' = Sound /\ Sound = n - H
    BY <1>1, <1>2 DEF Sound, n
  <2>3. /\ \A i \in 1..(n - H) : file[H + i].value = i
        /\ \A i \in 1..Len(buf) : buf[i] = n - H + i
        /\ \A i \in 1..Len(todo) : todo[i] = n - H + Len(buf) + i
        /\ n - H + Len(buf) + Len(todo) = handed
    BY <1>1, <2>1, <2>2 DEF IInv, Order
  <2>4. ASSUME NEW i \in 1..(n - H) PROVE file'[H + i].value = i
    <3>1. H + i \in 1..n /\ ~(H + i \in (at + 1)..(at + m))
      BY <1>1, <1>2
    <3>2. \A q \in 1..n : ~(q \in (at + 1)..(at + m)) => file'[q] = file[q]
      BY <1>2
    <3>. QED
      BY <2>3, <3>1, <3>2
  <2>. QED
    BY <1>1, <2>2, <2>3, <2>4 DEF Order
<1>8. Layout'
  <2>1. \A i \in 1..n : file'[i].field = IF i <= H THEN FieldAt(format, i) ELSE "pcm"
    BY <1>1, <1>2, <1>3, <1>4
  <2>. QED
    BY <1>1, <1>2, <2>1 DEF Layout
<1>9. Sizes'
  <2>1. \A i \in 1..n : file[i].field \in Names =>
          file[i].value = 0 \/ file[i].value = Final(format, n, file[i].field)
    BY DEF IInv, Sizes, n
  <2>2. \A i \in 1..n : file'[i].field \in Names =>
          file'[i].value = 0 \/ file'[i].value = Final(format, n, file'[i].field)
    BY <1>2, <2>1
  <2>. QED
    BY <1>1, <1>2, <2>2 DEF Sizes
<1>10. Patching'
  <2>. SUFFICES ASSUME phase' = "patching" PROVE Patching'
    BY <1>2 DEF Patching
  <2>1. /\ m = 4 /\ patches' \in Remaining(format, n)
        /\ \A j \in 1..Len(patches) :
             \/ patches[j].field = name
             \/ \E k \in 1..Len(patches') : patches'[k].field = patches[j].field
    BY <1>2
  <2>2. ASSUME NEW i \in 1..n, file'[i].field \in Names
        PROVE  \/ file'[i].value = Final(format, n, file'[i].field)
               \/ \E k \in 1..Len(patches') : patches'[k].field = file'[i].field
    <3>1. CASE i \in (at + 1)..(at + 4)
      BY <1>2, <2>1, <3>1
    <3>2. CASE ~(i \in (at + 1)..(at + 4))
      <4>1. file'[i] = file[i]
        BY <1>2, <2>1, <3>2
      <4>2. file[i].field # name
        <5>1. i \in 1..H /\ file[i].field = FieldAt(format, i)
          BY <1>1, <1>4, <2>2, <4>1 DEF Names
        <5>. QED
          BY <1>2, <3>2, <5>1
      <4>3. \/ file[i].value = Final(format, n, file[i].field)
            \/ \E j \in 1..Len(patches) : patches[j].field = file[i].field
        BY <1>1, <2>2, <4>1 DEF IInv, Patching, n
      <4>. QED
        BY <2>1, <4>1, <4>2, <4>3
    <3>. QED
      BY <3>1, <3>2
  <2>. QED
    BY <1>1, <1>2, <2>1, <2>2 DEF Patching
<1>. QED
  BY <1>5, <1>6, <1>7, <1>8, <1>9, <1>10 DEF IInv

LEMMA IInvStep == IInv /\ [Next]_vars => IInv'
<1>. SUFFICES ASSUME IInv, [Next]_vars PROVE IInv'
  OBVIOUS
<1>0. fail \in BOOLEAN /\ bad \in BOOLEAN
  BY DEF IInv, Shape
<1>1. CASE Create
  BY <1>1, CreateKeepsIInv
<1>2. CASE \E n \in WriteSizes : Write(n)
  BY <1>2, WriteKeepsIInv
<1>3. CASE RefuseWrite
  <2>1. fail' \in BOOLEAN /\ bad' \in BOOLEAN
    BY <1>0, <1>3 DEF RefuseWrite
  <2>. QED
    BY <1>3, <2>1, QuietKeepsIInv DEF RefuseWrite
<1>4. CASE Store
  BY <1>4, StoreKeepsIInv
<1>5. CASE Overflow
  BY <1>5, OverflowKeepsIInv
<1>6. CASE Tellp
  <2>1. phase = "open" /\ phase' \in {"open", "synced"}
    BY <1>6 DEF Tellp
  <2>. QED
    BY <1>6, <2>1, SyncKeepsIInv DEF Tellp
<1>7. CASE Clear
  <2>1. fail' \in BOOLEAN /\ bad' \in BOOLEAN
    BY <1>7 DEF Clear
  <2>. QED
    BY <1>7, <2>1, QuietKeepsIInv DEF Clear
<1>8. CASE CloseSync
  <2>1. phase = "open" /\ phase' \in {"open", "synced"}
    BY <1>8 DEF CloseSync
  <2>. QED
    BY <1>8, <2>1, SyncKeepsIInv DEF CloseSync
<1>9. CASE CloseSink
  BY <1>9, CloseSinkKeepsIInv
<1>10. CASE PatchField
  BY <1>10, PatchFieldKeepsIInv
<1>11. CASE CloseFile
  BY <1>11, CloseFileKeepsIInv
<1>12. CASE Kill
  BY <1>12, KillKeepsIInv
<1>13. CASE UNCHANGED vars
  <2>1. UNCHANGED <<format, file, pos, view, buf, todo, handed, fail, bad, phase, patches, faults>>
    BY <1>13 DEF vars
  <2>2. H' = H /\ Sound' = Sound
    BY <2>1 DEF H, Sound
  <2>3. Shape'
    <3>1. fail' \in BOOLEAN /\ bad' \in BOOLEAN
      BY <1>0, <2>1
    <3>. QED
      BY <2>1, <2>2, <3>1 DEF IInv, Shape
  <2>4. Places' /\ Room'
    BY <2>1, <2>2 DEF IInv, Places, Room
  <2>5. Order'
    BY <2>1, <2>2 DEF IInv, Order
  <2>6. Layout' /\ Sizes'
    BY <2>1, <2>2 DEF IInv, Layout, Sizes
  <2>7. Patching'
    BY <2>1 DEF IInv, Patching
  <2>. QED
    BY <2>3, <2>4, <2>5, <2>6, <2>7 DEF IInv
<1>. QED
  BY <1>1, <1>2, <1>3, <1>4, <1>5, <1>6, <1>7, <1>8, <1>9, <1>10, <1>11, <1>12, <1>13 DEF Next

LEMMA IInvAlways == Spec => []IInv
BY InitIInv, IInvStep, PTL DEF Spec

-----------------------------------------------------------------------------
(* What follows.                                                           *)

\* The state of the stream keeps its type: the sink never seeks out of the file,
\* and the buffer never holds more than it has room for.
THEOREM TypeCorrect == Spec => []TypeOK
<1>1. IInv => TypeOK
  BY DEF IInv, Shape, TypeOK, H
<1>. QED
  BY <1>1, IInvAlways, PTL

LEMMA PcmFacts ==
  ASSUME IInv
  PROVE  Pcm \in Seq(Cells) /\ Len(Pcm) = Sound /\ Sound \in Nat /\ \A i \in 1..Sound : Pcm[i] = file[H + i]
<1>. DEFINE n == Len(file)
            b == H + 1
<1>1. file \in Seq(Cells) /\ n \in Nat /\ H \in 44..58 /\ b \in Int
  BY HeaderLengths DEF IInv, Shape, H
<1>2. \A i \in 1..n : file[i] \in Cells
  BY <1>1
<1>3. \A i \in b..n : file[i] \in Cells
  BY <1>1, <1>2
<1>. HIDE DEF n, b
<1>4. /\ SubSeq(file, b, n) \in Seq(Cells)
      /\ Len(SubSeq(file, b, n)) = IF b <= n THEN n - b + 1 ELSE 0
      /\ \A i \in 1..(n - b + 1) : SubSeq(file, b, n)[i] = file[b + i - 1]
  BY <1>1, <1>3, SubSeqProperties
<1>5. Pcm = SubSeq(file, b, n)
  BY DEF Pcm, b, n, H
<1>6. Sound = IF b <= n THEN n - b + 1 ELSE 0
  BY <1>1 DEF Sound, b, n
<1>7. ASSUME NEW i \in 1..Sound PROVE i \in 1..(n - b + 1) /\ b + i - 1 = H + i
  BY <1>1, <1>6 DEF b
<1>8. Sound \in Nat
  BY <1>1, <1>6
<1>. QED
  BY <1>4, <1>5, <1>6, <1>7, <1>8

PcmIsBehindTheHeader ==
  Pcm \in Seq(Cells) /\ Len(Pcm) = Sound /\ Sound \in Nat /\ \A i \in 1..Sound : Pcm[i] = file[H + i]

LEMMA PcmAlways == Spec => []PcmIsBehindTheHeader
<1>1. IInv => PcmIsBehindTheHeader
  BY PcmFacts DEF PcmIsBehindTheHeader
<1>. QED
  BY <1>1, IInvAlways, PTL

\* As long as the device works, the file, the buffer and the call in progress hold
\* every byte the client has handed over, once and in order.
THEOREM NoByteIsLostOrRepeated == Spec => []EveryByteOnce
<1>1. ASSUME IInv, faults = 0, phase # "creating"
      PROVE  [i \in DOMAIN Pcm |-> Pcm[i].value] \o buf \o todo = [i \in 1..handed |-> i]
  <2>. DEFINE values == [i \in DOMAIN Pcm |-> Pcm[i].value]
  <2>1. /\ Pcm \in Seq(Cells) /\ Len(Pcm) = Sound /\ Sound \in Nat
        /\ \A i \in 1..Sound : Pcm[i] = file[H + i]
        /\ buf \in Seq(Nat) /\ todo \in Seq(Nat) /\ handed \in Nat
    BY <1>1, PcmFacts, Sizing DEF IInv, Shape
  <2>2. /\ \A i \in 1..Sound : file[H + i].value = i
        /\ \A i \in 1..Len(buf) : buf[i] = Sound + i
        /\ \A i \in 1..Len(todo) : todo[i] = Sound + Len(buf) + i
        /\ Sound + Len(buf) + Len(todo) = handed
    BY <1>1 DEF IInv, Order
  <2>3. DOMAIN Pcm = 1..Sound
    BY <2>1
  <2>4. values = [i \in 1..Sound |-> i]
    BY <2>1, <2>2, <2>3
  <2>. HIDE DEF values
  <2>5. values \in [1..Sound -> Nat]
    BY <2>1, <2>4
  <2>6. values \in Seq(Nat) /\ Len(values) = Sound /\ \A i \in 1..Sound : values[i] = i
    BY <2>1, <2>4, <2>5
  <2>. DEFINE front == values \o buf
  <2>7. /\ front \in Seq(Nat) /\ Len(front) = Sound + Len(buf)
        /\ \A i \in 1..(Sound + Len(buf)) : front[i] = IF i <= Sound THEN values[i] ELSE buf[i - Sound]
    <3>1. values \in Seq(Nat) /\ buf \in Seq(Nat)
      BY <2>1, <2>6
    <3>2. /\ front \in Seq(Nat) /\ Len(front) = Len(values) + Len(buf)
          /\ \A i \in 1..(Len(values) + Len(buf)) :
               front[i] = IF i <= Len(values) THEN values[i] ELSE buf[i - Len(values)]
      BY <3>1, ConcatProperties
    <3>. HIDE DEF front
    <3>. QED
      BY <2>6, <3>2
  <2>. HIDE DEF front
  <2>8. \A i \in 1..(Sound + Len(buf)) : front[i] = i
    <3>1. ASSUME NEW i \in 1..(Sound + Len(buf)), ~(i <= Sound) PROVE front[i] = i
      <4>1. i - Sound \in 1..Len(buf) /\ Sound + (i - Sound) = i
        BY <2>1, <3>1
      <4>. QED
        BY <2>2, <2>7, <3>1, <4>1
    <3>2. ASSUME NEW i \in 1..(Sound + Len(buf)), i <= Sound PROVE front[i] = i
      <4>1. i \in 1..Sound
        BY <2>1, <3>2
      <4>. QED
        BY <2>6, <2>7, <3>2, <4>1
    <3>. QED
      BY <3>1, <3>2
  <2>. DEFINE all == front \o todo
              k   == Sound + Len(buf)
  <2>9. k \in Nat /\ Len(todo) \in Nat /\ k + Len(todo) = handed
    BY <2>1, <2>2
  <2>10. Len(front) = k /\ \A i \in 1..k : front[i] = i
    BY <2>7, <2>8
  <2>11. \A i \in 1..Len(todo) : todo[i] = k + i
    BY <2>2
  <2>. HIDE DEF k
  <2>12. /\ all \in Seq(Nat) /\ Len(all) = k + Len(todo)
         /\ \A i \in 1..(k + Len(todo)) : all[i] = IF i <= k THEN front[i] ELSE todo[i - k]
    <3>1. front \in Seq(Nat) /\ todo \in Seq(Nat)
      BY <2>1, <2>7
    <3>2. /\ all \in Seq(Nat) /\ Len(all) = Len(front) + Len(todo)
          /\ \A i \in 1..(Len(front) + Len(todo)) :
               all[i] = IF i <= Len(front) THEN front[i] ELSE todo[i - Len(front)]
      BY <3>1, ConcatProperties
    <3>. HIDE DEF all
    <3>. QED
      BY <2>10, <3>2
  <2>. HIDE DEF all
  <2>13. \A i \in 1..handed : all[i] = i
    <3>1. ASSUME NEW i \in 1..handed, ~(i <= k) PROVE all[i] = i
      <4>1. i - k \in 1..Len(todo) /\ k + (i - k) = i /\ i \in 1..(k + Len(todo))
        BY <2>1, <2>9, <3>1
      <4>. QED
        BY <2>11, <2>12, <3>1, <4>1
    <3>2. ASSUME NEW i \in 1..handed, i <= k PROVE all[i] = i
      <4>1. i \in 1..k /\ i \in 1..(k + Len(todo))
        BY <2>9, <3>2
      <4>. QED
        BY <2>10, <2>12, <3>2, <4>1
    <3>. QED
      BY <3>1, <3>2
  <2>14. DOMAIN all = 1..handed /\ all = [i \in DOMAIN all |-> all[i]]
    BY <2>9, <2>12
  <2>15. all = [i \in 1..handed |-> i]
    BY <2>13, <2>14
  <2>. QED
    BY <2>15 DEF all, front, values
<1>2. IInv => EveryByteOnce
  BY <1>1 DEF EveryByteOnce
<1>. QED
  BY <1>2, IInvAlways, PTL

\* What the fields of one name announce when each holds nothing or the same.
LEMMA AnnouncedFacts ==
  ASSUME IInv, NEW name, NEW v \in Nat,
         \A i \in 1..Len(file) : file[i].field = name => file[i].value \in {0, v}
  PROVE  /\ Announced(name) \in {0, v}
         /\ (\E i \in 1..Len(file) : file[i].field = name /\ file[i].value = v) => Announced(name) = v
<1>. DEFINE cells  == {i \in DOMAIN file : file[i].field = name}
            values == {file[i].value : i \in cells}
            a      == CHOOSE x \in values : \A i \in cells : file[i].value <= x
<1>1. DOMAIN file = 1..Len(file)
  BY DEF IInv, Shape
<1>2. Announced(name) = IF cells = {} THEN 0 ELSE a
  BY DEF Announced
<1>3. \A i \in cells : file[i].value \in {0, v}
  BY <1>1
<1>4. ASSUME cells # {}
      PROVE  a \in {0, v} /\ \A i \in cells : file[i].value <= a
  <2>1. \E x \in values : \A i \in cells : file[i].value <= x
    <3>1. CASE \E i \in cells : file[i].value = v
      <4>1. v \in values
        BY <3>1
      <4>2. \A i \in cells : file[i].value <= v
        BY <1>3
      <4>. QED
        BY <4>1, <4>2
    <3>2. CASE ~\E i \in cells : file[i].value = v
      <4>1. \A i \in cells : file[i].value = 0
        BY <1>3, <3>2
      <4>2. 0 \in values
        BY <1>4, <4>1
      <4>3. \A i \in cells : file[i].value <= 0
        BY <4>1
      <4>. HIDE DEF values, cells
      <4>. QED
        BY <4>2, <4>3
    <3>. QED
      BY <3>1, <3>2
  <2>2. a \in values /\ \A i \in cells : file[i].value <= a
    <3>. HIDE DEF values, cells
    <3>. QED
      BY <2>1
  <2>. QED
    BY <1>3, <2>2
<1>5. ASSUME NEW i \in 1..Len(file), file[i].field = name, file[i].value = v
      PROVE  Announced(name) = v
  <2>1. i \in cells /\ cells # {}
    BY <1>1, <1>5
  <2>2. a \in {0, v} /\ v <= a
    BY <1>4, <1>5, <2>1
  <2>. HIDE DEF a
  <2>3. a = v
    BY <2>2
  <2>. QED
    BY <1>2, <2>1, <2>3
<1>. HIDE DEF cells, a
<1>6. Announced(name) \in {0, v}
  BY <1>2, <1>4
<1>. QED
  BY <1>5, <1>6

\* A size is announced only by a close, and it is the final one.
LEMMA AnnouncedIsFinal ==
  ASSUME IInv, NEW name \in Names
  PROVE  \/ Announced(name) = 0
         \/ /\ Len(file) >= H /\ phase \in {"patching", "closed", "broken", "killed"}
            /\ Announced(name) = Final(format, Len(file), name)
<1>1. Final(format, Len(file), name) \in Nat
  BY FinalIsSize DEF IInv, Shape
<1>2. CASE \E i \in 1..Len(file) : file[i].field = name /\ file[i].value # 0
  <2>1. Len(file) >= H /\ phase \in {"patching", "closed", "broken", "killed"}
    BY <1>2 DEF IInv, Sizes
  <2>2. \A i \in 1..Len(file) : file[i].field = name =>
          file[i].value \in {0, Final(format, Len(file), name)}
    BY DEF IInv, Sizes
  <2>. QED
    BY <1>1, <2>1, <2>2, AnnouncedFacts
<1>3. CASE ~\E i \in 1..Len(file) : file[i].field = name /\ file[i].value # 0
  <2>1. \A i \in 1..Len(file) : file[i].field = name => file[i].value \in {0, 0}
    BY <1>3
  <2>2. 0 \in Nat
    OBVIOUS
  <2>. QED
    BY <2>1, <2>2, AnnouncedFacts
<1>. QED
  BY <1>2, <1>3

\* The final sizes of a file whose length the size fields can hold.
LEMMA FinalSizes ==
  ASSUME NEW f \in Formats, NEW n \in Nat, n >= HeaderLen(f), n < 2^SizeBits
  PROVE  /\ Final(f, n, "whole") = n - 8
         /\ Final(f, n, "data") = (n - HeaderLen(f)) + (IF f = "aiff" THEN 8 ELSE 0)
         /\ Final(f, n, "frames") = (n - HeaderLen(f)) \div BytesPerFrame
<1>. DEFINE M == 2^SizeBits
            h == HeaderLen(f)
<1>1. M \in Nat /\ h \in 44..58 /\ n < M /\ n >= h /\ \A x \in 0..(M - 1) : Uint32(x) = x
  BY Widths, HeaderLengths
<1>. HIDE DEF M, h
<1>2. Uint32(n) = n /\ Uint32(n - 8) = n - 8 /\ Uint32(n - h) = n - h /\ Uint32((n - h) + 8) = (n - h) + 8
  BY <1>1
<1>3. f = "wav" \/ f = "aiff"
  BY Sizing
<1>4. /\ Final(f, n, "whole") = n - 8
      /\ Final(f, n, "frames") = (n - h) \div BytesPerFrame
      /\ Final(f, n, "data") = IF f = "wav" THEN n - h ELSE (n - h) + 8
  BY <1>2 DEF Final, h
<1>5. (n - h) + 0 = n - h
  BY <1>1
<1>. QED
  BY <1>3, <1>4, <1>5 DEF h

\* At no moment of a recording, and after any failure or kill, does the header
\* announce sound, frames or a file that is not there.
THEOREM NothingMissingIsAnnounced == Spec => []NothingAnnouncedThatIsMissing
<1>1. ASSUME IInv, Fits
      PROVE  /\ Announced("data") <= Len(Pcm) + (IF format = "aiff" THEN 8 ELSE 0)
             /\ Announced("frames") * BytesPerFrame <= Len(Pcm)
             /\ Announced("whole") <= Larger(Len(file) - 8, 0)
  <2>. DEFINE n == Len(file)
  <2>1. /\ n \in Nat /\ format \in Formats /\ H \in 44..58 /\ Len(Pcm) \in Nat
        /\ Len(Pcm) = IF n > H THEN n - H ELSE 0
    BY <1>1, PcmFacts, HeaderLengths DEF IInv, Shape, H, Sound
  <2>2. n >= H => /\ Final(format, n, "whole") = n - 8
                  /\ Final(format, n, "data") = (n - H) + (IF format = "aiff" THEN 8 ELSE 0)
                  /\ Final(format, n, "frames") = (n - H) \div BytesPerFrame
    BY <1>1, <2>1, FinalSizes DEF H, Fits
  <2>. DEFINE offset == IF format = "aiff" THEN 8 ELSE 0
  <2>3. offset \in {0, 8}
    OBVIOUS
  <2>4. \A name \in Names : Announced(name) = 0 \/ (n >= H /\ Announced(name) = Final(format, n, name))
    BY <1>1, AnnouncedIsFinal
  <2>5. "data" \in Names /\ "frames" \in Names /\ "whole" \in Names
    BY DEF Names
  <2>. HIDE DEF n, offset
  <2>6. Announced("data") <= Len(Pcm) + offset
    <3>1. Announced("data") = 0 \/ (n >= H /\ Announced("data") = (n - H) + offset)
      BY <2>2, <2>4, <2>5 DEF offset
    <3>2. n >= H => Len(Pcm) = n - H
      BY <2>1
    <3>. QED
      BY <2>1, <2>3, <3>1, <3>2
  <2>7. Announced("frames") * BytesPerFrame <= Len(Pcm)
    <3>1. \A b \in Nat \ {0}, x \in Nat : (x \div b) * b <= x
      OBVIOUS
    <3>2. \A b \in Nat : 0 * b = 0
      OBVIOUS
    <3>3. CASE Announced("frames") = 0
      <4>1. Announced("frames") * BytesPerFrame = 0
        BY <3>2, <3>3, Sizing
      <4>. QED
        BY <2>1, <4>1
    <3>4. CASE n >= H /\ Announced("frames") = (n - H) \div BytesPerFrame
      <4>1. Len(Pcm) = n - H /\ n - H \in Nat
        BY <2>1, <3>4
      <4>. QED
        BY <3>1, <3>4, <4>1, Sizing
    <3>. QED
      BY <2>2, <2>4, <2>5, <3>3, <3>4
  <2>8. Announced("whole") <= Larger(n - 8, 0)
    <3>1. Announced("whole") = 0 \/ (n >= H /\ Announced("whole") = n - 8)
      BY <2>2, <2>4, <2>5
    <3>. QED
      BY <2>1, <3>1 DEF Larger
  <2>. QED
    BY <2>6, <2>7, <2>8 DEF n, offset
<1>2. IInv => NothingAnnouncedThatIsMissing
  BY <1>1 DEF NothingAnnouncedThatIsMissing
<1>. QED
  BY <1>2, IInvAlways, PTL

\* A close that comes to its end leaves the sizes of the file it closed.
THEOREM ClosedFilesAreConsistent == Spec => []ClosedFileIsConsistent
<1>1. ASSUME IInv, phase = "closed", Fits
      PROVE  /\ Announced("whole") = Len(file) - 8
             /\ Announced("data") = Len(Pcm) + (IF format = "aiff" THEN 8 ELSE 0)
             /\ format = "aiff" => Announced("frames") = Len(Pcm) \div BytesPerFrame
  <2>. DEFINE n == Len(file)
  <2>1. /\ n \in Nat /\ format \in Formats /\ H \in 44..58 /\ n >= H /\ Len(Pcm) = n - H
    <3>1. /\ n \in Nat /\ format \in Formats /\ H \in 44..58 /\ n >= H
          /\ Len(Pcm) = IF n > H THEN n - H ELSE 0
      BY <1>1, PcmFacts, HeaderLengths DEF IInv, Shape, Places, H, Sound
    <3>. HIDE DEF n
    <3>. QED
      BY <3>1
  <2>2. /\ Final(format, n, "whole") = n - 8
        /\ Final(format, n, "data") = (n - H) + (IF format = "aiff" THEN 8 ELSE 0)
        /\ Final(format, n, "frames") = (n - H) \div BytesPerFrame
    BY <1>1, <2>1, FinalSizes DEF H, Fits
  <2>3. \A i \in 1..n : file[i].field \in Names => file[i].value = Final(format, n, file[i].field)
    <3>1. Len(patches) = 0
      BY <1>1 DEF IInv, Patching
    <3>2. \A i \in 1..n : file[i].field \in Names =>
            \/ file[i].value = Final(format, n, file[i].field)
            \/ \E j \in 1..Len(patches) : patches[j].field = file[i].field
      BY <1>1 DEF IInv, Patching
    <3>. HIDE DEF n
    <3>. QED
      BY <3>1, <3>2
  <2>4. ASSUME NEW name \in Names, NEW i \in 1..H, FieldAt(format, i) = name
        PROVE  Announced(name) = Final(format, n, name)
    <3>1. i \in 1..n /\ file[i].field = name
      BY <1>1, <2>1, <2>4 DEF IInv, Layout
    <3>2. file[i].value = Final(format, n, name)
      BY <2>3, <3>1
    <3>3. Final(format, n, name) \in Nat
      BY <2>1, FinalIsSize
    <3>4. \A j \in 1..n : file[j].field = name => file[j].value \in {0, Final(format, n, name)}
      BY <2>3
    <3>. QED
      BY <1>1, <3>1, <3>2, <3>3, <3>4, AnnouncedFacts
  <2>5. Announced("whole") = Final(format, n, "whole")
    <3>1. "whole" \in Names /\ 5 \in 1..H /\ FieldAt(format, 5) = "whole"
      BY <2>1 DEF Names, FieldAt
    <3>. QED
      BY <2>4, <3>1
  <2>6. Announced("data") = Final(format, n, "data")
    <3>1. CASE format = "wav"
      <4>1. "data" \in Names /\ 41 \in 1..H /\ FieldAt(format, 41) = "data"
        BY <2>1, <3>1 DEF Names, FieldAt
      <4>. QED
        BY <2>4, <4>1
    <3>2. CASE format = "aiff"
      <4>1. "data" \in Names /\ 47 \in 1..H /\ FieldAt(format, 47) = "data"
        BY <2>1, <3>2 DEF Names, FieldAt, H, HeaderLen
      <4>. QED
        BY <2>4, <4>1
    <3>. QED
      BY <2>1, <3>1, <3>2, Sizing
  <2>7. format = "aiff" => Announced("frames") = Final(format, n, "frames")
    <3>. SUFFICES ASSUME format = "aiff" PROVE Announced("frames") = Final(format, n, "frames")
      OBVIOUS
    <3>1. "frames" \in Names /\ 23 \in 1..H /\ FieldAt(format, 23) = "frames"
      BY <2>1 DEF Names, FieldAt
    <3>. QED
      BY <2>4, <3>1
  <2>. QED
    BY <2>1, <2>2, <2>5, <2>6, <2>7
<1>2. IInv => ClosedFileIsConsistent
  BY <1>1 DEF ClosedFileIsConsistent
<1>. QED
  BY <1>2, IInvAlways, PTL

\* What a step may do to the file.
LEMMA FileStep ==
  ASSUME IInv, [Next]_vars
  PROVE  /\ format' = format
         /\ \/ file' = file
            \/ /\ phase \in {"creating", "open"}
               /\ \A i \in 1..Len(file) : file'[i] = file[i]
            \/ PatchField
<1>1. CASE file' = file
  BY <1>1 DEF Next, vars, Create, Write, RefuseWrite, Store, Overflow, Tellp, Clear, CloseSync, CloseSink,
              PatchField, CloseFile, Kill
<1>2. CASE phase = "creating" /\ format' = format
  <2>1. Len(file) = 0
    BY <1>2 DEF IInv, Places
  <2>. QED
    BY <1>2, <2>1
<1>3. CASE \/ Overflow
           \/ phase = "open" /\ format' = format /\ Sync
  <2>1. phase = "open" /\ format' = format /\ SinkSeek(pos, view, 0, "cur") = Len(file)
    BY <1>3, SinkIsAtEnd DEF Overflow
  <2>2. \/ file' = file
        \/ DeviceTakes(Len(file), PcmCells(buf)) \/ DeviceThrows(Len(file), PcmCells(buf))
    BY <1>3, <2>1 DEF Overflow, Sync
  <2>3. file \in Seq(Cells) /\ faults \in 0..MaxFaults /\ PcmCells(buf) \in Seq(Cells) /\ Len(file) \in Nat
    BY PcmCellFacts DEF IInv, Shape
  <2>4. CASE DeviceTakes(Len(file), PcmCells(buf)) \/ DeviceThrows(Len(file), PcmCells(buf))
    <3>1. PICK m \in 0..Len(PcmCells(buf)) : Extended(m, PcmCells(buf))
      BY <2>3, <2>4, DeviceExtends
    <3>2. \A i \in 1..Len(file) : i \in 1..(Len(file) + m) /\ i <= Len(file)
      BY <2>3
    <3>3. \A i \in 1..Len(file) : file'[i] = file[i]
      BY <3>1, <3>2 DEF Extended
    <3>. QED
      BY <2>1, <3>3
  <2>. QED
    BY <2>1, <2>2, <2>4
<1>4. CASE PatchField
  BY <1>4 DEF PatchField
<1>5. \/ file' = file
      \/ phase = "creating" /\ format' = format
      \/ Overflow
      \/ phase = "open" /\ format' = format /\ Sync
      \/ PatchField
  BY DEF Next, vars, Create, Write, RefuseWrite, Store, Tellp, Clear, CloseSync, CloseSink, CloseFile, Kill
<1>. QED
  BY <1>1, <1>2, <1>3, <1>4, <1>5

\* Once a size is in the file its sound does not change any more, and no step
\* changes the bytes of the header around the sizes.
THEOREM SizesAreWrittenLast == Spec => SizesComeLast
<1>1. ASSUME IInv, PcmIsBehindTheHeader', [Next]_vars
      PROVE  /\ Announced("whole") # 0 => Pcm' = Pcm
             /\ \A i \in DOMAIN file : file[i].field = "fixed" => file'[i] = file[i]
  <2>1. DOMAIN file = 1..Len(file) /\ file \in Seq(Cells) /\ Len(file) \in Nat
    BY <1>1 DEF IInv, Shape
  <2>2. CASE file' = file
    <3>1. Pcm' = Pcm
      BY <1>1, <2>2, FileStep DEF Pcm
    <3>. QED
      BY <2>2, <3>1
  <2>3. CASE phase \in {"creating", "open"} /\ \A i \in 1..Len(file) : file'[i] = file[i]
    <3>1. Announced("whole") = 0
      BY <1>1, <2>3, AnnouncedIsFinal DEF Names
    <3>. QED
      BY <2>1, <2>3, <3>1
  <2>4. CASE PatchField
    <3>1. PICK at \in Nat, name \in Names, m \in 0..4 :
            /\ at + 4 <= H
            /\ \A i \in 1..H : FieldAt(format, i) = name <=> i \in (at + 1)..(at + 4)
            /\ Len(file') = Len(file)
            /\ \A i \in 1..Len(file) : ~(i \in (at + 1)..(at + m)) => file'[i] = file[i]
      BY <1>1, <2>4, PatchedFile
    <3>2. H \in 44..58 /\ H' = H
      BY <1>1, FileStep, HeaderLengths DEF IInv, Shape, H
    <3>3. ASSUME NEW i \in 1..Len(file), i > H PROVE file'[i] = file[i]
      <4>1. ~(i \in (at + 1)..(at + m))
        BY <3>1, <3>2, <3>3
      <4>. QED
        BY <3>1, <4>1
    <3>4. ASSUME NEW i \in 1..Len(file), file[i].field = "fixed" PROVE file'[i] = file[i]
      <4>1. CASE i > H
        BY <3>3, <4>1
      <4>2. CASE i \in 1..H
        <5>1. FieldAt(format, i) = "fixed"
          BY <1>1, <3>2, <3>4, <4>2 DEF IInv, Layout
        <5>2. ~(i \in (at + 1)..(at + 4))
          BY <3>1, <4>2, <5>1 DEF Names
        <5>3. ~(i \in (at + 1)..(at + m))
          BY <5>2
        <5>. QED
          BY <3>1, <5>3
      <4>. QED
        BY <3>2, <4>1, <4>2
    <3>5. Pcm' = Pcm
      <4>1. Pcm \in Seq(Cells) /\ Len(Pcm) = Sound /\ Sound \in Nat /\ \A i \in 1..Sound : Pcm[i] = file[H + i]
        BY <1>1, PcmFacts
      <4>2. Pcm' \in Seq(Cells) /\ Len(Pcm') = Sound' /\ \A i \in 1..Sound' : Pcm'[i] = file'[H' + i]
        BY <1>1 DEF PcmIsBehindTheHeader
      <4>3. Sound' = Sound
        BY <2>1, <3>1, <3>2 DEF Sound
      <4>4. ASSUME NEW i \in 1..Sound PROVE Pcm'[i] = Pcm[i]
        <5>1. H + i \in 1..Len(file) /\ H + i > H
          BY <2>1, <3>2 DEF Sound
        <5>2. file'[H + i] = file[H + i]
          BY <3>3, <5>1
        <5>. QED
          BY <3>2, <4>1, <4>2, <4>3, <5>2
      <4>5. \A s, t \in Seq(Cells) : Len(s) = Len(t) /\ (\A i \in 1..Len(s) : s[i] = t[i]) => s = t
        OBVIOUS
      <4>. QED
        BY <4>1, <4>2, <4>3, <4>4, <4>5
    <3>. QED
      BY <2>1, <3>4, <3>5
  <2>. QED
    BY <1>1, <2>2, <2>3, <2>4, FileStep
<1>2. IInv /\ PcmIsBehindTheHeader' /\ [Next]_vars =>
        [/\ Announced("whole") # 0 => Pcm' = Pcm
         /\ \A i \in DOMAIN file : file[i].field = "fixed" => file'[i] = file[i]]_vars
  BY <1>1
<1>. QED
  BY <1>2, IInvAlways, PcmAlways, PTL DEF Spec, SizesComeLast
=============================================================================
