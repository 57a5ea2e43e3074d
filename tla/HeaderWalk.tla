----------------------------- MODULE HeaderWalk -----------------------------
(***************************************************************************)
(* How a WAV or AIFF source opens a file: from tag to tag through its      *)
(* chunks until the sound data is found, then a view is laid over the      *)
(* data.  WAV stops at the first data chunk; AIFF walks once for the COMM  *)
(* chunk and once more for SSND.                                           *)
(*                                                                         *)
(* A file is what the walk can meet: the tags by their offset, a tag for   *)
(* what is read at any other offset, and the length.  Sizes and offsets    *)
(* have the width of the code's uint32_t.                                  *)
(***************************************************************************)
EXTENDS Integers

CONSTANTS
  Files,       \* the files to open ...
  Contents(_), \* ... and what the walk can meet in each
  SizeBits     \* width of a chunk length (32)

TagBytes   == 8       \* id and length
FormBytes  == 12      \* RIFF, length, WAVE; FORM, length, AIFF or AIFC

\* An id is written without its blank.  A tag's unit and count say what its body
\* describes: the bytes of a frame (0 when the reader refuses the format) and the
\* frames, loops or markers; a fmt's count says whether its format is extensible.
Ids  == {"fmt", "data", "smpl", "inst", "COMM", "SSND", "MARK", "INST", "else"}
Tags == [id: Ids, length: Nat, unit: Nat, count: Nat]

\* The provers do not derive the first line from SizeBits \in Nat.
ASSUME HeaderWalkAssumption ==
  /\ SizeBits \in Nat /\ 2^SizeBits \in Nat \ {0}
  /\ \A f \in Files :
       /\ Contents(f).kind \in {"wav", "aiff"}
       /\ Contents(f).len \in Nat
       /\ Contents(f).junk \in Tags
       /\ \A p \in DOMAIN Contents(f).tags : p \in Nat /\ Contents(f).tags[p] \in Tags

Uint32(x)  == x % 2^SizeBits

VARIABLES
  media,  \* the file: kind, form (the ids at its start fit), aifc, len, tags, junk
  pos,    \* where the next tag is read
  pass,   \* form, chunks; for AIFF the second pass is sound
  info,   \* bytes per frame and frames found so far
  view    \* the view of the opened source; phase says whether there is one

vars == <<media, pos, pass, info, view>>

Walking  == pass \in {"form", "chunks", "sound"}
Opened   == pass = "opened"
Refused  == pass = "refused"
NoInfo   == [unit |-> 0, frames |-> 0]

\* fetch: all of n bytes are there.
CanFetch(p, n) == p + n <= media.len
TagAt(p) == IF p \in DOMAIN media.tags THEN media.tags[p] ELSE media.junk
Tag      == TagAt(pos)
Body     == pos + TagBytes

TypeOK ==
  /\ pos \in Nat
  /\ pass \in {"form", "chunks", "sound", "opened", "refused"}
  /\ info \in [unit: Nat, frames: Nat]
  /\ view \in [beg: Nat, end: Nat]
  /\ info.frames > 0 => info.unit > 0

Init ==
  /\ \E f \in Files : media = Contents(f)
  /\ pos = 0
  /\ pass = "form"
  /\ info = NoInfo
  /\ view = [beg |-> 0, end |-> 0]

Refuse == pass' = "refused" /\ UNCHANGED <<media, pos, info, view>>

\* The header is read; the constructor lays the view over its frames.
OpenAt(beg, found) ==
  /\ info' = found
  /\ view' = [beg |-> beg, end |-> beg + found.frames * found.unit]
  /\ pos' = beg
  /\ pass' = "opened"
  /\ UNCHANGED media

\* A walk that measures from the tag and not from behind it.
FollowingFromTag(p) ==
  LET end == Uint32(p + TagAt(p).length) IN end + (TagAt(p).length % 2)

\* Where the walk goes on: WAV masks the lowest bit, AIFF adds the remainder.
Following(p) ==
  LET end == Uint32(p + TagBytes + TagAt(p).length) IN
  IF media.kind = "wav"
  THEN LET past == Uint32(end + 1) IN past - (past % 2)
  ELSE end + (TagAt(p).length % 2)

Skip == pos' = Following(pos)

-----------------------------------------------------------------------------
ReadForm ==
  /\ pass = "form"
  /\ IF media.form /\ CanFetch(pos, FormBytes)
     THEN pos' = FormBytes /\ pass' = "chunks" /\ UNCHANGED <<media, info, view>>
     ELSE Refuse

\* The loop's condition: the tag is there, and in WAV its length is not zero.
HasTag == CanFetch(pos, TagBytes) /\ (media.kind = "wav" => Tag.length > 0)
At(kind, during, id) == media.kind = kind /\ pass = during /\ HasTag /\ Tag.id = id

\* fmt: 16 bytes; when its length has room for the extension the size of it, and the
\* extension when the format is extensible.
FormatNeeds == IF Tag.length < 40 THEN 16 ELSE IF Tag.count = 0 THEN 18 ELSE 40

WavFormat ==
  /\ At("wav", "chunks", "fmt")
  /\ IF Tag.length >= 16 /\ CanFetch(Body, FormatNeeds) /\ Tag.unit > 0
     THEN info' = [info EXCEPT !.unit = Tag.unit] /\ Skip /\ UNCHANGED <<media, pass, view>>
     ELSE Refuse

WavData ==
  /\ At("wav", "chunks", "data")
  /\ IF info.unit > 0 /\ Tag.length \div info.unit >= 1
     THEN OpenAt(Body, [info EXCEPT !.frames = Tag.length \div info.unit])
     ELSE Refuse

\* smpl (36 bytes and 24 for each loop), inst (7 bytes) and what is not known.
WavOther ==
  /\ \E id \in {"smpl", "inst", "else", "COMM", "SSND", "MARK", "INST"} : At("wav", "chunks", id)
  /\ IF \/ Tag.id = "smpl" /\ Tag.length >= 36 /\ ~CanFetch(Body, 36 + 24 * Tag.count)
        \/ Tag.id = "inst" /\ Tag.length >= 7 /\ ~CanFetch(Body, 7)
     THEN Refuse
     ELSE Skip /\ UNCHANGED <<media, pass, info, view>>

\* COMM: 18 bytes; in an AIFC file the compression, and its name when the length
\* leaves room for one.
CommonNeeds == IF ~media.aifc THEN 18 ELSE IF Tag.length > 22 THEN 23 ELSE 22

\* COMM taken as it is.
AiffCommonUnchecked ==
  /\ At("aiff", "chunks", "COMM")
  /\ info' = [unit |-> Tag.unit, frames |-> Tag.count]
  /\ Skip
  /\ UNCHANGED <<media, pass, view>>

AiffCommon ==
  /\ At("aiff", "chunks", "COMM")
  /\ IF /\ Tag.length >= 18 /\ CanFetch(Body, CommonNeeds)
        /\ Tag.count >= 1 /\ Tag.unit > 0
     THEN /\ info' = [unit |-> Tag.unit, frames |-> Tag.count]
          /\ Skip
          /\ UNCHANGED <<media, pass, view>>
     ELSE Refuse

\* MARK (2 bytes, and 8 for each marker with an empty pascal string, whose pad
\* byte is only sought over), INST (20).
AiffOther ==
  /\ \E id \in Ids \ {"COMM"} : At("aiff", "chunks", id)
  /\ IF \/ Tag.id = "MARK" /\ CanFetch(Body, 2) /\ ~CanFetch(Body, 1 + 8 * Tag.count)
        \/ Tag.id = "INST" /\ ~CanFetch(Body, 20)
     THEN Refuse
     ELSE Skip /\ UNCHANGED <<media, pass, info, view>>

\* A second pass that goes on where the first one ended.
NoTagWithoutRewind ==
  /\ pass \in {"chunks", "sound"} /\ ~HasTag
  /\ IF media.kind = "aiff" /\ pass = "chunks" /\ info # NoInfo
     THEN pass' = "sound" /\ UNCHANGED <<media, pos, info, view>>
     ELSE Refuse

\* No more tags: AIFF goes back behind FORM to look for SSND.
NoTag ==
  /\ pass \in {"chunks", "sound"} /\ ~HasTag
  /\ IF media.kind = "aiff" /\ pass = "chunks" /\ info # NoInfo
     THEN pos' = FormBytes /\ pass' = "sound" /\ UNCHANGED <<media, info, view>>
     ELSE Refuse

\* SSND whose offset field is ignored.
AiffSoundWithoutOffset ==
  /\ At("aiff", "sound", "SSND")
  /\ IF CanFetch(Body, 8) THEN OpenAt(Body + 8, info) ELSE Refuse

\* SSND: 8 bytes, the first of which say how far behind them the data begins
\* (the tag's unit); its length is not looked at.
AiffSound ==
  /\ At("aiff", "sound", "SSND")
  /\ IF CanFetch(Body, 8) THEN OpenAt(Body + 8 + Tag.unit, info) ELSE Refuse

AiffSkip ==
  /\ \E id \in Ids \ {"SSND"} : At("aiff", "sound", id)
  /\ Skip
  /\ UNCHANGED <<media, pass, info, view>>

Next ==
  \/ ReadForm
  \/ WavFormat \/ WavData \/ WavOther
  \/ AiffCommon \/ AiffOther
  \/ NoTag
  \/ AiffSound \/ AiffSkip

Spec == Init /\ [][Next]_vars /\ WF_vars(Next)

-----------------------------------------------------------------------------
(* Correctness.                                                            *)

Chunk(p) == media.tags[p]
End(p)   == p + TagBytes + Chunk(p).length + (Chunk(p).length % 2)
Chunks   == DOMAIN media.tags

\* A file as the formats describe it: chunks one behind the other, each padded
\* to an even length, up to the end of the file, with lengths the walk can add
\* (and round up).
WellFormed ==
  /\ media.form
  /\ FormBytes \in Chunks \union {media.len}
  /\ \A p \in Chunks :
       /\ FormBytes <= p /\ End(p) <= media.len /\ End(p) + 1 < 2^SizeBits
       /\ End(p) \in Chunks \union {media.len}
  /\ \A p, q \in Chunks : p < q => End(p) <= q

\* The body of a chunk is as long as its contents need.
WellDescribed(c) ==
  /\ c.id = "fmt" => c.length >= 16
  /\ c.id = "smpl" => c.length >= 36 + 24 * c.count
  /\ c.id = "COMM" => c.length >= (IF media.aifc THEN 22 ELSE 18)
  /\ c.id = "MARK" => c.length >= 2 + 8 * c.count
  /\ c.id = "INST" => c.length >= 20
  /\ c.id = "SSND" => c.length >= 8

\* The last description of the format the walk comes by, and the sound data.
Before(p, id)  == {q \in Chunks : q < p /\ Chunk(q).id = id}
LastBefore(p, id) == CHOOSE q \in Before(p, id) : \A r \in Before(p, id) : r <= q
First(id, p)   == p \in Chunks /\ Chunk(p).id = id /\ Before(p, id) = {}

\* A WAV file the reader understands: a format in front of the first data chunk,
\* which holds a frame, and no empty chunk before it.
WavComplete(p) ==
  /\ First("data", p) /\ Before(p, "fmt") # {}
  /\ \A q \in Chunks : q < p => Chunk(q).length > 0 /\ (Chunk(q).id = "fmt" => Chunk(q).unit > 0)
  /\ Chunk(p).length >= Chunk(LastBefore(p, "fmt")).unit

\* An AIFF file it understands: COMM and SSND, in whatever order.
AiffComplete(p) ==
  /\ First("SSND", p) /\ Before(media.len, "COMM") # {}
  /\ \A q \in Chunks : Chunk(q).id = "COMM" => Chunk(q).unit > 0 /\ Chunk(q).count > 0

Complete(p) == IF media.kind = "wav" THEN WavComplete(p) ELSE AiffComplete(p)

\* Files that are all right are opened, whatever chunks they hold and however
\* these are ordered and padded.
CompleteFilesOpen ==
  WellFormed /\ (\A q \in Chunks : WellDescribed(Chunk(q))) /\ (\E p \in Chunks : Complete(p))
    => ~Refused

\* The view begins with the first byte of the data chunk p and holds the frames
\* that chunk (in AIFF, the COMM chunk) announces, and no part of another one.
ViewIsOn(p) ==
  IF media.kind = "wav"
  THEN LET unit == Chunk(LastBefore(p, "fmt")).unit
           size == view.end - view.beg
       IN  /\ view.beg = p + TagBytes
           /\ size <= Chunk(p).length /\ Chunk(p).length < size + unit /\ size % unit = 0
  ELSE LET comm == Chunk(LastBefore(media.len, "COMM"))
       IN  /\ view.beg = p + TagBytes + 8 + Chunk(p).unit
           /\ view.end = view.beg + comm.unit * comm.count

\* A file is opened only on its sound data: the view of an opened source is that
\* of the first data (SSND) chunk of a file that has all it takes.
OpenedOnTheData ==
  WellFormed /\ Opened => \E p \in Chunks : Complete(p) /\ ViewIsOn(p)

\* Opening a file ends, also when its lengths are wrong, as long as no offset
\* outgrows the width the walk computes with.
OpeningEnds ==
  (\A t \in {media.junk} \union {Chunk(p) : p \in Chunks} : media.len + t.length < 2^SizeBits - 1)
    ~> ~Walking
=============================================================================
