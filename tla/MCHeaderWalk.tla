---------------------------- MODULE MCHeaderWalk ----------------------------
(***************************************************************************)
(* Files for HeaderWalk: all sequences of up to MaxChunks of the chunks    *)
(* below, padded as the formats ask or not padded at all, whole or with    *)
(* the last bytes cut off, and with different bytes at all other offsets.  *)
(***************************************************************************)
EXTENDS HeaderWalk, Sequences

CONSTANT MaxChunks

C(id, length, unit, count) == [id |-> id, length |-> length, unit |-> unit, count |-> count]

WavChunks ==
  { C("fmt", 16, 4, 0), C("fmt", 40, 6, 0), C("fmt", 40, 4, 1), C("fmt", 16, 0, 0),
    C("fmt", 15, 4, 0), C("data", 13, 0, 0), C("data", 3, 0, 0), C("smpl", 60, 0, 1),
    C("smpl", 36, 0, 1), C("inst", 7, 0, 0), C("else", 0, 0, 0) }

AiffChunks ==
  { C("COMM", 18, 4, 2), C("COMM", 23, 6, 2), C("COMM", 22, 0, 2), C("COMM", 22, 4, 0),
    C("SSND", 16, 0, 0), C("SSND", 19, 2, 0), C("MARK", 11, 0, 1), C("MARK", 2, 0, 2),
    C("INST", 20, 0, 0), C("else", 9, 0, 0) }

Junk == { C("else", 0, 0, 0), C("else", 2, 0, 0), C("else", 2^SizeBits - 12, 0, 0) }

Pad(c, padded) == IF padded THEN c.length % 2 ELSE 0

Laid(kind, aifc, chunks, padded, cut, junk) ==
  LET offset[i \in 1..(Len(chunks) + 1)] ==
        IF i = 1 THEN FormBytes
        ELSE offset[i - 1] + TagBytes + chunks[i - 1].length + Pad(chunks[i - 1], padded)
      starts == {offset[i] : i \in DOMAIN chunks}
  IN  [ kind |-> kind, form |-> TRUE, aifc |-> aifc, len |-> offset[Len(chunks) + 1] - cut,
        tags |-> [p \in starts |-> chunks[CHOOSE i \in DOMAIN chunks : offset[i] = p]],
        junk |-> junk ]

UpTo(n, S) == UNION {[1..k -> S] : k \in 0..n}

Layouts == {<<TRUE, 0>>, <<FALSE, 0>>, <<TRUE, 5>>}   \* padded, bytes cut off

MCFiles ==
  ({"wav"} \X {FALSE} \X UpTo(MaxChunks, WavChunks) \X Layouts \X Junk)
    \union ({"aiff"} \X BOOLEAN \X UpTo(MaxChunks, AiffChunks) \X Layouts \X Junk)
    \union {<<"other">>}

MCContents(f) ==
  IF f = <<"other">>
  THEN [Laid("wav", FALSE, <<>>, TRUE, 0, C("else", 0, 0, 0)) EXCEPT !.form = FALSE]
  ELSE Laid(f[1], f[2], f[3], f[4][1], f[4][2], f[5])
=============================================================================
