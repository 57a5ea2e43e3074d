---------------------------- MODULE SampleStream ----------------------------
(***************************************************************************)
(* What audio::istream promises its client: a position in a row of bytes   *)
(* and three state bits.  There is no buffer, no device and no file; a     *)
(* read delivers the bytes that follow the position it was called at, a    *)
(* seek moves the position inside the row, and both take one step.         *)
(***************************************************************************)
EXTENDS Integers, Sequences

CONSTANTS
  First,      \* identity of the first byte of the row
  Total,      \* bytes in the row
  Sizes,      \* sizes of the requests, in bytes
  Offsets,    \* offsets of the seeks
  MayFail     \* whether reading may break down

VARIABLES
  at, eof, fail, bad,
  asked,          \* the last call and its arguments
  result, told,   \* what it delivered and answered
  gcount

vars == <<at, eof, fail, bad, asked, result, told, gcount>>

Failed  == fail \/ bad
Good    == ~eof /\ ~Failed
Pad     == -1
Left    == Total - at
Min(a, b) == IF a <= b THEN a ELSE b
Bytes(n) == [i \in 1..n |-> First + at + i - 1]
Pads(n)  == [i \in 1..n |-> Pad]
Ask(op, arg, way) == [op |-> op, arg |-> arg, way |-> way]
Within(p) == IF p < 0 THEN 0 ELSE IF p > Total THEN Total ELSE p

Init ==
  /\ at = 0
  /\ eof = FALSE /\ fail = FALSE /\ bad = FALSE
  /\ asked = Ask("open", 0, "beg") /\ result = <<>> /\ told = 0
  /\ gcount = 0

\* Raw bytes: a short read fails the stream, and delivers what there was.
Read(n) ==
  /\ Good
  /\ asked' = Ask("read", n, "cur") /\ told' = 0
  /\ result' = Bytes(Min(n, Left))
  /\ at' = at + Min(n, Left)
  /\ gcount' = Min(n, Left)
  /\ eof' = (n > Left) /\ fail' = (n > Left)
  /\ UNCHANGED bad

ReadRefused ==
  /\ ~Good
  /\ fail' = TRUE /\ gcount' = 0
  /\ asked' = Ask("refused", 0, "cur") /\ result' = <<>> /\ told' = 0
  /\ UNCHANGED <<at, eof, bad>>

\* A range of samples: padded at the end of the row, refused only behind it.
ReadRange(n) ==
  /\ ~Failed /\ n > 0
  /\ asked' = Ask("range", n, "cur") /\ told' = 0
  /\ at' = at + Min(n, Left)
  /\ \/ Left = 0 /\ eof' = TRUE /\ fail' = TRUE /\ result' = <<>>
     \/ /\ Left > 0
        /\ result' = Bytes(Min(n, Left)) \o Pads(n - Min(n, Left))
        /\ eof' = (eof \/ n > Left)
        /\ UNCHANGED fail
  /\ UNCHANGED <<bad, gcount>>

\* Reading broke down: a prefix went to the client, and only that was consumed.
ReadBroken(n) ==
  /\ MayFail /\ ~Failed
  /\ \E m \in 0..Min(n, Left) : result' = Bytes(m) /\ at' = at + m
  /\ \/ Good /\ asked' = Ask("read", n, "cur") /\ bad' = TRUE /\ gcount' = 0
     \/ asked' = Ask("range", n, "cur") /\ UNCHANGED <<bad, gcount>>
  /\ told' = 0
  /\ UNCHANGED <<eof, fail>>

Seek(off, way) ==
  /\ eof' = FALSE
  /\ \/ Failed /\ fail' = TRUE /\ UNCHANGED at
     \/ /\ ~Failed
        /\ at' = Within(off + (CASE way = "beg" -> 0 [] way = "cur" -> at [] way = "end" -> Total))
        /\ UNCHANGED fail
  /\ asked' = Ask("seek", off, way) /\ result' = <<>> /\ told' = 0
  /\ UNCHANGED <<bad, gcount>>

Tell ==
  /\ told' = IF Good THEN at ELSE -1
  /\ fail' = (fail \/ ~Good)
  /\ asked' = Ask("tell", 0, "cur") /\ result' = <<>>
  /\ UNCHANGED <<at, eof, bad, gcount>>

Clear ==
  /\ eof' = FALSE /\ fail' = FALSE /\ bad' = FALSE
  /\ asked' = Ask("clear", 0, "cur") /\ result' = <<>> /\ told' = 0
  /\ UNCHANGED <<at, gcount>>

Next ==
  \/ \E n \in Sizes : Read(n) \/ ReadRange(n) \/ ReadBroken(n)
  \/ ReadRefused
  \/ \E off \in Offsets, way \in {"beg", "cur", "end"} : Seek(off, way)
  \/ Tell
  \/ Clear

Spec == Init /\ [][Next]_vars
=============================================================================
