---------------------------- MODULE FrameDevice ----------------------------
(***************************************************************************)
(* What the stream layer expects of a decoding source: a position in a row *)
(* of frames.  A read hands out the frames that follow the position, fewer *)
(* only at the end of the row; a seek moves inside the row, and only one   *)
(* to the very end may be refused and leave the position where it was.  A  *)
(* device may break, or be broken; nothing is said of what it does then,   *)
(* and nothing but a seek mends it.                                        *)
(***************************************************************************)
EXTENDS Integers, Sequences

CONSTANTS
  Total,     \* frames of the row
  Requests,  \* sizes of the reads, in frames
  Offsets    \* offsets of the seeks

VARIABLES
  at,
  got,       \* what the last read handed out, when no seek came after it
  answer,    \* the last seek and the position it reported, when no read did
  broken

NoSeek == [way |-> "none", off |-> 0, pos |-> 0]

vars == <<at, got, answer, broken>>

Within(p) == IF p < 0 THEN 0 ELSE IF p > Total THEN Total ELSE p
From(way) == CASE way = "beg" -> 0 [] way = "cur" -> at [] way = "end" -> Total

Init == at = 0 /\ got = <<>> /\ answer = NoSeek /\ broken \in BOOLEAN

Read(n) ==
  LET count == IF n <= Total - at THEN n ELSE Total - at IN
  /\ got' = [i \in 1..count |-> at + i - 1]
  /\ at' = at + count
  /\ answer' = NoSeek

Seek(off, way) ==
  /\ \/ at' = Within(From(way) + off)
     \/ ~broken /\ Within(From(way) + off) = Total /\ at' = at
  /\ answer' = [way |-> way, off |-> off, pos |-> at']
  /\ got' = <<>>

Next ==
  \/ broken'
  \/ /\ ~broken /\ ~broken'
     /\ \E n \in Requests : Read(n)
  \/ /\ ~broken'
     /\ \E off \in Offsets, way \in {"beg", "cur", "end"} : Seek(off, way)

Spec == Init /\ [][Next]_vars
=============================================================================
