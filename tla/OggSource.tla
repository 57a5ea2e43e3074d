----------------------------- MODULE OggSource -----------------------------
(***************************************************************************)
(* The OGG source: it calls libvorbis until the request is filled and adds *)
(* what it got to a position of its own.  A frame is identified by its     *)
(* index.                                                                  *)
(*                                                                         *)
(* libvorbis is external.  One call of ov_read hands out some of the       *)
(* frames of a packet; where pages of the file are damaged it answers once *)
(* with OV_HOLE, and goes on behind the hole.  A call for no bytes looks   *)
(* for the next packet all the same, so that it crosses a hole too.  After *)
(* a seek that failed the library is at some frame, and nobody knows which.*)
(***************************************************************************)
EXTENDS Positioning, Sequences

CONSTANTS
  Total,      \* ov_pcm_total: frames by the granule positions of the pages
  Gaps,       \* the frames a file may have lost: <<first, behind the last>>
  ChunkSize,  \* frames one call is asked for at most (4096 bytes)
  Requests,   \* sizes of the reads, in frames
  MaxPos,     \* bound: no read begins behind this position
  Offsets     \* offsets of the seeks, in frames

OggSourceAssumption ==
  /\ Total \in Nat \ {0}
  /\ Gaps \subseteq {g \in (0..Total) \X (0..Total) : g[1] <= g[2]}
  /\ ChunkSize \in Nat \ {0}
  /\ Requests \subseteq Nat
  /\ MaxPos \in Nat /\ MaxPos >= Total
  /\ Offsets \subseteq Int

VARIABLES
  gap,        \* the frames this file has lost
  lost,       \* whether frames were lost since the last seek that worked
  decoded,    \* the frame the library hands out next
  pos,        \* m_pos, in frames
  reading,    \* whether a read is in progress
  want, out,  \* frames requested (requested) and delivered (delivered) by it
  got, answer \* result of the last call, a read or a seek

libraryVars == <<gap, lost, decoded>>
callVars    == <<reading, want, out>>
vars == <<libraryVars, pos, callVars, got, answer>>

\* No seek since the last read.
NoSeek == [way |-> "none", off |-> 0, pos |-> 0]

Damaged == gap[1] < gap[2]
AtHole  == Damaged /\ decoded = gap[1]

TypeOK ==
  /\ gap \in Gaps /\ lost \in BOOLEAN /\ (lost => Damaged)
  /\ decoded \in 0..Total
  /\ pos \in Nat /\ (~lost => pos <= Total)
  /\ reading \in BOOLEAN
  /\ want \in Nat /\ Len(out) <= want
  /\ answer.pos \in Nat

Init ==
  /\ gap \in Gaps /\ lost = FALSE /\ decoded = 0
  /\ pos = 0
  /\ reading = FALSE /\ want = 0 /\ out = <<>>
  /\ got = <<>>
  /\ answer = NoSeek

-----------------------------------------------------------------------------
(* read: a loop of ov_read.                                                *)

BeginRead(n) ==
  /\ ~reading
  /\ pos <= MaxPos
  /\ reading' = TRUE /\ want' = n /\ out' = <<>>
  /\ UNCHANGED <<libraryVars, pos, got, answer>>

\* A call that hands out frames: those of a packet, of the chunk, of the request.
Deliver ==
  /\ reading /\ Len(out) < want /\ ~AtHole
  /\ \E count \in 1..Smaller(ChunkSize, want - Len(out)) :
       /\ decoded + count <= IF Damaged /\ decoded < gap[1] THEN gap[1] ELSE Total
       /\ out' = out \o [i \in 1..count |-> decoded + i - 1]
       /\ decoded' = decoded + count
  /\ UNCHANGED <<gap, lost, pos, reading, want, got, answer>>

\* What the last call does that hands out nothing: it crosses a hole, finds the
\* request filled (OV_EINVAL), or is at the end.
CrossHole ==
  /\ AtHole
  /\ decoded' = gap[2] /\ lost' = TRUE

EndOfLoop ==
  \/ CrossHole
  \/ ~AtHole /\ (Len(out) = want \/ decoded = Total) /\ UNCHANGED <<lost, decoded>>

\* A loop that takes a hole for a reason to call again.
ReturnBehindHoles ==
  /\ reading
  /\ IF AtHole
     THEN CrossHole /\ UNCHANGED <<pos, callVars, got, answer>>
     ELSE /\ EndOfLoop
          /\ pos' = pos + Len(out) /\ got' = out /\ answer' = NoSeek
          /\ reading' = FALSE /\ want' = 0 /\ out' = <<>>
  /\ UNCHANGED gap

\* A return that takes the request for what was delivered.
ReturnAll ==
  /\ reading
  /\ EndOfLoop
  /\ pos' = pos + want
  /\ got' = out /\ answer' = NoSeek
  /\ reading' = FALSE /\ want' = 0 /\ out' = <<>>
  /\ UNCHANGED gap

\* The loop ends with the first call that hands out nothing, for what reason ever.
Return ==
  /\ reading
  /\ EndOfLoop
  /\ pos' = pos + Len(out)
  /\ got' = out /\ answer' = NoSeek
  /\ reading' = FALSE /\ want' = 0 /\ out' = <<>>
  /\ UNCHANGED gap

-----------------------------------------------------------------------------
\* ov_pcm_seek finds the frame, or the first behind the hole it is in ...
SeekFinds(target) ==
  LET inHole == Damaged /\ target \in gap[1]..(gap[2] - 1) IN
  /\ decoded' = IF inHole THEN gap[2] ELSE target
  /\ lost' = inHole
  /\ pos' = target

\* ... or fails, in a damaged file.
SeekFails ==
  /\ Damaged
  /\ decoded' \in (0..Total) \ ((gap[1] + 1)..(gap[2] - 1))
  /\ lost' = TRUE
  /\ UNCHANGED pos

Seek(off, way) ==
  LET target == AbsolutePosition(pos, 0, Total, off, way) IN
  /\ ~reading
  /\ SeekFinds(target) \/ SeekFails
  /\ answer' = [way |-> way, off |-> off, pos |-> pos']
  /\ got' = <<>>
  /\ UNCHANGED <<gap, callVars>>

-----------------------------------------------------------------------------
Internal == Deliver \/ Return

Next ==
  \/ Internal
  \/ \E n \in Requests : BeginRead(n)
  \/ \E off \in Offsets, way \in Way : Seek(off, way)

Spec == Init /\ [][Next]_vars /\ WF_vars(Internal)

-----------------------------------------------------------------------------
(* Correctness.                                                            *)

\* As long as no frame was lost, the position the source keeps is the library's:
\* nothing in the interface keeps the two together (ogg_source: m_pos).
LibraryIsAtPosition == ~lost => decoded = pos + Len(out)

\* A read never joins the frames before a hole to those behind it: the caller, who
\* is told a number only, would take them for one stretch (ogg_source::read ends
\* its loop at the negative answer).
HoleEndsTheRead == \A i \in 1..(Len(got) - 1) : got[i + 1] = got[i] + 1
=============================================================================
