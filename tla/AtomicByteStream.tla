-------------------------- MODULE AtomicByteStream --------------------------
(***************************************************************************)
(* What Media Foundation expects of a byte stream it calls from threads of *)
(* its own: every call takes effect at once, at one position in a row of   *)
(* bytes, and answers what that position was then.                         *)
(***************************************************************************)
EXTENDS Integers

CONSTANTS
  Threads,
  Size,     \* bytes of the row
  Calls,    \* calls of the interface: what, and a number
  Clamped   \* whether a position is kept inside the row

VARIABLES
  at,
  told      \* per thread, the answer of a call that took effect and has not returned

vars == <<at, told>>

NoAnswer == [what |-> "none", from |-> 0, value |-> 0]
Answer(call, value) == [what |-> call.what, from |-> at, value |-> value]

Bytes(n) == IF at >= Size THEN 0 ELSE IF n <= Size - at THEN n ELSE Size - at
Moved(p) == IF Clamped /\ p > Size THEN Size ELSE IF Clamped /\ p < 0 THEN 0 ELSE p

Init == at = 0 /\ told = [t \in Threads |-> NoAnswer]

Reads(t, call) ==
  /\ call.what \in {"read", "begin"}
  /\ \/ /\ told' = [told EXCEPT ![t] = Answer(call, Bytes(call.n))]
        /\ at' = at + Bytes(call.n)
     \/ /\ told' = [told EXCEPT ![t] = Answer(call, -1)]   \* the device failed
        /\ at' = at

Moves(t, call, p) ==
  \/ /\ p >= 0 \/ Clamped
     /\ at' = Moved(p)
     /\ told' = [told EXCEPT ![t] = Answer(call, Moved(p))]
  \/ /\ p < 0 /\ ~Clamped                                   \* the device refuses
     /\ at' = at
     /\ told' = [told EXCEPT ![t] = Answer(call, -1)]

Asks(t, call, value) ==
  /\ told' = [told EXCEPT ![t] = Answer(call, value)]
  /\ at' = at

TakesEffect(t, call) ==
  \/ Reads(t, call)
  \/ call.what = "set" /\ Moves(t, call, call.n)
  \/ call.what = "seek" /\ Moves(t, call, at + call.n)
  \/ call.what = "position" /\ Asks(t, call, at)
  \/ call.what = "end" /\ Asks(t, call, IF at >= Size THEN 1 ELSE 0)

Returns(t) ==
  /\ told' = [told EXCEPT ![t] = NoAnswer]
  /\ at' = at

Next == \E t \in Threads : Returns(t) \/ \E call \in Calls : TakesEffect(t, call)

Spec == Init /\ [][Next]_vars
=============================================================================
