----------------------------- MODULE ByteStream -----------------------------
(***************************************************************************)
(* The byte stream through which Media Foundation reads a file on Windows. *)
(* The system calls it from threads of its own; a mutex makes one call of  *)
(* it that touches the device wait for another.  A read may be asynchronous *)
(* by its interface: it reads at once, wraps the number of bytes in a      *)
(* counted object, puts that into a result of the system, counted too, and *)
(* has the system call back; the system then ends the read.                *)
(*                                                                         *)
(* The threads, the results and their queue are external.  The device is a *)
(* vector, which keeps its position inside its bytes, or a file, which     *)
(* goes behind them and refuses to go before them.                         *)
(***************************************************************************)
EXTENDS Positioning

CONSTANTS
  Threads,   \* threads of the system; one asynchronous read each at a time
  None,      \* no thread
  Size,      \* m_size
  Calls,     \* calls of the interface: what, and a number
  MaxAt,     \* bound: nothing moves the device behind this position
  Clamped    \* whether the device is a vector

ASSUME ByteStreamAssumption ==
  /\ None \notin Threads
  /\ Size \in Nat /\ MaxAt \in Nat /\ MaxAt >= Size
  /\ Clamped \in BOOLEAN
  /\ \A c \in Calls : c.what \in {"read", "begin", "set", "seek", "position", "end"} /\ c.n \in Int
  /\ \A c \in Calls : c.what \in {"read", "begin"} => c.n \in Nat

VARIABLES
  at,        \* position of m_source
  holder,    \* who holds m_reading
  stage,     \* per thread: idle, called, locked, left, created
  call,      \* per thread, the call in progress
  seen,      \* per thread, the position tell returned
  told,      \* per thread, the answer of a call that took effect
  read,      \* per thread, its last asynchronous read: none, queued, kept, ended, lost
  bytes,     \* per thread, ReadResult::m_bytesRead
  objectRefs,\* per thread, ReadResult::m_references
  resultRefs \* per thread, the references to the system's IMFAsyncResult

lockVars   == <<at, holder>>
callVars   == <<stage, call, seen, told>>
resultVars == <<read, bytes, objectRefs, resultRefs>>
vars == <<lockVars, callVars, resultVars>>

NoCall   == [what |-> "none", n |-> 0]
NoAnswer == [what |-> "none", from |-> 0, value |-> 0]

TypeOK ==
  /\ at \in Nat /\ (Clamped => at <= Size)
  /\ holder \in Threads \cup {None}
  /\ stage \in [Threads -> {"idle", "called", "locked", "left", "created"}]
  /\ call \in [Threads -> Calls \cup {NoCall}]
  /\ \A t \in Threads : stage[t] # "idle" => call[t] \in Calls
  /\ seen \in [Threads -> Nat]
  /\ told \in [Threads -> [what : {NoCall.what} \cup {c.what : c \in Calls}, from : Nat, value : Int]]
  /\ read \in [Threads -> {"none", "queued", "kept", "ended", "lost"}]
  /\ bytes \in [Threads -> Nat]
  /\ objectRefs \in [Threads -> Nat] /\ resultRefs \in [Threads -> Nat]

\* The constructor leaves the device at its first byte.
Init ==
  /\ at = 0 /\ holder = None
  /\ stage = [t \in Threads |-> "idle"] /\ call = [t \in Threads |-> NoCall]
  /\ seen = [t \in Threads |-> 0] /\ told = [t \in Threads |-> NoAnswer]
  /\ read = [t \in Threads |-> "none"] /\ bytes = [t \in Threads |-> 0]
  /\ objectRefs = [t \in Threads |-> 0] /\ resultRefs = [t \in Threads |-> 0]

-----------------------------------------------------------------------------
(* A call, from one of the system's threads.                               *)

Call(t, c) ==
  /\ stage[t] = "idle"
  /\ c.what = "begin" => read[t] \in {"none", "lost"}
  /\ stage' = [stage EXCEPT ![t] = "called"]
  /\ call' = [call EXCEPT ![t] = c]
  /\ UNCHANGED <<lockVars, seen, told, resultVars>>

\* A lock only reads and seeks from the beginning would take.
LockUnlessRelative(t) ==
  /\ stage[t] = "called"
  /\ call[t].what = "seek" \/ holder = None
  /\ holder' = IF call[t].what = "seek" THEN holder ELSE t
  /\ stage' = [stage EXCEPT ![t] = "locked"]
  /\ UNCHANGED <<at, call, seen, told, resultVars>>

\* std::lock_guard
Lock(t) ==
  /\ stage[t] = "called"
  /\ holder = None
  /\ holder' = t
  /\ stage' = [stage EXCEPT ![t] = "locked"]
  /\ UNCHANGED <<at, call, seen, told, resultVars>>

\* What the call answers; the lock guard goes out of scope.
TakeEffect(t, value) ==
  /\ told' = [told EXCEPT ![t] = [what |-> call[t].what, from |-> at, value |-> value]]
  /\ stage' = [stage EXCEPT ![t] = "left"]
  /\ seen' = [seen EXCEPT ![t] = 0]
  /\ holder' = IF holder = t THEN None ELSE holder
  /\ UNCHANGED <<call, resultVars>>

\* A read that is tried again when the device fails.
ReadAgain(t) ==
  LET count == IF at >= Size THEN 0 ELSE Smaller(call[t].n, Size - at) IN
  /\ stage[t] = "locked" /\ call[t].what \in {"read", "begin"}
  /\ \/ at' = at + count /\ TakeEffect(t, count)
     \/ /\ stage' = [stage EXCEPT ![t] = "called"] /\ holder' = None
        /\ UNCHANGED <<at, call, seen, told, resultVars>>

\* Read: the end of the file is no error, and no bytes; an exception is an error.
Read(t) ==
  LET count == IF at >= Size THEN 0 ELSE Smaller(call[t].n, Size - at) IN
  /\ stage[t] = "locked" /\ call[t].what \in {"read", "begin"}
  /\ \/ at' = at + count /\ TakeEffect(t, count)
     \/ UNCHANGED at /\ TakeEffect(t, -1)

\* Seek from the current position asks the device for it first.
Tell(t) ==
  /\ stage[t] = "locked" /\ call[t].what = "seek" /\ seen[t] = 0
  /\ seen' = [seen EXCEPT ![t] = at + 1]
  /\ UNCHANGED <<lockVars, stage, call, told, resultVars>>

MoveTo(t, p) ==
  LET moved == IF Clamped THEN Clamp(p, 0, Size) ELSE p IN
  \/ moved >= 0 /\ moved <= MaxAt /\ at' = moved /\ TakeEffect(t, moved)
  \/ moved < 0 /\ UNCHANGED at /\ TakeEffect(t, -1)

\* Seek
SeekCurrent(t) ==
  /\ stage[t] = "locked" /\ call[t].what = "seek" /\ seen[t] > 0
  /\ MoveTo(t, seen[t] - 1 + call[t].n)

\* SetCurrentPosition, and Seek from the beginning
SeekBegin(t) ==
  /\ stage[t] = "locked" /\ call[t].what = "set"
  /\ MoveTo(t, call[t].n)

\* GetCurrentPosition, IsEndOfStream
Ask(t) ==
  /\ stage[t] = "locked" /\ call[t].what \in {"position", "end"}
  /\ UNCHANGED at
  /\ TakeEffect(t, IF call[t].what = "position" THEN at ELSE IF at >= Size THEN 1 ELSE 0)

Return(t) ==
  /\ stage[t] = "left" /\ call[t].what # "begin"
  /\ stage' = [stage EXCEPT ![t] = "idle"]
  /\ call' = [call EXCEPT ![t] = NoCall] /\ told' = [told EXCEPT ![t] = NoAnswer]
  /\ UNCHANGED <<lockVars, seen, resultVars>>

-----------------------------------------------------------------------------
(* BeginRead, behind its read: a failure of the read is not looked at.     *)

\* new ReadResult has a reference, the result takes another, and the first is given
\* back; when no result can be made that was the last.  A result the thread lost
\* before stays as it is, and is not followed any further.
CreateResult(t) ==
  /\ stage[t] = "left" /\ call[t].what = "begin"
  /\ stage' = [stage EXCEPT ![t] = "created"]
  /\ \E made \in BOOLEAN :
       /\ bytes' = [bytes EXCEPT ![t] = IF made THEN Larger(told[t].value, 0) ELSE 0]
       /\ objectRefs' = [objectRefs EXCEPT ![t] = IF made THEN 1 ELSE 0]
       /\ resultRefs' = [resultRefs EXCEPT ![t] = IF made THEN 1 ELSE 0]
  /\ read' = [read EXCEPT ![t] = "none"]
  /\ UNCHANGED <<lockVars, call, seen, told>>

\* A BeginRead that gives its own reference to the result back.
InvokeAndRelease(t) ==
  /\ stage[t] = "created"
  /\ \/ resultRefs[t] > 0 /\ read' = [read EXCEPT ![t] = "queued"] /\ UNCHANGED resultRefs
     \/ /\ resultRefs[t] > 0
        /\ read' = [read EXCEPT ![t] = "lost"]
        /\ resultRefs' = [resultRefs EXCEPT ![t] = @ - 1]
     \/ resultRefs[t] = 0 /\ UNCHANGED <<read, resultRefs>>
  /\ stage' = [stage EXCEPT ![t] = "idle"]
  /\ call' = [call EXCEPT ![t] = NoCall] /\ told' = [told EXCEPT ![t] = NoAnswer]
  /\ UNCHANGED <<lockVars, seen, bytes, objectRefs>>

\* MFInvokeCallback: the queue takes a reference, or fails and takes none.  BeginRead
\* keeps its own in both cases; it reports the failure, and nobody ends the read.
Invoke(t) ==
  /\ stage[t] = "created"
  /\ \/ /\ resultRefs[t] > 0
        /\ read' = [read EXCEPT ![t] = "queued"]
        /\ resultRefs' = [resultRefs EXCEPT ![t] = @ + 1]
     \/ resultRefs[t] > 0 /\ read' = [read EXCEPT ![t] = "lost"] /\ UNCHANGED resultRefs
     \/ resultRefs[t] = 0 /\ UNCHANGED <<read, resultRefs>>
  /\ stage' = [stage EXCEPT ![t] = "idle"]
  /\ call' = [call EXCEPT ![t] = NoCall] /\ told' = [told EXCEPT ![t] = NoAnswer]
  /\ UNCHANGED <<lockVars, seen, bytes, objectRefs>>

\* A result that is freed gives its object back.
ReleaseResult(t) ==
  /\ resultRefs' = [resultRefs EXCEPT ![t] = @ - 1]
  /\ objectRefs' = [objectRefs EXCEPT ![t] = IF resultRefs[t] = 1 THEN @ - 1 ELSE @]

\* An EndRead that leaves the result to its caller.
EndReadWithoutRelease(t) ==
  /\ read[t] \in {"queued", "kept"}
  /\ read' = [read EXCEPT ![t] = "ended"]
  /\ UNCHANGED <<lockVars, callVars, bytes, objectRefs, resultRefs>>

\* EndRead: the object is borrowed, and the reference BeginRead kept given back.
EndRead(t) ==
  /\ read[t] \in {"queued", "kept"}
  /\ read' = [read EXCEPT ![t] = "ended"]
  /\ ReleaseResult(t)
  /\ UNCHANGED <<lockVars, callVars, bytes>>

\* The callback may put the end of the read off: it takes a reference of its own in
\* the place of the queue's, which is given back when the callback returns.
KeepResult(t) ==
  /\ read[t] = "queued"
  /\ read' = [read EXCEPT ![t] = "kept"]
  /\ UNCHANGED <<lockVars, callVars, bytes, objectRefs, resultRefs>>

\* The queue, or the one who kept the result, gives it back.
Drop(t) ==
  /\ read[t] = "ended"
  /\ read' = [read EXCEPT ![t] = "none"]
  /\ bytes' = [bytes EXCEPT ![t] = 0]
  /\ ReleaseResult(t)
  /\ UNCHANGED <<lockVars, callVars>>

-----------------------------------------------------------------------------
Steps(t) ==
  \/ Lock(t) \/ Read(t) \/ Tell(t) \/ SeekCurrent(t) \/ SeekBegin(t) \/ Ask(t)
  \/ Return(t) \/ CreateResult(t) \/ Invoke(t)

Ends(t) == EndRead(t) \/ Drop(t)

Next == \E t \in Threads :
  \/ Steps(t) \/ Ends(t) \/ KeepResult(t)
  \/ \E c \in Calls : Call(t, c)

\* A thread that can go on does; the system ends the reads it began.  The mutex
\* promises no order among those that wait for it, and none is assumed.
Spec == Init /\ [][Next]_vars /\ \A t \in Threads : WF_vars(Steps(t)) /\ WF_vars(Ends(t))

-----------------------------------------------------------------------------
(* Correctness.                                                            *)

\* Whatever threads call it, the byte stream behaves as one whose calls take effect
\* at once: no other call comes between the device's position that a relative seek
\* asks for and the one it sets (SyncronousByteStream::m_reading).
Atomic == INSTANCE AtomicByteStream
ImplementsAtomicStream == Atomic!Spec

\* A result that was queued lives until its read is ended and its last holder has let
\* go of it, and no longer; one that could not be queued is left with the reference
\* of BeginRead, which nobody gives back, and lives for ever.  The object in a result
\* lives as long (BeginRead and EndRead share out the references between them).
ResultsLiveAsLongAsTheirReads ==
  \A t \in Threads :
    /\ read[t] \in {"queued", "kept"} => resultRefs[t] = 2 /\ objectRefs[t] = 1
    /\ read[t] \in {"ended", "lost"} =>
         resultRefs[t] = 1 /\ objectRefs[t] = 1
    /\ read[t] = "none" /\ stage[t] # "created" => resultRefs[t] = 0 /\ objectRefs[t] = 0

\* A call that has got the mutex returns, whatever the device does and however the
\* other threads call (std::lock_guard; nothing is tried again).
CallsReturn == \A t \in Threads : stage[t] = "locked" ~> stage[t] = "idle"
=============================================================================
