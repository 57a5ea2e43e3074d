-------------------------- MODULE ByteStreamProofs --------------------------
(***************************************************************************)
(* What holds of ByteStream for any threads, calls and file.               *)
(***************************************************************************)
EXTENDS ByteStream, TLAPS

-----------------------------------------------------------------------------
(* The inductive invariant.                                                *)

\* The mutex is held by the one thread whose call is inside.
HolderIsInside == \A t \in Threads : holder = t <=> stage[t] = "locked"

\* A position asked for under the mutex is still the device's.
SeenIsCurrent == \A t \in Threads : seen[t] > 0 => stage[t] = "locked" /\ seen[t] = at + 1

\* Nobody is told an answer before his call has taken effect, or without a call.
ToldInCalls == \A t \in Threads : stage[t] \notin {"left", "created"} => told[t] = NoAnswer

\* A thread begins one read at a time, and made its result or failed to.
OneReadAtATime == \A t \in Threads :
  /\ stage[t] # "idle" /\ call[t].what = "begin" => read[t] \in {"none", "lost"}
  /\ stage[t] = "created" =>
       /\ call[t].what = "begin" /\ read[t] = "none"
       /\ resultRefs[t] \in {0, 1} /\ objectRefs[t] = resultRefs[t]

IInv ==
  /\ TypeOK
  /\ HolderIsInside
  /\ SeenIsCurrent
  /\ ToldInCalls
  /\ OneReadAtATime
  /\ ResultsLiveAsLongAsTheirReads

LEMMA InitIInv == Init => IInv
BY ByteStreamAssumption
   DEF Init, IInv, TypeOK, HolderIsInside, SeenIsCurrent, ToldInCalls, OneReadAtATime,
       ResultsLiveAsLongAsTheirReads, NoCall, NoAnswer

-----------------------------------------------------------------------------
(* Where a call leaves the device.                                         *)

LEMMA ReadsCount ==
  ASSUME NEW p \in Nat, NEW n \in Nat
  PROVE  LET count == IF p >= Size THEN 0 ELSE Smaller(n, Size - p) IN
         /\ count \in Nat
         /\ p <= Size => p + count <= Size
BY ByteStreamAssumption DEF Smaller

\* What taking effect does beside moving the device.
LEMMA TakeEffectStep ==
  ASSUME IInv, NEW t \in Threads, NEW v \in Int, stage[t] = "locked", TakeEffect(t, v),
         at' \in Nat, Clamped => at' <= Size
  PROVE  IInv'
<1>. USE DEF IInv, TakeEffect
<1>1. TypeOK'
  BY ByteStreamAssumption DEF TypeOK, resultVars
<1>2. holder = t
  BY DEF HolderIsInside
<1>3. HolderIsInside'
  BY <1>2, ByteStreamAssumption DEF HolderIsInside, TypeOK
<1>4. \A u \in Threads \ {t} : seen[u] = 0
  BY <1>2 DEF SeenIsCurrent, HolderIsInside, TypeOK
<1>5. SeenIsCurrent'
  BY <1>4 DEF SeenIsCurrent, TypeOK
<1>6. ToldInCalls'
  BY DEF ToldInCalls, TypeOK
<1>7. OneReadAtATime' /\ ResultsLiveAsLongAsTheirReads'
  BY DEF OneReadAtATime, ResultsLiveAsLongAsTheirReads, TypeOK, resultVars
<1>. QED
  BY <1>1, <1>3, <1>5, <1>6, <1>7

LEMMA MoveStep ==
  ASSUME IInv, NEW t \in Threads, NEW p \in Int, stage[t] = "locked", MoveTo(t, p)
  PROVE  IInv'
<1>1. CASE at' = at /\ TakeEffect(t, -1)
  BY <1>1, TakeEffectStep DEF IInv, TypeOK
<1>2. CASE \E m \in Int : m >= 0 /\ (Clamped => m <= Size) /\ at' = m /\ TakeEffect(t, m)
  BY <1>2, TakeEffectStep
<1>3. (IF Clamped THEN Clamp(p, 0, Size) ELSE p) \in Int
  BY ByteStreamAssumption DEF Clamp
<1>4. Clamped => Clamp(p, 0, Size) <= Size
  BY ByteStreamAssumption DEF Clamp
<1>. QED
  BY <1>1, <1>2, <1>3, <1>4 DEF MoveTo

LEMMA ReadStep ==
  ASSUME IInv, NEW t \in Threads, Read(t)
  PROVE  IInv'
<1>. DEFINE count == IF at >= Size THEN 0 ELSE Smaller(call[t].n, Size - at)
<1>1. call[t].n \in Nat /\ at \in Nat /\ (Clamped => at <= Size)
  BY ByteStreamAssumption DEF IInv, TypeOK, Read
<1>2. count \in Nat /\ (at <= Size => at + count <= Size)
  BY <1>1, ReadsCount
<1>3. CASE at' = at + count /\ TakeEffect(t, count)
  <2>. HIDE DEF count
  <2>1. at' \in Nat /\ (Clamped => at' <= Size)
    BY <1>1, <1>2, <1>3
  <2>. QED
    BY <1>2, <1>3, <2>1, TakeEffectStep DEF Read
<1>4. CASE at' = at /\ TakeEffect(t, -1)
  BY <1>1, <1>4, TakeEffectStep DEF Read
<1>. QED
  BY <1>3, <1>4 DEF Read

-----------------------------------------------------------------------------
(* Every step keeps the invariant.                                         *)

\* The steps in which nobody moves the device and no result changes hands.
LEMMA CallStep ==
  ASSUME IInv, NEW t \in Threads,
         Lock(t) \/ Tell(t) \/ Return(t) \/ \E c \in Calls : Call(t, c)
  PROVE  IInv'
<1>. USE ByteStreamAssumption DEF IInv, lockVars, resultVars
<1>1. CASE Lock(t)
  BY <1>1 DEF Lock, TypeOK, HolderIsInside, SeenIsCurrent, ToldInCalls, OneReadAtATime,
              ResultsLiveAsLongAsTheirReads
<1>2. CASE Tell(t)
  <2>1. TypeOK'
    BY <1>2 DEF Tell, TypeOK
  <2>2. HolderIsInside' /\ SeenIsCurrent'
    BY <1>2 DEF Tell, TypeOK, HolderIsInside, SeenIsCurrent
  <2>3. ToldInCalls' /\ OneReadAtATime' /\ ResultsLiveAsLongAsTheirReads'
    BY <1>2 DEF Tell, TypeOK, ToldInCalls, OneReadAtATime, ResultsLiveAsLongAsTheirReads
  <2>. QED
    BY <2>1, <2>2, <2>3
<1>3. CASE Return(t)
  <2>1. TypeOK'
    BY <1>3 DEF Return, TypeOK, NoAnswer, NoCall
  <2>2. HolderIsInside' /\ SeenIsCurrent'
    BY <1>3 DEF Return, TypeOK, HolderIsInside, SeenIsCurrent
  <2>3. ToldInCalls' /\ OneReadAtATime' /\ ResultsLiveAsLongAsTheirReads'
    BY <1>3 DEF Return, TypeOK, ToldInCalls, OneReadAtATime, ResultsLiveAsLongAsTheirReads
  <2>. QED
    BY <2>1, <2>2, <2>3
<1>4. ASSUME NEW c \in Calls, Call(t, c)
      PROVE  IInv'
  <2>1. TypeOK'
    BY <1>4 DEF Call, TypeOK
  <2>2. HolderIsInside' /\ SeenIsCurrent'
    BY <1>4 DEF Call, TypeOK, HolderIsInside, SeenIsCurrent
  <2>3. ToldInCalls' /\ OneReadAtATime' /\ ResultsLiveAsLongAsTheirReads'
    BY <1>4 DEF Call, TypeOK, ToldInCalls, OneReadAtATime, ResultsLiveAsLongAsTheirReads
  <2>. QED
    BY <2>1, <2>2, <2>3
<1>. QED
  BY <1>1, <1>2, <1>3, <1>4

\* The steps in which references to a result are made or given back.
LEMMA ResultStep ==
  ASSUME IInv, NEW t \in Threads,
         CreateResult(t) \/ Invoke(t) \/ EndRead(t) \/ KeepResult(t) \/ Drop(t)
  PROVE  IInv'
<1>. USE ByteStreamAssumption DEF IInv, lockVars, callVars
<1>1. TypeOK'
  <2>1. CASE CreateResult(t)
    BY <2>1 DEF CreateResult, TypeOK, Larger
  <2>2. CASE Invoke(t)
    <3>0. /\ read \in [Threads -> {"none", "queued", "kept", "ended", "lost"}]
          /\ resultRefs \in [Threads -> Nat]
      BY DEF TypeOK
    <3>1. /\ read' \in [Threads -> {"none", "queued", "kept", "ended", "lost"}]
          /\ resultRefs' \in [Threads -> Nat]
      <4>1. CASE UNCHANGED <<read, resultRefs>>
        BY <3>0, <4>1
      <4>2. CASE read' = [read EXCEPT ![t] = "lost"] /\ UNCHANGED resultRefs
        BY <3>0, <4>2
      <4>3. CASE /\ read' = [read EXCEPT ![t] = "queued"]
                 /\ resultRefs' = [resultRefs EXCEPT ![t] = @ + 1]
        BY <3>0, <4>3
      <4>. QED
        BY <2>2, <4>1, <4>2, <4>3 DEF Invoke
    <3>2. /\ stage' = [stage EXCEPT ![t] = "idle"]
          /\ call' = [call EXCEPT ![t] = NoCall] /\ told' = [told EXCEPT ![t] = NoAnswer]
          /\ UNCHANGED <<lockVars, seen, bytes, objectRefs>>
      BY <2>2 DEF Invoke
    <3>. QED
      BY <3>1, <3>2 DEF TypeOK, NoAnswer, NoCall
  <2>3. CASE EndRead(t)
    BY <2>3 DEF EndRead, ReleaseResult, TypeOK, ResultsLiveAsLongAsTheirReads
  <2>4. CASE KeepResult(t)
    BY <2>4 DEF KeepResult, TypeOK
  <2>5. CASE Drop(t)
    BY <2>5 DEF Drop, ReleaseResult, TypeOK, ResultsLiveAsLongAsTheirReads
  <2>. QED
    BY <2>1, <2>2, <2>3, <2>4, <2>5
<1>2. HolderIsInside' /\ SeenIsCurrent' /\ ToldInCalls'
  <2>1. HolderIsInside'
    BY DEF CreateResult, Invoke, EndRead, KeepResult, Drop, TypeOK, HolderIsInside
  <2>2. SeenIsCurrent'
    BY DEF CreateResult, Invoke, EndRead, KeepResult, Drop, TypeOK, SeenIsCurrent
  <2>3. ToldInCalls'
    BY DEF CreateResult, Invoke, EndRead, KeepResult, Drop, TypeOK, ToldInCalls
  <2>. QED
    BY <2>1, <2>2, <2>3
<1>3. OneReadAtATime' /\ ResultsLiveAsLongAsTheirReads'
  <2>1. CASE CreateResult(t)
    BY <2>1 DEF CreateResult, TypeOK, OneReadAtATime, ResultsLiveAsLongAsTheirReads
  <2>2. CASE Invoke(t)
    <3>1. resultRefs[t] \in {0, 1} /\ objectRefs[t] = resultRefs[t] /\ read[t] = "none"
      BY <2>2 DEF Invoke, OneReadAtATime
    <3>2. CASE UNCHANGED <<read, resultRefs>> /\ resultRefs[t] = 0
      BY <2>2, <3>1, <3>2 DEF Invoke, TypeOK, OneReadAtATime, ResultsLiveAsLongAsTheirReads
    <3>3. CASE resultRefs[t] > 0 /\ read' = [read EXCEPT ![t] = "lost"] /\ UNCHANGED resultRefs
      BY <2>2, <3>1, <3>3 DEF Invoke, TypeOK, OneReadAtATime, ResultsLiveAsLongAsTheirReads
    <3>4. CASE /\ resultRefs[t] > 0 /\ read' = [read EXCEPT ![t] = "queued"]
               /\ resultRefs' = [resultRefs EXCEPT ![t] = @ + 1]
      BY <2>2, <3>1, <3>4 DEF Invoke, TypeOK, OneReadAtATime, ResultsLiveAsLongAsTheirReads
    <3>. QED
      BY <2>2, <3>2, <3>3, <3>4 DEF Invoke
  <2>3. CASE EndRead(t)
    BY <2>3 DEF EndRead, ReleaseResult, TypeOK, OneReadAtATime, ResultsLiveAsLongAsTheirReads
  <2>4. CASE KeepResult(t)
    BY <2>4 DEF KeepResult, TypeOK, OneReadAtATime, ResultsLiveAsLongAsTheirReads
  <2>5. CASE Drop(t)
    BY <2>5 DEF Drop, ReleaseResult, TypeOK, OneReadAtATime, ResultsLiveAsLongAsTheirReads
  <2>. QED
    BY <2>1, <2>2, <2>3, <2>4, <2>5
<1>. QED
  BY <1>1, <1>2, <1>3

LEMMA NextIInv ==
  ASSUME IInv, [Next]_vars
  PROVE  IInv'
<1>1. CASE UNCHANGED vars
  BY <1>1 DEF IInv, vars, lockVars, callVars, resultVars, TypeOK, HolderIsInside, SeenIsCurrent,
              ToldInCalls, OneReadAtATime, ResultsLiveAsLongAsTheirReads
<1>2. ASSUME NEW t \in Threads, Steps(t) \/ Ends(t) \/ KeepResult(t) \/ \E c \in Calls : Call(t, c)
      PROVE  IInv'
  <2>1. CASE Read(t)
    BY <2>1, ReadStep
  <2>2. CASE SeekCurrent(t)
    <3>1. call[t].n \in Int /\ seen[t] \in Int
      BY <2>2, ByteStreamAssumption DEF IInv, TypeOK, SeekCurrent
    <3>. QED
      BY <2>2, <3>1, MoveStep DEF SeekCurrent
  <2>3. CASE SeekBegin(t)
    <3>1. call[t].n \in Int
      BY <2>3, ByteStreamAssumption DEF IInv, TypeOK, SeekBegin
    <3>. QED
      BY <2>3, <3>1, MoveStep DEF SeekBegin
  <2>4. CASE Ask(t)
    <3>1. at \in Nat /\ (Clamped => at <= Size)
      BY DEF IInv, TypeOK
    <3>. QED
      BY <2>4, <3>1, TakeEffectStep DEF Ask
  <2>. QED
    BY <1>2, <2>1, <2>2, <2>3, <2>4, CallStep, ResultStep DEF Steps, Ends
<1>. QED
  BY <1>1, <1>2 DEF Next

LEMMA IInvAlways == Spec => []IInv
BY InitIInv, NextIInv, PTL DEF Spec

-----------------------------------------------------------------------------
\* The variables have their types: in particular a vector's position never leaves its
\* bytes, whatever calls come from how many threads.
THEOREM TypeCorrect == Spec => []TypeOK
<1>1. IInv => TypeOK
  BY DEF IInv
<1>. QED
  BY <1>1, IInvAlways, PTL

\* For any number of threads no result of an asynchronous read is freed before its read
\* is ended and its holder has let go, and none that was queued is left behind then;
\* one the queue did not take keeps a single reference and leaks (the references
\* BeginRead and EndRead take and give back).
THEOREM ResultsLiveLongEnough == Spec => []ResultsLiveAsLongAsTheirReads
<1>1. IInv => ResultsLiveAsLongAsTheirReads
  BY DEF IInv
<1>. QED
  BY <1>1, IInvAlways, PTL

-----------------------------------------------------------------------------
(* The byte stream implements the atomic one.                              *)

LEMMA InitAtomic == Init => Atomic!Init
BY DEF Init, Atomic!Init, Atomic!NoAnswer, NoAnswer

LEMMA MoveIsAtomic ==
  ASSUME NEW t \in Threads, NEW p \in Int, MoveTo(t, p)
  PROVE  Atomic!Moves(t, call[t], p)
BY ByteStreamAssumption DEF MoveTo, TakeEffect, Clamp, Atomic!Moves, Atomic!Moved, Atomic!Answer

\* A step in which a call takes effect is that call of the atomic stream; one in
\* which a call ends, its return; all others are not seen.
LEMMA NextAtomic ==
  ASSUME IInv, [Next]_vars
  PROVE  [Atomic!Next]_Atomic!vars
<1>. USE DEF Atomic!vars, lockVars, callVars
<1>1. CASE UNCHANGED vars
  BY <1>1 DEF vars
<1>2. ASSUME NEW t \in Threads, Read(t) \/ SeekCurrent(t) \/ SeekBegin(t) \/ Ask(t)
      PROVE  Atomic!Next
  <2>1. call[t] \in Calls /\ call[t].n \in Int /\ at \in Nat
    BY <1>2, ByteStreamAssumption DEF IInv, TypeOK, Read, SeekCurrent, SeekBegin, Ask
  <2>2. Atomic!TakesEffect(t, call[t])
    <3>1. CASE Read(t)
      BY <2>1, <3>1, ByteStreamAssumption
         DEF Read, TakeEffect, Smaller, Atomic!TakesEffect, Atomic!Reads, Atomic!Bytes, Atomic!Answer
    <3>2. CASE SeekCurrent(t)
      <4>1. seen[t] - 1 = at /\ at + call[t].n \in Int
        BY <2>1, <3>2 DEF IInv, TypeOK, SeenIsCurrent, SeekCurrent
      <4>2. MoveTo(t, at + call[t].n) /\ call[t].what = "seek"
        BY <3>2, <4>1 DEF SeekCurrent
      <4>. QED
        BY <4>1, <4>2, MoveIsAtomic DEF Atomic!TakesEffect
    <3>3. CASE SeekBegin(t)
      BY <2>1, <3>3, MoveIsAtomic DEF SeekBegin, Atomic!TakesEffect
    <3>4. CASE Ask(t)
      BY <2>1, <3>4 DEF Ask, TakeEffect, Atomic!TakesEffect, Atomic!Asks, Atomic!Answer
    <3>. QED
      BY <1>2, <3>1, <3>2, <3>3, <3>4
  <2>. QED
    BY <2>1, <2>2 DEF Atomic!Next
<1>3. ASSUME NEW t \in Threads, Return(t) \/ Invoke(t)
      PROVE  Atomic!Next
  <2>1. Atomic!Returns(t)
    BY <1>3 DEF Return, Invoke, Atomic!Returns, Atomic!NoAnswer, NoAnswer
  <2>. QED
    BY <2>1 DEF Atomic!Next
<1>4. ASSUME NEW t \in Threads,
             \/ Lock(t) \/ Tell(t) \/ CreateResult(t)
             \/ EndRead(t) \/ Drop(t) \/ KeepResult(t)
             \/ \E c \in Calls : Call(t, c)
      PROVE  UNCHANGED <<at, told>>
  BY <1>4 DEF Lock, Tell, CreateResult, EndRead, Drop, KeepResult, Call
<1>. QED
  BY <1>1, <1>2, <1>3, <1>4 DEF Next, Steps, Ends

\* However threads interleave inside the byte stream, each call takes effect at once:
\* the mutex covers every use of the device, the two of a relative seek together
\* (SyncronousByteStream::m_reading).
THEOREM CallsAreAtomic == Spec => ImplementsAtomicStream
BY InitAtomic, NextAtomic, IInvAlways, PTL DEF Spec, ImplementsAtomicStream, Atomic!Spec
=============================================================================
