SPECIFICATION Spec
CONSTANTS
  Threads = {t1, t2}
  None = None
  Size = 2
  Calls <- MCCalls
  MaxAt = 3
  Clamped = FALSE
INVARIANTS TypeOK ResultsLiveAsLongAsTheirReads
PROPERTIES ImplementsAtomicStream CallsReturn
