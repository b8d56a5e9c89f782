SPECIFICATION FairSpec
CONSTANTS
  Words = {w1, w2}
  NoWord = NoWord
  Initial = {w1}
  Callers = {c1, c2}
  Refs = {1, 2, 3}
  None = None
INVARIANTS
  TypeOK
  WriterHoldsMutex
PROPERTIES
  ImplementsStopSet
  EveryCallReturns
