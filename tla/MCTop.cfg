SPECIFICATION Spec
CONSTANTS
  Queries = {1, 2, 3, 4, 5, 6}
  Counts = {0, 1, 2}
  DefaultLimit = 2
  MaxLimit = 4
  LimitBits = 3
  IntWidths = {3, 4}
INVARIANTS
  HeapOrdered
  KeepsBest
  ReturnsTop
  AnswersAreTop
