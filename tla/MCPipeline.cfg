SPECIFICATION FairSpec
CONSTANTS
  Texts <- MCTexts
  WordRequests <- MCWordRequests
  InitialWords <- MCInitialWords
  MaxQueryRunes = 3
  MaxWordRunes = 3
INVARIANTS
  TypeOK
  NormalizesRight
  StopWordsMatchable
PROPERTIES
  BlockedIsNotCounted
  BlockedWordDisappears
