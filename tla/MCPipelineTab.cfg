SPECIFICATION Spec
CONSTANTS
  Texts <- MCTabTexts
  WordRequests <- MCWordRequests
  InitialWords <- MCInitialWords
  MaxQueryRunes = 3
  MaxWordRunes = 3
PROPERTY
  BlockedIsNotCounted
