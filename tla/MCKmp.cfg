SPECIFICATION FairSpec
CONSTANTS
  Chars = {"a", "b"}
  MaxText = 6
  MaxPattern = 6
  Texts <- MCTexts
  Patterns <- MCPatterns
INVARIANTS TypeOK LongestBorders FindsOccurrences CountsOnce
CHECK_DEADLOCK FALSE
PROPERTIES Terminates
