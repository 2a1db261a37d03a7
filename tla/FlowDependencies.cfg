SPECIFICATION Spec
CONSTANTS
  Lines <- MCLines
  Files <- MCFiles
  StraySizes = {0, 1}
  MaxMatches = 3
INVARIANTS CountsDependencies
CHECK_DEADLOCK FALSE
