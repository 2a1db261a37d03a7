SPECIFICATION FairSpec
CONSTANTS
  Lines <- MCLines
  Files <- MCFiles
  StraySizes = {0, 1}
  MaxMatches = 3
INVARIANTS TypeOK EveryModuleOnce DependenciesRight StaysInside
PROPERTIES EndsUnlessMisled
CHECK_DEADLOCK FALSE
