SPECIFICATION Spec
CONSTANTS
  Hosts <- MCHosts
  NoHost = "none"
  Levels <- MCLevels
  Modules <- MCModules
  Loads = {0}
  MaxFds = 15
INVARIANTS CompleteMeansAnswered
CHECK_DEADLOCK FALSE
