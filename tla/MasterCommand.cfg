SPECIFICATION Spec
CONSTANTS
  Hosts <- MCHosts
  NoHost = "none"
  Levels <- MCLevels
  Modules <- MCModules
  Loads = {0}
  MaxFds = 15
INVARIANTS CommandCarriesOneJob
CHECK_DEADLOCK FALSE
