SPECIFICATION Spec
CONSTANTS
  Hosts <- MCHosts
  NoHost = "none"
  Levels <- MCLevels
  Modules <- MCModules
  Loads = {0, 1}
  MaxFds = 15
INVARIANTS ChosenIsLeastLoaded
CHECK_DEADLOCK FALSE
