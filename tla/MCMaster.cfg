SPECIFICATION FairSpec
CONSTANTS
  Hosts <- MCHosts
  NoHost = "none"
  Levels <- MCLevels
  Modules <- MCModules
  Loads = {0, 1}
  MaxFds = 13
INVARIANTS TypeOK OnlyFirstJobRuns AtMostOneContact  DescriptorDemand
PROPERTIES KeepsSchedule EndsOrWaits
CHECK_DEADLOCK FALSE
