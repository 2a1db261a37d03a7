SPECIFICATION ClusterFairSpec
CONSTANTS
  Hosts <- MCHosts
  NoHost = "none"
  Levels <- MCLevels
  Modules <- MCModules
  Loads = {0}
  MaxFds = 7
  SlaveHost = "slave"
  JobString <- MCJobString
  Fds = {f1, f2, f3}
  NoFd = NoFd
  Words <- MCWords
  FileNames <- MCFileNames
  PyFile <- MCPyFile
  Commands <- MCCommands
  NoName = "NoName"
  Absent = "Absent"
  Empty = "Empty"
INVARIANTS ClusterTypeOK OnlySilentSlaves NoJobIsCarriedOut
PROPERTIES HangsOnlyInDeadlock
CHECK_DEADLOCK TRUE
