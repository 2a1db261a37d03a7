SPECIFICATION FairSpec
CONSTANTS
  Fds = {f1, f2, f3, f4}
  NoFd = NoFd
  Words <- MCWords
  FileNames <- MCFileNames
  PyFile <- MCPyFile
  Commands <- MCCommands
  NoName = "NoName"
  Absent = "Absent"
  Empty = "Empty"
INVARIANTS TypeOK RoundSockets ServiceBound TextOnlyInAnnouncedFile
PROPERTIES AbandonedEnds AbandonedForGood KeepsContract
CHECK_DEADLOCK TRUE
