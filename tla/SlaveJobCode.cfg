SPECIFICATION Spec
CONSTANTS
  Fds = {f1, f2, f3, f4}
  NoFd = NoFd
  Words <- MCWords
  FileNames <- MCFileNames
  PyFile <- MCPyFile
  NoName = "NoName"
  Absent = "Absent"
  Empty = "Empty"
  Commands <- MCCommands
PROPERTIES JobRunsItsOwnCode
