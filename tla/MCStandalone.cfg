SPECIFICATION MCSpec
CONSTANTS
  Clients = {c1, c2, c3}
  Nobody = Nobody
  Backlog = 2
  MaxConnections = 2
  BufferSize = 2
  Exchanges = {e1, e2}
  NoFile = NoFile
  Broken = Broken
  Empty = Empty
  Old = Old
  Nothing = Nothing
  Machines <- MCMachines
  Memories <- MCMemories
  Garbage <- MCGarbage
  Precision = 1000
  Usages = {0, 4}
  Missing = Missing
  NoValue = NoValue
  NotANumber = NotANumber
  Addresses = {"a", "b", "c"}
  Reports <- MCReports
  Comment = "#"
INVARIANTS TypeOK OneAnswerPerConnection ForeignResultHasACause HyperthreadingSeen HostsOfOneScan
PROPERTIES HeldUpOnlyBySilence HangsOnlyOnScript MeasuresThePresent MemoryIsLostOnTheWay
CHECK_DEADLOCK FALSE
