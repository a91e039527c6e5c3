SPECIFICATION FairSessionSpec
CONSTANTS
  c1 = c1
  c2 = c2
  p1 = p1
  d1 = d1
  d2 = d2
  NoFile = NoFile
  NoFd = NoFd
  Proc = {p1}
  Client = {c1, c2}
  File = {f1, f2}
  Fd = {d1, d2}
  Addr = {}
  ProcOf <- OneProcess
  Home <- OneProcess
  CloseFails = FALSE
  Signals = FALSE
  Modes <- AllModes
INVARIANTS DescriptorsOwned ExclusiveSession
PROPERTIES ReopenVerdict ReopenReturns
