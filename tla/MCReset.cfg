SPECIFICATION ResetSpec
CONSTANTS
  c1 = c1
  c2 = c2
  p1 = p1
  p2 = p2
  d1 = d1
  d2 = d2
  d3 = d3
  NoFile = NoFile
  NoFd = NoFd
  Proc = {p1, p2}
  Client = {c1, c2}
  File = {f1, f2, f3}
  Fd = {d1, d2, d3}
  Addr = {}
  ProcOf <- TwoProcesses
  Home <- TwoProcesses
  CloseFails = FALSE
  Signals = TRUE
  Modes <- Shared
  Timeout = 2
  Delay = 2
  FwTime = 2
SYMMETRY FileSymmetry
INVARIANTS Fenced ResetDescriptorsOwned
PROPERTIES PostFindsTelemetry
