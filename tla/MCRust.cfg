SPECIFICATION FairRustSpec
CONSTANTS
  c1 = c1
  c2 = c2
  p1 = p1
  p2 = p2
  d1 = d1
  d2 = d2
  a1 = a1
  a2 = a2
  h1 = h1
  h2 = h2
  hi = hi
  NoFile = NoFile
  NoFd = NoFd
  NoWindow = NoWindow
  NoAddr = NoAddr
  Proc = {p1, p2}
  Client = {c1, c2}
  File = {f1, f2, f3}
  Fd = {d1, d2}
  Addr = {a1}
  Window = {w1}
  Handle = {h1}
  PowerFlag = {hi}
  ProcOf <- TwoProcesses
  Home <- TwoProcesses
  Owner <- OneOwner
  Options <- SomeOptions
  Uses <- SomeUses
  RETRIES = 2
  CloseFails = FALSE
  Signals = FALSE
  Modes = {}
INVARIANTS WindowsReachTheirTlb SessionsOwnDescriptors
PROPERTIES NeverLost GivesUpForCause FailedReopenSurfaces GrantedOnCurrent MethodReturns
