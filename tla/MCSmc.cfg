SPECIFICATION FairSmcSpec
CONSTANTS
  c1 = c1
  c2 = c2
  p1 = p1
  p2 = p2
  d1 = d1
  d2 = d2
  r1 = r1
  r2 = r2
  NoFile = NoFile
  NoFd = NoFd
  NoReq = NoReq
  Proc = {p1}
  Client = {c1}
  File = {f1}
  Fd = {d1}
  Addr = {}
  Req = {r1, r2}
  ProcOf <- TwoProcesses
  Home <- TwoProcesses
  CloseFails = FALSE
  Signals = TRUE
  Modes <- Shared
  Budget = 2
  SpinPolls = 2
  DriverErrors = {"EIO"}
INVARIANTS CallLeavesFree
PROPERTIES WaitReturns
