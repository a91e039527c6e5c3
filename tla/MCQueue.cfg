SPECIFICATION QueueSpec
CONSTANTS
  c1 = c1
  c2 = c2
  p1 = p1
  p2 = p2
  d1 = d1
  d2 = d2
  r1 = r1
  r2 = r2
  NoFile = NoFile
  NoFd = NoFd
  NoReq = NoReq
  Proc = {p1, p2}
  Client = {c1, c2}
  File = {f1, f2}
  Fd = {d1, d2}
  Addr = {}
  Req = {r1, r2}
  ProcOf <- TwoProcesses
  Home <- TwoProcesses
  CloseFails = FALSE
  Signals = FALSE
  Modes <- OpensShared
  Budget = 0
  SpinPolls = 0
  DriverErrors = {"EIO"}
  Rust = {c1}
  Handle = {h1, h2}
  NoClient = NoClient
SYMMETRY QueueSymmetry
VIEW QueueView
INVARIANTS NothingLeftBehind
PROPERTIES OwnMessages
