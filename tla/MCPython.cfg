SPECIFICATION FairPythonSpec
CONSTANTS
  t1 = t1
  t2 = t2
  p1 = p1
  d1 = d1
  d2 = d2
  a1 = a1
  a2 = a2
  h1 = h1
  o1 = o1
  o2 = o2
  NoFile = NoFile
  NoFd = NoFd
  NoWindow = NoWindow
  NoAddr = NoAddr
  NoThread = NoThread
  Proc = {p1}
  Client = {t1, t2}
  File = {f1, f2, f3}
  Fd = {d1, d2}
  Addr = {a1, a2}
  Window = {w1}
  Object = {o1, o2}
  Handle = {h1}
  PowerFlag = {}
  ProcOf <- OneProcess
  Home <- OneProcess
  Options <- SomeOptions
  Uses <- SomeUses
  RETRIES = 1
  CloseFails = FALSE
  Signals = FALSE
  Modes = {}
INVARIANTS OneCloser CallsOnCurrent WindowsFollowTheirTlb
PROPERTIES SessionsClose
