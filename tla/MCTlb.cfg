SPECIFICATION RebindsSpec
CONSTANTS
  c1 = c1
  c2 = c2
  p1 = p1
  d1 = d1
  d2 = d2
  a1 = a1
  a2 = a2
  h1 = h1
  h2 = h2
  h3 = h3
  NoFile = NoFile
  NoFd = NoFd
  NoWindow = NoWindow
  NoAddr = NoAddr
  Proc = {p1}
  Client = {c1, c2}
  File = {f1, f2}
  Fd = {d1, d2}
  Addr = {a1, a2}
  Window = {w1, w2}
  Handle = {h1, h2, h3}
  ProcOf <- OneProcess
  Home <- OneProcess
  Owner <- Owners
  CloseFails = FALSE
  Signals = FALSE
  Modes <- SharedOrExclusive
  FreesFirst = TRUE
SYMMETRY TlbSymmetry
INVARIANTS MappingsOwned WindowsOwned StalePointersMiss
PROPERTIES RefusedByOthers
