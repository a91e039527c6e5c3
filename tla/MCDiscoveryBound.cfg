SPECIFICATION DiscoverySpec
CONSTANTS
  c1 = c1
  NoId = NoId
  Caller = {c1}
  Id = {1, 2}
  FirstCap = 1
  WalkCap = 1
  Sought <- Shapes
  MaxU32 = 9
  MaxUsize = 31
  Ms = 4
  Sec = 20
  Bus <- TwoBoards
  Texts <- AllTexts
  Times <- SomeTimes
  Lengths <- SomeLengths
INVARIANTS BoundIsKept
