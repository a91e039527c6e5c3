SPECIFICATION FairDiscoverySpec
CONSTANTS
  c1 = c1
  NoId = NoId
  Caller = {c1}
  Id = {1, 2}
  FirstCap = 1
  WalkCap = 2
  Sought <- Shapes
  MaxU32 = 9
  MaxUsize = 31
  Ms = 4
  Sec = 20
  Bus <- TwoBoards
  Texts <- AllTexts
  Times <- SomeTimes
  Lengths <- SomeLengths
INVARIANTS NothingStaysOpen ConversionsAreExact
PROPERTIES ScansAreComplete LookupsAreRight ResetsReported DiscoveryReturns
