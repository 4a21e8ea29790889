SPECIFICATION FairSpec
CONSTANTS
  TotalBlocks = 3
  ReservedBlocks = 1
  PagesPerBlock = 2
  EraseThreshold = 0
  CntMod = 4
  MaxErase = 1
  Data = {d1}
  Blank = Blank
  MaxInitBad = 0
  CatAgeWeight = 2
  WindowSize = 1
  DChoices = 2
  TotalLpns = 2
  GcTrigger = 0
  WearDiff = 0
  StaticThreshold = 1
  StaticInterval = 1
  Calls = {"write", "read", "trim", "disturb", "replace"}
  Algos = {"GREEDY"}
  TrimCounts = {1}
  Lost = Lost
INVARIANT TypeOK
PROPERTY CallsReturn
