SPECIFICATION PowerSpec
CONSTANTS
  TotalBlocks = 4
  ReservedBlocks = 1
  PagesPerBlock = 2
  EraseThreshold = 2
  CntMod = 4
  MaxErase = 1
  Data = {d1}
  Blank = Blank
  MaxInitBad = 0
  CatAgeWeight = 2
  WindowSize = 1
  DChoices = 2
  TotalLpns = 2
  GcTrigger = 1
  WearDiff = 1
  StaticThreshold = 8
  StaticInterval = 1
  Calls = {"write"}
  Algos = {"GREEDY"}
  TrimCounts = {1}
  Lost = Lost
INVARIANT ReverseMapSound
INVARIANT RecoveredPagesReachable
PROPERTY CleanRestartKeepsDisk
