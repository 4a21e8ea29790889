SPECIFICATION Spec
CONSTANTS
  TotalBlocks = 4
  ReservedBlocks = 1
  PagesPerBlock = 3
  EraseThreshold = 2
  CntMod = 8
  MaxErase = 2
  Data = {d1}
  Blank = Blank
  MaxInitBad = 0
  CatAgeWeight = 2
  WindowSize = 1
  DChoices = 2
  TotalLpns = 2
  GcTrigger = 1
  WearDiff = 2
  StaticThreshold = 1
  StaticInterval = 2
  Calls = {"write", "trim", "disturb"}
  Algos = {"GREEDY"}
  TrimCounts = {1}
  Lost = Lost
VIEW PoweredView
INVARIANT ErasesOnlyDeadBlocks
