SPECIFICATION Spec
CONSTANTS
  TotalBlocks = 5
  ReservedBlocks = 2
  PagesPerBlock = 2
  EraseThreshold = 0
  CntMod = 8
  MaxErase = 1
  Data = {d1, d2}
  Blank = Blank
  MaxInitBad = 0
  CatAgeWeight = 2
  WindowSize = 1
  DChoices = 2
  TotalLpns = 2
  GcTrigger = 1
  WearDiff = 1
  StaticThreshold = 0
  StaticInterval = 1
  Calls = {"write", "read", "gc", "algo", "trim"}
  Algos = {"COST_BENEFIT", "CAT", "WINDOWED", "D_CHOICES", "FRA"}
  TrimCounts = {1}
  Lost = Lost
VIEW PoweredView
SYMMETRY DataSymmetry
INVARIANT MappedPagesReachable
INVARIANT FreeBlocksEmpty
INVARIANT CountExact
INVARIANT FrontierClean
INVARIANT ErasesOnlyDeadBlocks
INVARIANT VictimHasSpace
INVARIANT VictimFound
PROPERTY ImplementsDisk
