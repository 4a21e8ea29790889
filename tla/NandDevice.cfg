SPECIFICATION NandSpec
CONSTANTS
  TotalBlocks = 2
  ReservedBlocks = 1
  PagesPerBlock = 2
  EraseThreshold = 0
  CntMod = 4
  MaxErase = 1
  Data = {d1, d2}
  Blank = Blank
  MaxInitBad = 1
SYMMETRY DataSymmetry
INVARIANT ReadableSurvivesPowerCut
PROPERTY ValidPagesStable
PROPERTY BadUntilRestart
