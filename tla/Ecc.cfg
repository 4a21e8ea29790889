SPECIFICATION Spec
CONSTANTS
  PageSize = 2
  MaxFlips = 2
  Payloads <- ThreePages
  RefTags = 4
INVARIANT CrcReadFaithful
INVARIANT CodewordsRestored
INVARIANT DifDetects
