SPECIFICATION Spec
CONSTANTS
  Cid = {c1, c2, c3}
  MaxPending = 2
  EventSlots = 2
  FwSlots = 2
  MaxImage = 2
  MinTemp = 1
  MaxTemp = 2
  Warning = 2
  Critical = 2
  Thresholds = {0, 3}
  UpdateEvery = 2
  NoCid = NoCid
INVARIANT AnsweredOnce
INVARIANT FirmwareBootable
 
