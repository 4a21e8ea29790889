SPECIFICATION Spec
CONSTANTS
  Configs = {{"vfio"}, {"vhost"}}
  Queue = {0, 1}
  Depth <- MCDepth
  Cid <- MCCid
  Area = {"sqs", "cqs", "data"}
  SqArea <- MCSqArea
  CqArea <- MCCqArea
  MaxRegions = 2
  MaxBells = 1
  Num = 2
  IdxMod = 4
  Table <- MCTable
  Restarts = FALSE
  PrpPage = 2
  Transfers <- MCTransfers
CHECK_DEADLOCK FALSE
INVARIANT CommandsAccounted
INVARIANT NoLostInterrupt
INVARIANT DescriptorsAccounted
PROPERTY DoorbellServed
PROPERTY CommandsReturned
