SPECIFICATION Spec
CONSTANTS
  QueueSize = 2
  CidMod = 2
  TotalLpns = 2
  Data = {d1}
  Zero = Zero
  Lost = Lost
  Settings = {1}
  MaxPages = 2
  MaxPowerLoss = 1
INVARIANT CompletionsInOrder
INVARIANT EffectsInOrder
INVARIANT PhaseFollowsLap
