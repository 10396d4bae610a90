CONSTANTS
  Runners = {"Const", "Drop", "Return"}
  Steps = {1, 2}
  TrueCost <- MCTrueCost
  BenchInsnLimit = 1000000
  NoModel = NoModel

SPECIFICATION Spec

INVARIANT EveryVariantCalibrated
