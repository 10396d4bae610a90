CONSTANTS
  Runners = {"Const"}
  Steps = {1, 2}
  TrueCost <- MCTrueCost
  BenchInsnLimit = 3000
  NoModel = NoModel

SPECIFICATION Spec

INVARIANT SamplesAreFullRuns
