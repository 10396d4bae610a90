CONSTANTS
  CpuInputs <- MCInputs
  MemInputs <- MCInputs
  KeyInputs <- MCKeys
  MaxDataKeys = 5
  DefaultCpu = 100000000
  DefaultMem = 41943040
  CostTypes <- MCCostTypes
  CpuModel <- MCModel
  MemModel <- MCModel

SPECIFICATION Spec

INVARIANT MemLimitAsCommented
