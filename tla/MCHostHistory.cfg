CONSTANTS
  A = A
  B = B
  X = X
  Y = Y
  Z = Z
  cA = cA
  cB = cB
  cX = cX
  cY = cY
  cZ = cZ
  k1 = k1
  k2 = k2
  k3 = k3
  v1 = v1
  v2 = v2
  NoEntry = NoEntry
  Tombstone = Tombstone
  Untouched = Untouched
  NoError = NoError
  Contracts <- MCContracts
  Entry <- A
  Keys <- MCKeys
  Vals <- MCVals
  SizeOf <- MCSizeOf
  CodeKey <- MCCodeKey
  Footprint <- MCFootprint
  Snapshot <- MCSnapshot
  InsnClasses <- MCInsnClasses
  ProgramsOf <- MCProgramsOf
  ProgramChoices <- MCProgramChoices
  CostTypes <- MCCostTypes
  CpuModel <- MCCpuModel
  MemModel <- MCMemModel
  CpuLimits <- MCCpuLimits
  MemLimits <- MCMemLimits
SPECIFICATION HSpec
INVARIANT NestedWrites
