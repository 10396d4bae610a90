CONSTANTS
  e1 = e1
  e2 = e2
  NotU32 = NotU32
  Elems <- MCElems
  Indices <- MCIndices
  MaxLen = 2
  MaxObjs = 4
  CostTypes <- MCCostTypes
  CpuModel <- MCCpuModel
  MemModel <- MCMemModel
  CpuLimits <- MCCpuLimits
  MemLimits <- MCMemLimits

SPECIFICATION Spec

INVARIANT BudgetWithinLimits
PROPERTY ObservedViewsUnchanged
PROPERTY NewObjectsArePaid
