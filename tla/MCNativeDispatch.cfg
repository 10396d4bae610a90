CONSTANTS
  okArg = okArg
  midArg = midArg
  badArg = badArg
  Methods <- MCMethods
  NumArgs <- MCNumArgs
  Symbols <- MCSymbols
  ArgVals <- MCArgVals
  Converts <- MCConverts
  MaxArgs = 3

SPECIFICATION Spec

INVARIANT DispatchNeverPanics
