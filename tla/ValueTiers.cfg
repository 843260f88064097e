SPECIFICATION Spec
CONSTANTS
  Width = 4
  LossOfAccuracy = 96
  Unary <- MCUnary
  Single <- MCSingle
  Chained <- MCChained
  Ops <- MCOps
  More <- MCMore
  MaxSteps = 2
INVARIANTS
  InferenceMatchesR
  InterpreterMatchesR
  
  NativeMatchesR
