SPECIFICATION Spec
CONSTANTS
  Width = 4
  LossOfAccuracy = 36
  Ops1 <- MCOps1
  Ops2 <- MCOps2
  Vectors <- MCVectors
  Matrices <- MCMatrices
  Indices <- MCIndices
  Indices2 <- MCIndices2
  Stored <- MCStored
  Stored2 <- MCStored2
  NextIndices <- MCNextIndices
  NextStored <- MCNextStored
  MaxSteps = 2
INVARIANTS
  
  AccessCompiled
  AccessInferred
  
