SPECIFICATION Spec
CONSTANTS
  Width = 3
  LossOfAccuracy = 36
  MaxVisits = 12
INVARIANTS
  LoopVisitsSequence
