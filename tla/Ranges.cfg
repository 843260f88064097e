SPECIFICATION Spec
CONSTANTS
  Width = 3
  Arg = {i}
  Temp = {t, u}
  MaxSteps = 3
INVARIANT ValuesInRange
CHECK_DEADLOCK FALSE
SYMMETRY Temporaries
