SPECIFICATION Spec
CONSTANTS
    Symbols = {"x", "y"}
    Objects = {1, 2, 3, 4, 5, 6, 7}
    Arg = "x"
    MaxSteps = 4
INVARIANTS LoadsAgree StoresAgree MissingAgrees
