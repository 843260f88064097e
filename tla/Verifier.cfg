SPECIFICATION Spec
CONSTANTS
    Codes <- MCCodes
    Slack = 5
    MaxAdded = 2
INVARIANTS NeverUnderflows StaysInBounds LoopsEndWithMarker ReturnsClean
PROPERTY VerifierTerminates
