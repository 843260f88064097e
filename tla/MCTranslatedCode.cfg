INIT TranslatedInit
NEXT TranslatedNext
CHECK_DEADLOCK FALSE
CONSTANTS
    Codes <- MCNoCodes
    Slack = 5
    MaxAdded = 0
    Programs <- MCPrograms
    Translated <- MCTranslated
    profile = TRUE
    unsoundOpts = TRUE
    loopPeelingEnabled = TRUE
    MAX_CACHE_SIZE = 2
    BaseBuiltins = {"c"}
    InternalBuiltins = {"vapply"}
INVARIANTS  EscapesFindTheirLoop FrameStatesAreExact
    VerifiedCodeTranslates
