SPECIFICATION Spec
CONSTANTS
    Ids <- MCIds
    Values <- MCValues
    None = None
    Opaque = Opaque
    Like <- MCLike
    Conditions <- MCConditions
    Expressions <- MCExpressions
    Windows <- MCWindows
    Excluding = FALSE
    MaxSets = 3
INVARIANTS TypeOK ShowsWhatIsAsked AnswersAgree
PROPERTIES OthersUnchanged WritesWhatItShows
CHECK_DEADLOCK FALSE
