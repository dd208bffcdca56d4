SPECIFICATION FairSpec
CONSTANTS
    People = {p}
    Admins = {}
    Sendable = {"panel", "right", "wrong"}
    Interval = 1
    Limit = 3
    MaxTries = 2
    ByButton = {"none"}
    MaxUpdates = 2
    MaxNow = 1
    MaxBack = 0
    MaxAhead = 1
    MaxRestarts = 1
INVARIANTS
    IntakeTypeOK
    HandledOnce
    NothingIsLostWhileUp
    GuessesAreBounded
    GuessesComeFromMessages
    PanelNeedsThePassword
PROPERTIES
    ThrottleIsFair
    DeliversAsPromised
    EveryMessageLeaves
CHECK_DEADLOCK FALSE
