SPECIFICATION Spec
CONSTANTS
    Users = {m, n}
    Admins = {m, n}
    NoUser = NoUser
    Texts = {x}
    ReplyWindow = 1
    CloseWindow = 2
    MaxTickets = 2
    MaxRows = 3
    MaxNow = 0
    Staff = {m, n}
    Slots = {s1, s2}
    ListLimit = 1
    MaxTries = 2
    MaxFaults = 1
SYMMETRY Symmetry
INVARIANTS
    DeskTypeOK
    DeskInv
    NewsIsTrue
    OwnButtonsWork
    FaultsHideOneTicketEach
CHECK_DEADLOCK FALSE
