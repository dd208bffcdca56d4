SPECIFICATION Spec
CONSTANTS
    Users = {c, o}
    Admins = {o}
    NoUser = NoUser
    Texts = {x, NoText}
    NoText = NoText
    ReplyWindow = 1
    CloseWindow = 2
    MaxTickets = 3
    MaxRows = 5
    MaxNow = 0
    Slots = {s1, s2}
    MaxTries = 3
    MaxFaults = 2
    Chatters = {c}
    Patient = {c}
SYMMETRY SlotSymmetry
INVARIANTS
    DialogTypeOK
    ReplyAuthorised
    StateHasItsData
    WaitersDescribe
    ReplyGoesWhereAsked
    DuplicatesNeedAFault
    OrphansNeedARetry
CHECK_DEADLOCK FALSE
