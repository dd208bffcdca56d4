SPECIFICATION StoreSpec
CONSTANTS
    Users = {c, m}
    Admins = {m}
    NoUser = NoUser
    Texts = {x}
    ReplyWindow = 1
    CloseWindow = 2
    MaxTickets = 2
    MaxRows = 4
    MaxNow = 2
INVARIANTS
    StoreTypeOK
    StatusTellsTheRow
    LogTellsTheRow
    DeadlineFollowsTheLog
PROPERTIES
    ImplementsContract
CHECK_DEADLOCK FALSE
