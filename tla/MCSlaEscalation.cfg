SPECIFICATION FairSpec
CONSTANTS
    Users = {c, m}
    Admins = {m}
    NoUser = NoUser
    Texts = {x}
    ReplyWindow = 1
    CloseWindow = 2
    MaxTickets = 2
    MaxRows = 4
    MaxNow = 2
    Transport = "polling"
    MaxFaults = 2
INVARIANTS
    SlaTypeOK
    SlaInv
    AddresseesAreCurrent
    OneNotice
    FaultsLoseOneNoticeEach
PROPERTIES
    NoEarlyEscalation
    OnlySnapshotsReopen
    BreachIsHandled
