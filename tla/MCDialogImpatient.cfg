SPECIFICATION Spec
CONSTANTS
    Users = {c, o}
    Admins = {o}
    NoUser = NoUser
    Texts = {x, NoText}
    NoText = NoText
    ReplyWindow = 1
    CloseWindow = 2
    MaxTickets = 2
    MaxRows = 2
    MaxNow = 0
    Slots = {s1, s2}
    MaxTries = 3
    MaxFaults = 0
    Chatters = {c}
    Patient = {}
SYMMETRY SlotSymmetry
INVARIANTS
    DescriptionIsGiven
CHECK_DEADLOCK FALSE
