SPECIFICATION Spec
CONSTANTS
    UserMsgs = {u1}
    Injected = {}
    Mails = {}
    TriggerMails = {}
    GoalItems = {g1}
    Routed = {}
    AuxKinds = {}
    MaxAux = 0
    MaxTurns = 2
    MaxFollowUps = 0
    Guardian = FALSE
CHECK_DEADLOCK FALSE
INVARIANT StartFindsNoTask
