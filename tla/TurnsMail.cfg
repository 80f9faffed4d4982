SPECIFICATION Spec
CONSTANTS
    UserMsgs = {u1}
    Injected = {}
    Mails = {m1}
    TriggerMails = {m1}
    GoalItems = {}
    Routed = {}
    AuxKinds = {}
    MaxAux = 0
    MaxTurns = 3
    MaxFollowUps = 0
    Guardian = FALSE
CHECK_DEADLOCK FALSE
PROPERTY TriggerMailDelivered
