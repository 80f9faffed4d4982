SPECIFICATION Spec
CONSTANTS
    UserMsgs = {u1, u2}
    Injected = {}
    Mails = {m1}
    TriggerMails = {m1}
    GoalItems = {}
    Routed = {}
    AuxKinds = {"compact"}
    MaxAux = 1
    MaxTurns = 2
    MaxFollowUps = 1
    Guardian = FALSE
CHECK_DEADLOCK FALSE
INVARIANTS StartFindsNoTask LiveTaskTracked SlotOwned OneTerminalEvent NoInputLost
PROPERTIES TurnEnds
