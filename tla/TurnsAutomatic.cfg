\* The item u1 is handed in once: as a user message, by steering, injected, or by
\* the realtime conversation.
SPECIFICATION Spec
CONSTANTS
    UserMsgs = {u1}
    Injected = {u1}
    Mails = {}
    TriggerMails = {}
    GoalItems = {g1}
    Routed = {u1}
    AuxKinds = {}
    MaxAux = 0
    MaxTurns = 2
    MaxFollowUps = 0
    Guardian = TRUE
CHECK_DEADLOCK FALSE
INVARIANTS InputOnce
