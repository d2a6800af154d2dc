SPECIFICATION Spec
CONSTANTS
    None = None
    Requests = {r1, r2}
    Chats <- MCChats
    Messages <- MCMessages
    LLMEnabled = TRUE
    LLMReady = TRUE
    MaxSessions = 1
    TTL = 0
    MaxTurns = 2
    MaxArrivals = 3
    MaxTime = 1
SYMMETRY Symmetry
INVARIANTS
    ConversationsStayApart
    FiledWithItsQuestion
    AgentsForget
    ExogenaKeepsItsPlace
CHECK_DEADLOCK FALSE
