SPECIFICATION Spec
CONSTANTS
    None = None
    Requests = {r1}
    Chats <- MCThreeChats
    Messages <- MCTalk
    LLMEnabled = FALSE
    LLMReady = TRUE
    MaxSessions = 2
    TTL = 1
    MaxTurns = 2
    MaxArrivals = 4
    MaxTime = 1
PROPERTIES
    EvictsLeastRecentlyUsed
CHECK_DEADLOCK FALSE
