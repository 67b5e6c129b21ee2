SPECIFICATION WsSpec
CONSTANTS
    Conns = {c1}
    Sessions = {s1}
    MaxSessions = 1
    MaxGen = 1
    MaxRequests = 2
    MaxTokens = 3
    TokenChannel = 1
INVARIANT CancelStopsGeneration
CHECK_DEADLOCK FALSE
