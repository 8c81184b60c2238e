SPECIFICATION WifiFairSpec
CONSTANTS
    AP_FALLBACK = 4
    KICK_EVERY = 2
    RETRY_FIRST = 1
    RETRY_MAX = 3
    RETRY_MAX_PORTAL = 4
    RETRY_RESET = 1
    MaxEvents = 1
PROPERTIES RetryBackedOff Recovers PortalFollows
