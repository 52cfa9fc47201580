CONSTANTS
    Wild = Wild
    None = None
    MaxEntries = 4
    Flows <- Versions
    Patterns <- Everything
    MayReconnect = 1
    MayOverlap = TRUE
    MaySlow = TRUE
    MayExpire = TRUE
    MayWait = TRUE
    MayReuse = TRUE
    MayInstall = 2
    MayRemove = 1
SPECIFICATION SpecAny
INVARIANT TablesAgree
INVARIANT NoStrays
PROPERTY AllConfirmedAgain
CHECK_DEADLOCK FALSE
