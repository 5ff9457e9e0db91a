SPECIFICATION SignInSpec
CONSTANTS
    None = None
    Token <- Numbers
    Task <- Slots
    DbMayFail = TRUE
    MaxFaults = 1
    MaxUser = 3
INVARIANT LinkTypeOK
INVARIANT LoginAlive
INVARIANT RevokedNamesSuccessor
INVARIANT ExchangedOnce
INVARIANT StoredIsGood
INVARIANT NoneLeftBehind
PROPERTY LaunchSettles
CHECK_DEADLOCK FALSE
