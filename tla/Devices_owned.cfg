SPECIFICATION DevicesSpec
CONSTANTS
    a = a
    b = b
    Account = {a, b}
    DeviceId = {1, 2, 3}
    Ident = {1, 2, 3}
    Nothing = Nothing
    Run = {1, 2}
    MaxSignIns = 3
    MaxTrouble = 1
    MaxMacStarts = 4
    MaxMacTrouble = 1
ACTION_CONSTRAINT FirstIsA
ACTION_CONSTRAINT LastIsCalm
ACTION_CONSTRAINT PairsInPeace
INVARIANT ConnectsAsOwn
INVARIANT PairsKnown
PROPERTY EndsConnected
CHECK_DEADLOCK FALSE
