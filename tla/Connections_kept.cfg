SPECIFICATION Spec
CONSTANTS
    Client = {p1, p2}
    Effect = {e1, e2}
    MaxUser = 6
    MaxFault = 4
    None = None
    MacClient = {m1, m2, m3}
    Try = {a1, a2}
    MaxDeadlines = 2
    MaxMacUser = 5
    MaxMacFault = 2
    Nobody = Nobody
INVARIANT TypeOK
INVARIANT OneSocket
INVARIANT StatusHonest
INVARIANT SignedOutStaysOff
PROPERTY PhoneKept
PROPERTY MacKept
CHECK_DEADLOCK FALSE
