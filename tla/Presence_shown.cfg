SPECIFICATION Spec
CONSTANTS
    mac = mac
    phone = phone
    m1 = m1
    m2 = m2
    i1 = i1
    i2 = i2
    None = None
    Device = {mac, phone}
    Partner <- Paired
    Socket = {m1, m2, i1, i2}
    DeviceOf <- TwoEach
    MayOvertake = FALSE
    MayRestart = FALSE
    DbMayFail = FALSE
INVARIANT ConnectedShownOnline
CHECK_DEADLOCK FALSE
