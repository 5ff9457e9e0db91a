SPECIFICATION Spec
CONSTANTS
    mac = mac
    phone = phone
    other = other
    p1 = p1
    p2 = p2
    m1 = m1
    i1 = i1
    o1 = o1
    None = None
    Device = {mac, phone, other}
    Pair = {p1, p2}
    MacOf <- MacOfBoth
    RemoteOf <- RemoteOfBoth
    Session = {x1}
    Socket = {m1, i1, o1}
    DeviceOf <- ThreeDevices
    Task = {t1, t2}
    MayRestart = TRUE
    DbMayFail = TRUE
SYMMETRY SymmetryTasks
INVARIANT RelayConfined
INVARIANT SessionHasPair
