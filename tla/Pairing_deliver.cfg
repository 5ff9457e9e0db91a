SPECIFICATION FairSpec
CONSTANTS
    u1 = u1
    u2 = u2
    mac1 = mac1
    mac2 = mac2
    phone1 = phone1
    None = None
    User = {u1}
    Device = {mac1, phone1}
    Mac = {mac1}
    Owner <- OneOwner
    CodeId = {c1}
    Hash = {h1}
    PairId = {p1}
    Socket = {s1, s2, s3}
    ReqTask = {q1}
    ResTask = {}
    MayFail = {q1, s1, s2, s3}
INVARIANT NoLostRequest
PROPERTY PendingReachesMac
