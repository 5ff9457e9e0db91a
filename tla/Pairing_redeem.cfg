SPECIFICATION Spec
CONSTANTS
    u1 = u1
    u2 = u2
    mac1 = mac1
    mac2 = mac2
    phone1 = phone1
    None = None
    User = {u1, u2}
    Device = {mac1, mac2, phone1}
    Mac = {mac1, mac2}
    Owner <- TwoOwners
    CodeId = {c1, c2}
    Hash = {h1}
    PairId = {p1, p2}
    Socket = {s1, s2}
    ReqTask = {q1, q2}
    ResTask = {r1}
    MayFail = {r1}
SYMMETRY Symmetry
CONSTRAINT AtMostTwo
INVARIANT TypeOK
INVARIANT SameAccount
INVARIANT CodeBacksOnePair
INVARIANT NotesTruthful
PROPERTY ImplementsLedger
PROPERTY ApprovedByMac
