SPECIFICATION Spec
CONSTANTS
    None = None
    MaxAttempt = 2
    MaxSession = 2
    MaxSocket = 2
    MaxFault = 2
CONSTRAINT LastIsShown
INVARIANT TypeOK
INVARIANT Driven
INVARIANT OneMacPeer
INVARIANT OfferNotStranded
INVARIANT ShareHonest
CHECK_DEADLOCK FALSE
