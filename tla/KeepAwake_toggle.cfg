SPECIFICATION Spec
CONSTANTS
    Task = {t1, t2, t3}
    MayQuit = TRUE
    MayChange = TRUE
SYMMETRY Symmetry
INVARIANT TypeOK
INVARIANT ToggleTellsTruth
INVARIANT OnlyConfirmed
