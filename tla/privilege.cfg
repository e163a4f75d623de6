SPECIFICATION Spec
CONSTANTS
    Callers = {c1, c2}
    NoCaller = NoCaller
    Ids <- MCIds
    MaxCalls = 2
    savedReadable = TRUE
INVARIANTS
    TypeOK
    NeverUserInPrivilegedGroup
    RestoredWhenUnlocked
    ElevationExactlyInCallback
    ShutdownJustified
    ChildrenUnprivileged
    MetricsAccountForCalls
PROPERTIES
    WaitersServed
