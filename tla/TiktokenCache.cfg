\* Three processes start cold on the same encoding; one call may be killed.
CONSTANTS
    Procs = {p1, p2, p3}
    Blocks = 2
    Retries = 2
    MaxCrashes = 1
SPECIFICATION Spec
INVARIANTS
    TypeOK
    WholeWhenAlone
    TornOnlyWhileWritten
    NoLeftovers
PROPERTIES
    CallsEnd
