\* Two processes start cold on the same encoding: they share the temporary file.
CONSTANTS
    Procs = {p1, p2}
    Blocks = 2
    Retries = 2
    MaxCrashes = 0
SPECIFICATION Spec
INVARIANT PublishedWhole
