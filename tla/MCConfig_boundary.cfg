\* Start-up with every combination of boundary values, a missing line included.
SPECIFICATION Spec
CONSTANTS
    Files <- MCFiles
    Garbage <- Uninitialised
    Other = other
    NotANumber <- NaN
    NaN = nan
INVARIANTS
    Sane
    ValidKept
\* The timeouts are read once.
CHECK_DEADLOCK FALSE
