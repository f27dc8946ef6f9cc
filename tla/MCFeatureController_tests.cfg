CONSTANTS
    fa = fa
    fb = fb
    fc = fc
    s1 = s1
    s2 = s2
    Features = {fb}
    Sets = {s2}
    SetOf <- SplitSetOf
    Group <- NoGroup
    Requires <- NoRequires
    Situations <- LifeSituations
    Starts <- Installed
    MaxChanges = 1
    MaxFailures = 0
    Spokes = {FALSE}
    MaxSpokeEvents = 0
SPECIFICATION ClaimSpec
CHECK_DEADLOCK FALSE
INVARIANTS
    TestedStatuses
