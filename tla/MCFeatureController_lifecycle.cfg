CONSTANTS
    fa = fa
    fb = fb
    fc = fc
    s1 = s1
    s2 = s2
    Features = {fb}
    Sets = {s2}
    SetOf <- SplitSetOf
    Group <- NoGroup
    Requires <- NoRequires
    Situations <- LifeSituations
    Starts <- Installed
    MaxChanges = 2
    MaxFailures = 1
    Spokes = {TRUE, FALSE}
    MaxSpokeEvents = 1
SPECIFICATION FairClaimSpec
CHECK_DEADLOCK FALSE
INVARIANTS
    TypeOK
PROPERTIES
    StatusConverges
    DeletionCompletes
    ClaimConverges
