CONSTANTS
    fa = fa
    fb = fb
    fc = fc
    s1 = s1
    s2 = s2
    Features = {fa, fb, fc}
    Sets = {s1, s2}
    SetOf <- SplitSetOf
    Group <- RivalGroup
    Requires <- RequireA
    Situations <- RivalSituations
    Starts <- Restarted
    MaxChanges = 0
    MaxFailures = 0
    Spokes = {FALSE}
    MaxSpokeEvents = 0
SPECIFICATION FairClaimSpec
CHECK_DEADLOCK FALSE
PROPERTIES
    SetsConverge
    ExclusionConverges
    DependentsConverge
    NeverDisablesEnabled
