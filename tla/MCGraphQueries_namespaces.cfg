CONSTANTS
    db = db
    svc = svc
    pod1 = pod1
    pod2 = pod2
    offshoot = offshoot
    exposed_by = exposed_by
    OIDs = {db, svc, pod1, pod2}
    GK <- MCGK
    Labels = {offshoot, exposed_by}
    Offshoot = offshoot
    DirectLabels = {offshoot}
    MayLink <- CrossKind
    MaxInclude = 2
    Mapped = {"Database", "Pod"}
    Ref <- MCRef
    KindRank <- MCKindRank
    Violations <- MCViolations
    Clusters <- MCClusters
    Connections <- MCConnections
    Rename <- MCRename
SPECIFICATION QuerySpec
CHECK_DEADLOCK FALSE
INVARIANT
    EmptyMeansAll
