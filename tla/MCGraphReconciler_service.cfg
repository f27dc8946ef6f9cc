CONSTANTS
    svc = svc
    sts = sts
    pod = pod
    offshoot = offshoot
    ExposedBy = exposed_by
    OIDs = {svc, sts, pod}
    Labels = {offshoot, exposed_by}
    Linkable <- MCLinkable
    GK <- MCGK
    Described = {"Service", "StatefulSet"}
    ServiceKind = "Service"
    MaxChanges = 3
    MaxFailures = 1
SPECIFICATION Spec
CHECK_DEADLOCK FALSE
PROPERTIES
    PersistsWhatResolved
