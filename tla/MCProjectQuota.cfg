CONSTANTS
    Types <- MCTypes
    GroupOf <- MCGroupOf
    Namespaced = {"sts", "deploy", "cm"}
    Calculable = {"sts", "deploy"}
    Watched = {"sts"}
    Namespaces = {"n1", "n2"}
    OwnNamespaces = {"n1"}
    Specs <- MCSpecs
    InUse <- MCInUse
    MaxUsage = 1
    MaxChanges = 1
    MaxFailures = 1
SPECIFICATION FairSpec
CHECK_DEADLOCK FALSE
INVARIANTS
    TypeOK
    PartOfWhole
PROPERTIES
    StatusConverges
