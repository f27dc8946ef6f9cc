CONSTANTS
    i1 = i1
    i2 = i2
    w1 = w1
    w2 = w2
    Images = {i1, i2}
    Workers = {w1, w2}
    Vulns <- MCVulns
    NamespacesOf <- MCNamespacesOf
    MaxFailures = 2
    MaxChanges = 1
SPECIFICATION FairSpec
INVARIANTS
    CompleteOrError
    HeadersMatch
    ReportsAddUp
    MetricsAgree
PROPERTIES
    CallsReturn
    MetricsCatchUp
    WorkloadsScanned
