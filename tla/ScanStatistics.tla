--------------------------- MODULE ScanStatistics ---------------------------
(***************************************************************************)
(* What ui-server computes from the results of ReportPipeline: the CVE     *)
(* families of the metrics (pkg/metricshandler/handler_scanner.go) and the *)
(* response of a CVEReport (pkg/registry/scanner/reports/storage.go).      *)
(* Both range over Go maps, so every operator takes the order in which an  *)
(* iteration meets the images.  A CVE can have one severity in one image   *)
(* and another elsewhere: a map from CVE to risk keeps one of them.        *)
(***************************************************************************)
EXTENDS Naturals, SequencesExt

CONSTANTS
    Vulns,          \* image -> the vulnerabilities its report lists, in order
    NamespacesOf    \* image -> namespaces of the pods that run it

severities == {"CRITICAL", "HIGH", "MEDIUM", "LOW", "UNKNOWN"}

ASSUME VulnsAssumption ==
    \A i \in DOMAIN Vulns:
        /\ Len(Vulns[i]) \in Nat /\ DOMAIN Vulns[i] = 1 .. Len(Vulns[i])
        /\ \A k \in DOMAIN Vulns[i]: Vulns[i][k].severity \in severities

Orders(S) == SetToSeqs(S)
Everything == "everything"

(* What the loops over the images of S and their vulnerabilities meet, by  *)
(* the turn at which they do: <<k, n>> is the n-th vulnerability of the    *)
(* k-th image.                                                             *)
Turns(order, S) ==
    UNION {{<<k, n>>: n \in DOMAIN Vulns[order[k]]}: k \in {j \in DOMAIN order: order[j] \in S}}

Entries(order, S) ==
    [t \in Turns(order, S) |->
        LET v == Vulns[order[t[1]]][t[2]]
        IN  [image |-> order[t[1]], cve |-> v.cve, severity |-> v.severity]]

Earlier(t, u) == t[1] < u[1] \/ (t[1] = u[1] /\ t[2] < u[2])

CVEsOf(es) == {es[t].cve: t \in DOMAIN es}
TurnsOf(es, c) == {t \in DOMAIN es: es[t].cve = c}

riskOccurrence(es) ==
    [s \in severities |-> Cardinality({t \in DOMAIN es: es[t].severity = s})]
vulOccurrence(es) ==
    [c \in CVEsOf(es) |-> Cardinality(TurnsOf(es, c))]

(* riskByCVE: a later vulnerability overwrites the severity of an earlier. *)
riskByCVE(es) ==
    [c \in CVEsOf(es) |->
        es[CHOOSE t \in TurnsOf(es, c): \A u \in TurnsOf(es, c) \ {t}: Earlier(u, t)].severity]
(* vuls: the entry of a CVE keeps the severity it was made with. *)
firstRisk(es) ==
    [c \in CVEsOf(es) |->
        es[CHOOSE t \in TurnsOf(es, c): \A u \in TurnsOf(es, c) \ {t}: Earlier(t, u)].severity]

riskCount(risk) ==
    [s \in severities |-> Cardinality({c \in DOMAIN risk: risk[c] = s})]

-----------------------------------------------------------------------------
(* The metrics, of the images with a report. *)
Families(es) ==
    [cves |-> vulOccurrence(es), occurrence |-> riskOccurrence(es),
     count |-> riskCount(riskByCVE(es))]

(* Variants of the operators below, each with a slip this code invites.    *)
ClusterUnique(order) ==         \* occurrences taken from the map by CVE
    LET es == Entries(order, ToSet(order))
    IN  [cves |-> vulOccurrence(es), occurrence |-> riskCount(riskByCVE(es)),
         count |-> riskCount(riskByCVE(es))]
AnyEntries(es, cve) == es       \* isRelevant.CVE is not asked

collectClusterCVEMetrics(order) == Families(Entries(order, ToSet(order)))
collectNamespaceCVEMetrics(order, ns) ==
    Families(Entries(order, {i \in ToSet(order): ns \in NamespacesOf[i]}))
collectImageCVEMetrics(i) == Families(Entries(<<i>>, {i}))

-----------------------------------------------------------------------------
(* The response of a CVEReport about everything, or about one CVE. *)
RelevantResult(i, found, cve) ==
    \/ cve = Everything
    \/ i \in found /\ \E n \in DOMAIN Vulns[i]: Vulns[i][n].cve = cve

RelevantEntries(es, cve) ==
    RestrictValues(es, LAMBDA e: cve \in {Everything, e.cve})

GenerateReports(order, found, cve) ==
    LET imgs == {i \in ToSet(order): RelevantResult(i, found, cve)}
        es == RelevantEntries(Entries(order, imgs \cap found), cve)
        OfImage(i) == RestrictValues(es, LAMBDA e: e.image = i)
    IN  [images |-> [i \in imgs |->
                       [result |-> IF i \in found THEN "Found" ELSE "NotFound",
                        occurrence |-> riskOccurrence(OfImage(i)),
                        count |-> riskCount(riskByCVE(OfImage(i)))]],
         occurrence |-> riskOccurrence(es),
         count |-> riskCount(firstRisk(es)),
         cves |-> vulOccurrence(es)]

-----------------------------------------------------------------------------
Total(f) == MapThenSumSet(LAMBDA x: f[x], DOMAIN f)

(* A response adds up: the images it lists account for its occurrences,    *)
(* severity by severity, and each CVE it lists is counted once.            *)
AddsUp(r) ==
    /\ \A s \in severities:
          r.occurrence[s] = Total([i \in DOMAIN r.images |-> r.images[i].occurrence[s]])
    /\ Total(r.occurrence) = Total(r.cves)
    /\ Total(r.count) = Cardinality(DOMAIN r.cves)

OneSeverity(S) ==
    \A i, j \in S: \A k \in DOMAIN Vulns[i], n \in DOMAIN Vulns[j]:
        Vulns[i][k].cve = Vulns[j][n].cve => Vulns[i][k].severity = Vulns[j][n].severity
=============================================================================
