----------------------------- MODULE ImageScans -----------------------------
(***************************************************************************)
(* The image scans of a cluster: the scanner (external) serves the         *)
(* ImageScanRequests, and ui-server has three clients of its reports.  The *)
(* metrics collector and the CVEReport storage run ReportPipeline; the     *)
(* WorkloadReconciler of pkg/controllers/scanner asks for the scans of a   *)
(* workload's images.  The clients share nothing but the API server, so    *)
(* one of them is active in a behaviour, chosen at the start.              *)
(***************************************************************************)
EXTENDS MetricsCollector, ScanStatistics

CONSTANT MaxChanges   \* bound on changes of flags, pods and reports

ASSUME ChangesAssumption == MaxChanges \in Nat
ASSUME ImagesAssumption == IsFiniteSet(Images) /\ DOMAIN Vulns = Images

VARIABLES
    active,      \* "collector", "storage", "workload"
    changes,
    pods,        \* "waiting", "running": the phases of the workload's pods
    queued,      \* the workload is in the reconciler's queue
    refs         \* images Reconcile has still to look at

wlVars == <<pods, queued, refs>>
vars   == <<pipeVars, installed, collVars, store, active, changes, wlVars>>

Init ==
    /\ PipeInit
    /\ CollInit
    /\ reports \in [Images -> {"none", "current"}]
    /\ active \in {"collector", "storage", "workload"}
    /\ active # "collector" => installed = {}
    /\ changes = 0
    /\ pods = "waiting"
    /\ queued = (active = "workload")
    /\ refs = {}

-----------------------------------------------------------------------------
(* The scanner serves a request. *)
Scan(i) ==
    /\ i \in requested
    /\ requested' = requested \ {i}
    /\ reports' = [reports EXCEPT ![i] = "current"]
    /\ UNCHANGED <<failures, poolVars, callVars, installed, collVars, store, active, changes, wlVars>>

Change == changes < MaxChanges /\ changes' = changes + 1

(* A newer vulnerability database: the scanner marks a report outdated, or *)
(* removes it.                                                             *)
ReportAges(i) ==
    /\ Change
    /\ reports[i] # "none"
    /\ reports' \in {[reports EXCEPT ![i] = r]: r \in {"outdated", "none"}}
    /\ UNCHANGED <<requested, failures, poolVars, callVars, installed, collVars, store, active, wlVars>>

(* The poller of pkg/graph stores a flag. *)
FlagTurns(f) ==
    /\ active = "collector"
    /\ Change
    /\ installed' = IF f \in installed THEN installed \ {f} ELSE installed \cup {f}
    /\ UNCHANGED <<pipeVars, collVars, store, active, wlVars>>

(* The phases of the pods change, and with them the workload's status. *)
PodsChange ==
    /\ active = "workload"
    /\ pods = "waiting" \/ Change
    /\ pods = "waiting" => changes' = changes
    /\ pods' = IF pods = "waiting" THEN "running" ELSE "waiting"
    /\ queued' \in {queued, TRUE}
    /\ UNCHANGED <<pipeVars, installed, collVars, store, active, refs>>

(* Any event of the workload, the resync of the manager's cache at last. *)
Resync ==
    /\ active = "workload"
    /\ queued' = TRUE
    /\ UNCHANGED <<pipeVars, installed, collVars, store, active, changes, pods, refs>>

-----------------------------------------------------------------------------
(* Create of a CVEReport: the pods are located, and their images, or the   *)
(* one image of the request, are looked up under the request's context.    *)
CreateReport(S) ==
    /\ active = "storage"
    /\ Collect(S)
    /\ UNCHANGED <<installed, collVars, store, active, changes, wlVars>>

Disconnect ==
    /\ active = "storage"
    /\ DropRequest
    /\ UNCHANGED <<installed, collVars, store, active, changes, wlVars>>

-----------------------------------------------------------------------------
(* A slip this code invites: any report will do. *)
scanOnlyMissing(i) == reports[i] = "none"

shouldScan(i) == reports[i] \in {"none", "outdated"}

(* The error Reconcile returns puts the workload back in the queue.        *)
ReconcileFails ==
    /\ failures < MaxFailures
    /\ failures' = failures + 1
    /\ refs' = {}
    /\ queued' = TRUE
    /\ requested' = requested

(* Reconcile lists the pods: with one that neither runs nor is through,    *)
(* nothing is scanned and the next event of the workload is awaited.       *)
ReconcileStart ==
    /\ active = "workload"
    /\ queued
    /\ refs = {}
    /\ \/ /\ queued' = FALSE
          /\ refs' = IF pods = "running" THEN Images ELSE {}
          /\ UNCHANGED <<failures, requested>>
       \/ ReconcileFails
    /\ UNCHANGED <<reports, poolVars, callVars, installed, collVars, store, active, changes, pods>>

(* One image: a request is sent when its report is missing or outdated. *)
ReconcileRef(i) ==
    /\ active = "workload"
    /\ i \in refs
    /\ \/ /\ refs' = refs \ {i}
          /\ requested' = IF shouldScan(i) THEN requested \cup {i} ELSE requested
          /\ UNCHANGED <<failures, queued>>
       \/ ReconcileFails
    /\ UNCHANGED <<reports, poolVars, callVars, installed, collVars, store, active, changes, pods>>

Environment ==
    \/ \E i \in Images: Scan(i) \/ ReportAges(i)
    \/ \E f \in Flags: FlagTurns(f)
    \/ PodsChange \/ Resync

Pipeline ==
    PipeStep /\ UNCHANGED <<installed, collVars, store, active, changes, wlVars>>

Collector ==
    active = "collector" /\ CollectorStep /\ UNCHANGED <<active, changes, wlVars>>

Scrape ==
    (ScrapeBegins \/ ScrapeEnds) /\ UNCHANGED <<active, changes, wlVars>>

Storage ==
    Disconnect \/ \E S \in SUBSET Images: CreateReport(S)

Workload ==
    ReconcileStart \/ \E i \in Images: ReconcileRef(i)

Next == Environment \/ Pipeline \/ Collector \/ Scrape \/ Storage \/ Workload

Spec == Init /\ [][Next]_vars

(* Goroutines are scheduled, calls are answered, a scrape ends, the        *)
(* scanner serves every request, pods start in the end and the cache       *)
(* resyncs.                                                                *)
Fairness ==
    /\ PipeFairness
    /\ WF_vars(Collector)
    /\ WF_collVars(ScrapeEnds)
    /\ WF_vars(Workload)
    /\ WF_vars(Resync)
    /\ WF_vars(PodsChange /\ pods = "waiting")
    /\ \A i \in Images: WF_vars(Scan(i))

FairSpec == Spec /\ Fairness

-----------------------------------------------------------------------------
(* Once the flags and the reports settle, the metrics a scrape reads are   *)
(* those of the flags, and count the report of every image that runs: the  *)
(* collector asks for the missing ones itself, and a failed collection or  *)
(* a lost scan request is made up for by a later turn of the loop.         *)
MetricsCatchUp ==
    <>[](active = "collector" =>
            /\ store.headers = Generators(installed)
            /\ "scanner" \in installed => store.shown = Images)

(* A workload whose pods run has a current report of each of its images in *)
(* the end, although Reconcile gives up on a pod that is not running yet   *)
(* without asking to be called again, and stops at its first failing call. *)
WorkloadsScanned ==
    <>[](active = "workload" /\ pods = "running" =>
            \A i \in Images: reports[i] = "current")

Answered == active = "storage" /\ caller = "ok"
Results == {i \in asked: m[i] # "none"}     \* the keys of the map that is returned
FoundImages == {i \in asked: m[i] = "found"}
Topics == {Everything} \cup {v.cve: v \in UNION {ToSet(Vulns[i]): i \in Images}}

(* Whatever order the maps are ranged over in, a CVEReport lists every     *)
(* image it was asked about, and its numbers add up, for a request about   *)
(* everything and for one about a CVE.                                     *)
ReportsAddUp ==
    Answered =>
        \A order \in Orders(Results), cve \in Topics:
            LET r == GenerateReports(order, FoundImages, cve)
            IN  /\ AddsUp(r)
                /\ cve = Everything => DOMAIN r.images = asked
                /\ cve # Everything => DOMAIN r.cves \subseteq {cve}

(* The metrics and a CVEReport of the same results, computed by different  *)
(* code and in different orders, agree on every occurrence and on the CVEs *)
(* there are; on the CVEs per severity they agree where no CVE has two     *)
(* severities, and else the order of the iterations decides.               *)
MetricsAgree ==
    Answered =>
        \A order \in Orders(Results), other \in Orders(FoundImages):
            LET r == GenerateReports(order, FoundImages, Everything)
                c == collectClusterCVEMetrics(other)
            IN  /\ r.occurrence = c.occurrence
                /\ r.cves = c.cves
                /\ Total(r.count) = Total(c.count)
                /\ OneSeverity(FoundImages) => r.count = c.count
                /\ \A i \in FoundImages:
                      r.images[i].occurrence = collectImageCVEMetrics(i).occurrence
                /\ \A ns \in UNION {NamespacesOf[i]: i \in Images}, s \in severities:
                      collectNamespaceCVEMetrics(other, ns).occurrence[s] <= c.occurrence[s]
=============================================================================
