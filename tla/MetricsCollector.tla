-------------------------- MODULE MetricsCollector --------------------------
(***************************************************************************)
(* The metrics collector (pkg/metricshandler): an endless loop that reads  *)
(* the flags OPAInstalled and ScannerInstalled of pkg/graph once, builds   *)
(* the family generators they call for, fills a new store from the object  *)
(* graph, the scan reports (ReportPipeline) and the policies, publishes    *)
(* the store for the scrapes, and sleeps.                                  *)
(***************************************************************************)
EXTENDS ReportPipeline, Sequences

VARIABLES
    installed,     \* the flags of pkg/graph that are set, of Flags
    phase,         \* where the loop is
    seen,          \* the flags this collection was started with
    families,      \* families added to the new store, by name
    shown,         \* images whose report the new store counts
    store,         \* the published store, or NoStore
    reading        \* scrapes hold the read lock of mu

collVars == <<phase, seen, families, shown, reading>>

Flags == {"opa", "scanner"}

(* The names of the families, in the order of initFamilyGenerators.        *)
AncestorFamily == <<"pod_ancestor">>
ScannerFamilies ==
    <<"cluster_cve_occurrence", "cluster_cve_occurrence_total", "cluster_cve_count_total",
      "namespace_cve_occurrence", "namespace_cve_occurrence_total", "namespace_cve_count_total",
      "image_cve_occurrence_total", "image_cve_count_total", "image_lineage">>
PolicyFamilies ==
    <<"cluster_violation_occurrence_total", "cluster_violation_occurrence_by_constraint_type",
      "namespace_violation_occurrence_total", "namespace_violation_occurrence_by_constraint_type">>

Generators(flags) ==
    AncestorFamily \o (IF "scanner" \in flags THEN ScannerFamilies ELSE <<>>)
                   \o (IF "opa" \in flags THEN PolicyFamilies ELSE <<>>)

NoStore == [headers |-> <<>>, families |-> <<>>, shown |-> {}]

CollInit ==
    /\ installed \in SUBSET Flags
    /\ phase = "start"
    /\ seen = {}
    /\ families = <<>>
    /\ shown = {}
    /\ store = NoStore
    /\ reading = FALSE

-----------------------------------------------------------------------------
(* Take n families from the generators at an offset, counted from 0.       *)
From(offset, n) == SubSeq(Generators(seen), offset + 1, offset + n)

(* # of scanner metrics families, 9 in the code *)
PolicyOffset == IF "scanner" \in seen THEN 1 + Len(ScannerFamilies) ELSE 1

AfterAncestors == IF "scanner" \in seen THEN "scanner"
                  ELSE IF "opa" \in seen THEN "policy" ELSE "publish"

(* Variants of the steps below, each with a slip this code invites.        *)
AfterReportsLive ==     \* the flag is read once more before it is used
    IF "opa" \in seen \cap installed THEN "policy" ELSE "publish"

-----------------------------------------------------------------------------
AfterReports == IF "opa" \in seen THEN "policy" ELSE "publish"

(* A collector with the flags of this moment, its generators and an empty  *)
(* store.  The two loads are one step: nothing depends on their order.     *)
BeginCollection ==
    /\ phase = "start"
    /\ seen' = installed
    /\ families' = <<>>
    /\ shown' = {}
    /\ phase' = "ancestors"
    /\ UNCHANGED <<pipeVars, installed, store, reading>>

(* An error of the collection: logged, and the loop goes on without sleep. *)
Discard ==
    /\ phase' = "start"
    /\ seen' = {}
    /\ families' = <<>>
    /\ shown' = {}

(* Any call of the API server in a phase other than the report pipeline.   *)
CollectionFails ==
    /\ phase \in {"ancestors", "scanner", "policy"}
    /\ failures < MaxFailures
    /\ failures' = failures + 1
    /\ Discard
    /\ UNCHANGED <<reports, requested, poolVars, callVars, installed, store, reading>>

(* collectPodAncestorMetrics. *)
CollectAncestors ==
    /\ phase = "ancestors"
    /\ families' = families \o From(0, 1)
    /\ phase' = AfterAncestors
    /\ UNCHANGED <<pipeVars, installed, seen, shown, store, reading>>

(* collectScannerMetrics lists the pods and calls collectReports with the  *)
(* images of all of them, under a context nobody cancels ...               *)
CollectScanner ==
    /\ phase = "scanner"
    /\ Collect(Images)
    /\ phase' = "reports"
    /\ UNCHANGED <<installed, seen, families, shown, store, reading>>

(* ... and adds the nine families of the results. *)
AddScanner ==
    /\ phase = "reports"
    /\ caller = "ok"
    /\ families' = families \o From(1, Len(ScannerFamilies))
    /\ shown' = {i \in Images: m[i] = "found"}
    /\ phase' = AfterReports
    /\ UNCHANGED <<pipeVars, installed, seen, store, reading>>

ReportsFailed ==
    /\ phase = "reports"
    /\ caller = "error"
    /\ Discard
    /\ UNCHANGED <<pipeVars, installed, store, reading>>

(* collectPolicyMetrics. *)
CollectPolicy ==
    /\ phase = "policy"
    /\ families' = families \o From(PolicyOffset, 2) \o From(PolicyOffset + 2, 2)
    /\ phase' = "publish"
    /\ UNCHANGED <<pipeVars, installed, seen, shown, store, reading>>

(* ServeHTTP writes all of the published store under the read lock, and a  *)
(* collector that waits in mu.Lock() keeps new scrapes out.                *)
ScrapeBegins ==
    /\ ~ reading
    /\ phase # "publish"
    /\ reading' = TRUE
    /\ UNCHANGED <<pipeVars, installed, phase, seen, families, shown, store>>

ScrapeEnds ==
    /\ reading
    /\ reading' = FALSE
    /\ UNCHANGED <<pipeVars, installed, phase, seen, families, shown, store>>

(* store = collector.store, under the write lock. *)
Publish ==
    /\ phase = "publish"
    /\ ~ reading
    /\ store' = [headers |-> Generators(seen), families |-> families, shown |-> shown]
    /\ phase' = "sleep"
    /\ seen' = {}
    /\ families' = <<>>
    /\ shown' = {}
    /\ UNCHANGED <<pipeVars, installed, reading>>

Wake ==
    /\ phase = "sleep"
    /\ phase' = "start"
    /\ UNCHANGED <<pipeVars, installed, seen, families, shown, store, reading>>

CollectorStep ==
    \/ BeginCollection \/ CollectionFails \/ CollectAncestors
    \/ CollectScanner \/ AddScanner \/ ReportsFailed
    \/ CollectPolicy \/ Publish \/ Wake

-----------------------------------------------------------------------------
(* WriteAll zips the headers of a store with its families by position.     *)
(* A scrape of any published store finds a family for every header, and    *)
(* the one the header announces, although the poller may turn a flag while *)
(* a collection is on its way: a family too few is an index out of range.  *)
HeadersMatch == store.headers = store.families
=============================================================================
