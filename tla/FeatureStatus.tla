--------------------------- MODULE FeatureStatus ---------------------------
(***************************************************************************)
(* How the Feature controller judges a feature: evaluateStatus, isEnabled, *)
(* isFeatureReady and reconcile of pkg/controllers/feature, and the        *)
(* summary of a feature set, updateFeatureSetStatus.  Pure operators; the  *)
(* steps that use them are in FeatureController.  A *bool is "nil", "true" *)
(* or "false"; the note of a status is left out.                           *)
(***************************************************************************)
EXTENDS FiniteSets

Bool(b) == IF b THEN "true" ELSE "false"
BoolPtr == {"nil", "true", "false"}

Status == [enabled : BoolPtr, managed : BoolPtr, ready : BoolPtr]
NilStatus == [enabled |-> "nil", managed |-> "nil", ready |-> "nil"]

(* What the cluster shows of a feature: its required resources, one result *)
(* for each group of its workloads (required, and each optional group),    *)
(* and its HelmRelease.                                                    *)
Situation == [resources : {"unchecked", "missing", "found"},
              workloads : SUBSET {"missing", "unready", "ready"},
              release   : {"none", "unready", "ready"}]

(* What evaluateStatus returns: featureStatus, nil parts "unchecked". *)
Evaluation == [resources  : {"unchecked", "missing", "found"},
               workload   : {"unchecked", "missing", "unready", "ready"},
               dependency : {"unchecked", "unsatisfied", "found"},
               release    : {"none", "unready", "ready"}]

(* checkRequiredWorkloadExistence walks the groups in map order and stops  *)
(* at the first that is missing or not ready.                              *)
WorkloadResults(groups) ==
    IF groups = {} THEN {"unchecked"}
    ELSE IF groups \subseteq {"ready"} THEN {"ready"}
    ELSE groups \ {"ready"}

Evaluations(sit, dep) ==
    {[resources |-> sit.resources, workload |-> w, dependency |-> dep,
      release |-> sit.release] : w \in WorkloadResults(sit.workloads)}

IsEnabled(ev) ==
    /\ ev.resources # "missing"
    /\ ev.workload # "missing"
    /\ \/ ev.resources # "unchecked"
       \/ ev.workload # "unchecked"
       \/ ev.release # "none"

IsFeatureReady(ev) ==
    /\ ev.dependency # "unsatisfied"
    /\ ev.workload # "missing"
    /\ ev.release # "unready"

(* A release found by label carries the labels of the feature, and so is   *)
(* managed.                                                                *)
Managed(ev) == ev.release # "none"

UnmanagedReadyRaw(ev) ==    \* a slip: the result itself, not the ready flag
    IF ev.workload # "unchecked" THEN ev.workload
    ELSE IF ev.resources # "unchecked" THEN ev.resources ELSE "nil"

(* The workloads decide an unmanaged feature's readiness, or its resources *)
(* when it has no workload check.                                          *)
UnmanagedReady(ev) ==
    IF ev.workload # "unchecked" THEN Bool(ev.workload = "ready")
    ELSE IF ev.resources # "unchecked" THEN Bool(ev.resources = "found")
    ELSE "nil"

(* reconcile, after evaluateStatus; isFeatureEnabled looks the release up  *)
(* a second time.                                                          *)
Judged(ev, releaseNow) ==
    LET enabled == releaseNow # "none" \/ IsEnabled(ev) IN
    IF ~ enabled
    THEN [enabled |-> "false", managed |-> "nil", ready |-> "nil"]
    ELSE [enabled |-> "true", managed |-> Bool(Managed(ev)),
          ready |-> IF Managed(ev) THEN Bool(IsFeatureReady(ev))
                                   ELSE UnmanagedReady(ev)]

(* updateFeatureSetStatus, from the statuses of the listed features.       *)
SetEnabled(entries) == Bool(\E e \in entries : e.enabled = "true")
SetReady(entries) ==
    IF \E e \in entries : e.enabled = "true" /\ e.ready # "true" THEN "false"
    ELSE IF SetEnabled(entries) = "true" THEN "true"
    ELSE "nil"

(* A JSON merge patch holds the fields in which new differs from cur, and  *)
(* sets those, and only those, on the server's copy.                       *)
MergePatched(server, cur, new) ==
    [k \in DOMAIN server |-> IF new[k] # cur[k] THEN new[k] ELSE server[k]]
=============================================================================
