------------------------- MODULE FeatureController -------------------------
(***************************************************************************)
(* The Feature controller of pkg/controllers/feature: one worker that      *)
(* judges each Feature, writes its status, its entry in the status of its  *)
(* FeatureSet and the dependents of other FeatureSets, and looks after its *)
(* finalizer.  It reads Features and FeatureSets from the manager's cache, *)
(* which lags behind the API server, and writes most of them with merge    *)
(* patches that carry no resource version.                                 *)
(*                                                                         *)
(* External: the API server, the cache and the work queue.  The cache      *)
(* jumps to the server's latest copy of an object; resource versions are   *)
(* represented by whether a copy is older than the server's.               *)
(***************************************************************************)
EXTENDS FeatureStatus, Naturals

CONSTANTS
    Features, Sets,
    SetOf,         \* SetOf[f]: Spec.FeatureSet
    Group,         \* Group[f]: Spec.FeatureExclusionGroup, "" for none
    Requires,      \* Requires[f]: Spec.Requirements.Features
    Situations,    \* Situations[f]: what the cluster may show of f
    Starts,        \* what the API server may hold when the server starts
    MaxChanges,    \* bound on changes by users and third parties
    MaxFailures    \* bound on failing API calls

ASSUME FeaturesAssumption ==
    /\ SetOf \in [Features -> Sets]
    /\ DOMAIN Group = Features
    /\ Requires \in [Features -> SUBSET Features]
    /\ \A f \in Features : Situations[f] \in SUBSET Situation \ {{}}
ASSUME BoundsAssumption == MaxChanges \in Nat /\ MaxFailures \in Nat

VARIABLES
    situation,   \* situation[f]: what the cluster shows of f
    feat,        \* the Features on the API server
    fset,        \* the FeatureSets on the API server
    cacheFeat, cacheSet,      \* their copies in the manager's cache
    old,         \* features whose cached copy is not the server's
    dirty,       \* keys in the work queue, RequeueAfter and backoff included
    stage,       \* what the worker does next
    cur,         \* the key the worker has
    feature,     \* r.feature, its copy of the Feature
    featureOld,  \* its resource version is not the server's any more
    ev,          \* featureStatus, from evaluateStatus
    todo,        \* required features updateAllFeatureSetDependencies has left
    fs,          \* the FeatureSet it has read and changed, until the patch
    changes, failures

server == <<feat, fset, old>>
cache  == <<cacheFeat, cacheSet>>
local  == <<cur, feature, ev, todo, fs>>
vars   == <<situation, server, cache, dirty, stage, local, featureOld,
            changes, failures>>

NoFeature == [exists |-> FALSE, deleting |-> FALSE, finalizer |-> FALSE,
              disabled |-> FALSE, status |-> NilStatus]
NewFeature == [NoFeature EXCEPT !.exists = TRUE]
NewSetStatus == [features |-> [f \in {} |-> NilStatus], enabled |-> "nil",
                 ready |-> "nil", dependents |-> {}]
NoSet  == [exists |-> FALSE, status |-> NewSetStatus]
NewSet == [exists |-> TRUE, status |-> NewSetStatus]
NoEvaluation == [resources |-> "unchecked", workload |-> "unchecked",
                 dependency |-> "unchecked", release |-> "none"]
None == "none"
NoRead == [set |-> None, status |-> NewSetStatus]

FeatureCopy == [exists : BOOLEAN, deleting : BOOLEAN, finalizer : BOOLEAN,
                disabled : BOOLEAN, status : Status]
Entries == UNION {[S -> Status] : S \in SUBSET Features}
SetStatus == [features : Entries, enabled : BoolPtr, ready : BoolPtr,
              dependents : SUBSET Features]
SetCopy == [exists : BOOLEAN, status : SetStatus]
Stages == {"idle", "finalizer", "evaluate", "judge", "status", "exclusion",
           "entry", "dependents", "deleteEntry", "removeFinalizer"}

TypeOK ==
    /\ \A f \in Features : situation[f] \in Situations[f]
    /\ feat \in [Features -> FeatureCopy]
    /\ DOMAIN fset = Sets /\ \A s \in Sets : fset[s] \in SetCopy
    /\ cacheFeat \in [Features -> FeatureCopy]
    /\ DOMAIN cacheSet = Sets /\ \A s \in Sets : cacheSet[s] \in SetCopy
    /\ old \subseteq Features
    /\ dirty \subseteq Features
    /\ stage \in Stages
    /\ cur \in Features \cup {None}
    /\ feature \in FeatureCopy
    /\ featureOld \in BOOLEAN
    /\ ev \in Evaluation
    /\ todo \subseteq Features
    /\ fs \in [set : Sets \cup {None}, status : SetStatus]
    /\ changes \in 0 .. MaxChanges
    /\ failures \in 0 .. MaxFailures

ASSUME StartsAssumption ==
    \A start \in Starts :
        /\ start.feat \in [Features -> FeatureCopy]
        /\ DOMAIN start.fset = Sets
        /\ \A s \in Sets : start.fset[s] \in SetCopy

(* The server starts, on what the chart has just installed or on what an   *)
(* earlier run has left; the cache has synced and every Feature is queued. *)
Init ==
    /\ situation \in {g \in [Features -> UNION {Situations[f] : f \in Features}] :
                        \A f \in Features : g[f] \in Situations[f]}
    /\ \E start \in Starts : feat = start.feat /\ fset = start.fset
    /\ cacheFeat = feat
    /\ cacheSet = fset
    /\ old = {}
    /\ dirty = Features
    /\ stage = "idle"
    /\ cur = None
    /\ feature = NoFeature
    /\ featureOld = FALSE
    /\ ev = NoEvaluation
    /\ todo = {}
    /\ fs = NoRead
    /\ changes = 0
    /\ failures = 0

-----------------------------------------------------------------------------
(* The API server and the cache. *)

(* A write that changes nothing leaves the resource version alone. *)
Store(f, copy) ==
    /\ feat' = [feat EXCEPT ![f] = copy]
    /\ old' = IF copy = feat[f] THEN old ELSE old \cup {f}

(* ... and a write that changes f outdates the worker's copy of it. *)
Outdate(f, copy) == featureOld' = (featureOld \/ (cur = f /\ copy # feat[f]))

(* An object that is being deleted goes with its last finalizer. *)
Finalized(copy) == IF copy.deleting /\ ~ copy.finalizer THEN NoFeature ELSE copy

Change ==
    /\ changes < MaxChanges
    /\ changes' = changes + 1

CreateFeature(f) ==
    /\ Change
    /\ ~ feat[f].exists
    /\ Store(f, NewFeature)
    /\ Outdate(f, NewFeature)
    /\ UNCHANGED <<situation, fset, cache, dirty, stage, local, failures>>

DeleteFeature(f) ==
    LET gone == Finalized([feat[f] EXCEPT !.deleting = TRUE]) IN
    /\ Change
    /\ feat[f].exists
    /\ ~ feat[f].deleting
    /\ Store(f, gone)
    /\ Outdate(f, gone)
    /\ UNCHANGED <<situation, fset, cache, dirty, stage, local, failures>>

(* Third parties install and remove things; only a HelmRelease is watched. *)
ChangeSituation(f, sit) ==
    /\ Change
    /\ sit \in Situations[f] \ {situation[f]}
    /\ situation' = [situation EXCEPT ![f] = sit]
    /\ dirty' = IF sit.release # situation[f].release THEN dirty \cup {f} ELSE dirty
    /\ UNCHANGED <<server, cache, stage, local, featureOld, failures>>

ToggleSet(s) ==
    /\ Change
    /\ fset' = [fset EXCEPT ![s] = IF fset[s].exists THEN NoSet ELSE NewSet]
    /\ UNCHANGED <<situation, feat, old, cache, dirty, stage, local,
                   featureOld, failures>>

(* A watch event brings the cache up to date and queues the Feature. *)
SyncFeature(f) ==
    /\ f \in old
    /\ cacheFeat' = [cacheFeat EXCEPT ![f] = feat[f]]
    /\ old' = old \ {f}
    /\ dirty' = dirty \cup {f}
    /\ UNCHANGED <<situation, feat, fset, cacheSet, stage, local,
                   featureOld, changes, failures>>

(* findFeaturesForFeatureSet, behind GenerationChangedPredicate: a change  *)
(* of a FeatureSet's status queues nothing.                                *)
SyncSet(s) ==
    /\ cacheSet[s] # fset[s]
    /\ cacheSet' = [cacheSet EXCEPT ![s] = fset[s]]
    /\ dirty' = IF cacheSet[s].exists = fset[s].exists THEN dirty
                ELSE dirty \cup {f \in Features : SetOf[f] = s /\ cacheFeat[f].exists}
    /\ UNCHANGED <<situation, server, cacheFeat, stage, local,
                   featureOld, changes, failures>>

Resync(f) ==
    /\ cacheFeat[f].exists
    /\ dirty' = dirty \cup {f}
    /\ UNCHANGED <<situation, server, cache, stage, local, featureOld,
                   changes, failures>>

-----------------------------------------------------------------------------
(* Reconcile. *)

(* It returns, with or without a later attempt. *)
Return(again) ==
    /\ dirty' = IF again THEN dirty \cup {cur} ELSE dirty
    /\ stage' = "idle"
    /\ cur' = None
    /\ feature' = NoFeature
    /\ featureOld' = FALSE
    /\ ev' = NoEvaluation
    /\ todo' = {}
    /\ fs' = NoRead

(* Variants of the steps below, each with a slip this code invites.        *)
StatusPatchedIfEnabledChanges(f) ==     \* the patch is skipped too often
    IF /\ cacheFeat[f].exists
       /\ feat[f].exists
       /\ cacheFeat[f].status.enabled # feature.status.enabled
    THEN [feat[f] EXCEPT !.status =
            MergePatched(@, cacheFeat[f].status, feature.status)]
    ELSE feat[f]

EntryChangedNoReset(f) ==               \* Enabled of the set is never taken back
    LET c == cacheSet[SetOf[f]].status
        features == [g \in DOMAIN c.features \cup {f} |->
                        IF g = f THEN feature.status ELSE c.features[g]]
        entries == {features[g] : g \in DOMAIN features}
    IN  [c EXCEPT !.features = features,
                  !.enabled = IF SetEnabled(entries) = "true" THEN "true" ELSE @,
                  !.ready = SetReady(entries)]

DependentsOnlyAdded(f, s) ==            \* removeFeatureDependents is forgotten
    [cacheSet[s].status EXCEPT !.dependents =
        IF feature.status.managed = "true" /\ feature.status.enabled = "true"
        THEN @ \cup {f} ELSE @]

DisabledEven(f, otherEnabled) ==        \* also if it is enabled itself
    otherEnabled

DisabledKept(f, otherEnabled) ==        \* Disabled is not reset with the group
    IF otherEnabled THEN feature.status.enabled # "true" ELSE feature.disabled

-----------------------------------------------------------------------------
(* The worker takes a key.  A Feature the cache does not have is ignored;  *)
(* one that has the finalizer has its status reset and is judged.          *)
Begin(f) ==
    /\ stage = "idle"
    /\ f \in dirty
    /\ dirty' = dirty \ {f}
    /\ \/ /\ cacheFeat[f].exists
          /\ cur' = f
          /\ featureOld' = (f \in old)
          /\ stage' = IF cacheFeat[f].deleting THEN "deleteEntry"
                      ELSE IF cacheFeat[f].finalizer THEN "evaluate" ELSE "finalizer"
          /\ feature' = IF stage' = "evaluate"
                        THEN [cacheFeat[f] EXCEPT !.status = NilStatus] ELSE cacheFeat[f]
       \/ /\ ~ cacheFeat[f].exists
          /\ UNCHANGED <<cur, feature, featureOld, stage>>
    /\ UNCHANGED <<situation, server, cache, ev, todo, fs, changes, failures>>

(* cu.CreateOrPatch of the finalizers: the outcomes, and the stored copy.  *)
(* A Feature that the cache has lost is created anew.                      *)
PatchOutcome(f) ==
    IF cacheFeat[f].exists
    THEN IF feat[f].exists THEN "patched" ELSE "NotFound"
    ELSE IF feat[f].exists THEN "AlreadyExists" ELSE "created"

PatchedUnion(f, finalizer) ==           \* a slip: finalizers are only ever added
    IF PatchOutcome(f) = "created"
    THEN [NewFeature EXCEPT !.finalizer = finalizer, !.disabled = feature.disabled]
    ELSE [feat[f] EXCEPT !.finalizer = @ \/ finalizer]

Patched(f, finalizer) ==
    IF PatchOutcome(f) = "created"
    THEN [NewFeature EXCEPT !.finalizer = finalizer, !.disabled = feature.disabled]
    ELSE Finalized([feat[f] EXCEPT
            !.finalizer = IF cacheFeat[f].finalizer # finalizer THEN finalizer ELSE @])

EnsureFinalizer ==
    /\ stage = "finalizer"
    /\ PatchOutcome(cur) \in {"patched", "created"}
    /\ Store(cur, Patched(cur, TRUE))
    /\ Outdate(cur, Patched(cur, TRUE))
    /\ stage' = "evaluate"
    /\ feature' = [feature EXCEPT !.finalizer = TRUE, !.status = NilStatus]
    /\ UNCHANGED <<situation, fset, cache, dirty, cur, ev, todo, fs,
                   changes, failures>>

(* A NotFound error of reconcile is passed over, with the status that was  *)
(* read; any other error is logged and dropped.                            *)
FinalizerNotFound ==
    /\ stage = "finalizer"
    /\ PatchOutcome(cur) = "NotFound"
    /\ stage' = "status"
    /\ feature' = [feature EXCEPT !.finalizer = TRUE]
    /\ UNCHANGED <<situation, server, cache, dirty, cur, featureOld, ev,
                   todo, fs, changes, failures>>

FinalizerRefused ==
    /\ stage = "finalizer"
    /\ PatchOutcome(cur) = "AlreadyExists"
    /\ Return(FALSE)
    /\ UNCHANGED <<situation, server, cache, changes, failures>>

(* checkDependencyExistence, from the cache. *)
Dependency(f, known) ==
    IF Requires[f] = {} THEN "unchecked"
    ELSE IF \A g \in Requires[f] : known[g].exists /\ known[g].status.enabled = "true"
    THEN "found" ELSE "unsatisfied"

EvaluateStatus ==
    /\ stage = "evaluate"
    /\ ev' \in Evaluations(situation[cur], Dependency(cur, cacheFeat))
    /\ stage' = "judge"
    /\ UNCHANGED <<situation, server, cache, dirty, cur, feature, featureOld,
                   todo, fs, changes, failures>>

JudgeFeature ==
    /\ stage = "judge"
    /\ feature' = [feature EXCEPT !.status = Judged(ev, situation[cur].release)]
    /\ ev' = NoEvaluation
    /\ stage' = "status"
    /\ UNCHANGED <<situation, server, cache, dirty, cur, featureOld, todo,
                   fs, changes, failures>>

(* updateStatus: a patch of the difference to the cached status. *)
StatusPatched(f) ==
    IF cacheFeat[f].exists /\ feat[f].exists
    THEN [feat[f] EXCEPT !.status =
            MergePatched(@, cacheFeat[f].status, feature.status)]
    ELSE feat[f]

UpdateStatus ==
    /\ stage = "status"
    /\ Store(cur, StatusPatched(cur))
    /\ Outdate(cur, StatusPatched(cur))
    /\ stage' = IF Group[cur] # "" THEN "exclusion" ELSE "entry"
    /\ UNCHANGED <<situation, fset, cache, dirty, local, changes, failures>>

(* handleFeatureExclusionGroups. *)
Listed(f) == DOMAIN cacheSet[SetOf[f]].status.features

GroupReadable(f) ==
    /\ cacheSet[SetOf[f]].exists
    /\ \A g \in Listed(f) : cacheFeat[g].exists

OtherEnabled(f) ==
    \E g \in Listed(f) \ {f} :
        Group[g] = Group[f] /\ cacheFeat[g].status.enabled = "true"

(* Spec.Disabled while another member of the group is enabled or not. *)
Disabled(f, otherEnabled) == otherEnabled /\ feature.status.enabled # "true"

UpdateAccepted(f) == feat[f].exists /\ ~ featureOld

HandleExclusionGroups ==
    LET copy == [feat[cur] EXCEPT !.disabled = Disabled(cur, OtherEnabled(cur)),
                                  !.finalizer = feature.finalizer] IN
    /\ stage = "exclusion"
    /\ GroupReadable(cur)
    /\ UpdateAccepted(cur)
    /\ Store(cur, copy)
    /\ featureOld' = FALSE
    /\ feature' = copy
    /\ stage' = "entry"
    /\ UNCHANGED <<situation, fset, cache, dirty, cur, ev, todo, fs, changes, failures>>

ExclusionError ==
    /\ stage = "exclusion"
    /\ ~ (GroupReadable(cur) /\ UpdateAccepted(cur))
    /\ Return(TRUE)
    /\ UNCHANGED <<situation, server, cache, changes, failures>>

(* A FeatureSet is read from the cache, changed, and handed to             *)
(* PatchStatus, which reads the cache again and sends what differs between *)
(* the two: the cache may move in between.                                 *)
Read(s, new) ==
    /\ fs = NoRead
    /\ cacheSet[s].exists
    /\ fs' = [set |-> s, status |-> new]

SetPresent(s) == cacheSet[s].exists /\ fset[s].exists

PatchSet(s, new) == [fset EXCEPT ![s].status = MergePatched(@, cacheSet[s].status, new)]

(* updateFeatureSetEntry and the summary of updateFeatureSetStatus. *)
EntryChanged(f) ==
    LET c == cacheSet[SetOf[f]].status
        features == [g \in DOMAIN c.features \cup {f} |->
                        IF g = f THEN feature.status ELSE c.features[g]]
        entries == {features[g] : g \in DOMAIN features}
    IN  [c EXCEPT !.features = features, !.enabled = SetEnabled(entries),
                  !.ready = SetReady(entries)]

ReadEntry ==
    /\ stage \in {"entry", "deleteEntry"}
    /\ Read(SetOf[cur], EntryChanged(cur))
    /\ UNCHANGED <<situation, server, cache, dirty, stage, cur, feature, featureOld,
                   ev, todo, changes, failures>>

(* Its patch takes over the whole status; a FeatureSet that is gone, at    *)
(* either read or on the server, is passed over.                           *)
EntryWritten ==
    IF fs # NoRead /\ SetPresent(fs.set) THEN PatchSet(fs.set, fs.status) ELSE fset

EntryDue == fs # NoRead \/ ~ cacheSet[SetOf[cur]].exists

(* The required features that are left, or the end: RequeueAfter a random  *)
(* interval.                                                               *)
Continue(left) ==
    \/ /\ left # {}
       /\ stage' = "dependents"
       /\ todo' = left
       /\ fs' = NoRead
       /\ UNCHANGED <<dirty, cur, feature, featureOld, ev>>
    \/ /\ left = {}
       /\ Return(TRUE)

UpdateFeatureSetEntry ==
    /\ stage = "entry"
    /\ EntryDue
    /\ fset' = EntryWritten
    /\ Continue(Requires[cur])
    /\ UNCHANGED <<situation, feat, old, cache, changes, failures>>

(* updateAllFeatureSetDependencies, one required feature. *)
Concerned(f, g) ==
    /\ cacheFeat[g].exists
    /\ cacheFeat[g].status.enabled = "true"
    /\ SetOf[g] # SetOf[f]

SkipDependents(g) ==
    /\ stage = "dependents"
    /\ fs = NoRead
    /\ g \in todo
    /\ ~ Concerned(cur, g)
    /\ Continue(todo \ {g})
    /\ UNCHANGED <<situation, server, cache, changes, failures>>

DependentsChanged(f, s) ==
    [cacheSet[s].status EXCEPT !.dependents =
        IF feature.status.managed = "true" /\ feature.status.enabled = "true"
        THEN @ \cup {f} ELSE @ \ {f}]

ReadDependents(g) ==
    /\ stage = "dependents"
    /\ g \in todo
    /\ Concerned(cur, g)
    /\ Read(SetOf[g], DependentsChanged(cur, SetOf[g]))
    /\ todo' = todo \ {g}
    /\ UNCHANGED <<situation, server, cache, dirty, stage, cur, feature, featureOld,
                   ev, changes, failures>>

(* This patch takes over the dependents only. *)
UpdateDependents ==
    /\ stage = "dependents"
    /\ fs # NoRead
    /\ SetPresent(fs.set)
    /\ fset' = PatchSet(fs.set, [cacheSet[fs.set].status EXCEPT
                                    !.dependents = fs.status.dependents])
    /\ Continue(todo)
    /\ UNCHANGED <<situation, feat, old, cache, changes, failures>>

(* A FeatureSet that is gone is an error here, at either read or patch. *)
DependentsError ==
    /\ stage = "dependents"
    /\ \/ fs # NoRead /\ ~ SetPresent(fs.set)
       \/ /\ fs = NoRead
          /\ \E g \in todo : Concerned(cur, g) /\ ~ cacheSet[SetOf[g]].exists
    /\ Return(TRUE)
    /\ UNCHANGED <<situation, server, cache, changes, failures>>

(* updateFeatureSetAndRemoveFinalizer.  Finalizers of others are not       *)
(* modelled, so a Feature that is being deleted still has this one.        *)
DeleteEntry ==
    /\ stage = "deleteEntry"
    /\ EntryDue
    /\ fset' = EntryWritten
    /\ fs' = NoRead
    /\ stage' = "removeFinalizer"
    /\ UNCHANGED <<situation, feat, old, cache, dirty, cur, feature, ev, todo, featureOld,
                   changes, failures>>

RemoveFinalizer ==
    /\ stage = "removeFinalizer"
    /\ PatchOutcome(cur) \in {"patched", "created"}
    /\ Store(cur, Patched(cur, FALSE))
    /\ Return(FALSE)
    /\ UNCHANGED <<situation, fset, cache, changes, failures>>

(* Only a NotFound error is returned, and with it retried. *)
RemoveFinalizerError ==
    /\ stage = "removeFinalizer"
    /\ PatchOutcome(cur) \in {"NotFound", "AlreadyExists"}
    /\ Return(PatchOutcome(cur) = "NotFound")
    /\ UNCHANGED <<situation, server, cache, changes, failures>>

-----------------------------------------------------------------------------
(* An API call fails for a reason other than NotFound. *)

(* evaluateStatus: the status stays empty and is written all the same. *)
EvaluateError ==
    /\ stage = "evaluate"
    /\ failures < MaxFailures
    /\ failures' = failures + 1
    /\ stage' = "status"
    /\ UNCHANGED <<situation, server, cache, dirty, local, featureOld, changes>>

(* These errors are returned: retried with backoff. *)
ErrorRetried ==
    /\ stage \in {"status", "exclusion", "entry", "dependents"}
    /\ failures < MaxFailures
    /\ failures' = failures + 1
    /\ Return(TRUE)
    /\ UNCHANGED <<situation, server, cache, changes>>

(* These are logged or lost, and Reconcile returns no error. *)
ErrorDropped ==
    /\ stage \in {"finalizer", "judge", "deleteEntry", "removeFinalizer"}
    /\ failures < MaxFailures
    /\ failures' = failures + 1
    /\ Return(FALSE)
    /\ UNCHANGED <<situation, server, cache, changes>>

WorkStep ==
    \/ EnsureFinalizer \/ FinalizerNotFound \/ FinalizerRefused
    \/ EvaluateStatus \/ JudgeFeature \/ UpdateStatus
    \/ HandleExclusionGroups \/ ExclusionError
    \/ ReadEntry \/ UpdateFeatureSetEntry
    \/ \E g \in Features : SkipDependents(g) \/ ReadDependents(g)
    \/ UpdateDependents \/ DependentsError
    \/ DeleteEntry \/ RemoveFinalizer \/ RemoveFinalizerError

Next ==
    \/ \E f \in Features :
        \/ CreateFeature(f) \/ DeleteFeature(f)
        \/ \E sit \in Situations[f] : ChangeSituation(f, sit)
        \/ SyncFeature(f) \/ Resync(f)
        \/ Begin(f)
    \/ \E s \in Sets : ToggleSet(s) \/ SyncSet(s)
    \/ WorkStep
    \/ EvaluateError \/ ErrorRetried \/ ErrorDropped

Spec == Init /\ [][Next]_vars

(* The worker runs, every queued key has its turn, the cache catches up,   *)
(* and the hourly resync recurs.                                           *)
Fairness ==
    /\ WF_vars(WorkStep)
    /\ \A f \in Features :
        /\ SF_vars(Begin(f))
        /\ WF_vars(SyncFeature(f))
        /\ WF_vars(Resync(f))
    /\ \A s \in Sets : WF_vars(SyncSet(s))

FairSpec == Spec /\ Fairness

-----------------------------------------------------------------------------
Live(f) == feat[f].exists /\ ~ feat[f].deleting

(* A Feature is never disabled while its status says enabled: the Update   *)
(* of handleFeatureExclusionGroups goes through only with the resource     *)
(* version that was read, and so only if the judgement it rests on is      *)
(* still the stored status, however stale the cache was.                   *)
NeverDisablesEnabled ==
    [][\A f \in Features :
        (feat[f].exists /\ ~ feat[f].disabled /\ feat'[f].disabled)
            => feat[f].status.enabled # "true"]_vars

Judgements(f) ==
    {Judged(e, situation[f].release) : e \in Evaluations(situation[f], Dependency(f, feat))}

(* With several failing workload groups the map order decides. *)
Definite(f) == Cardinality(Judgements(f)) = 1

(* When the cluster is quiet every Feature's status becomes and stays what *)
(* the code judges its situation to be (for a Feature without HelmRelease  *)
(* a test expects another one: see TestedStatuses), although a patch       *)
(* against a stale cached copy may have left a mixture of two judgements   *)
(* behind.  A Feature with several judgements is exempt: its status may    *)
(* change, even to mixtures, with every reconcile.                         *)
StatusConverges ==
    <>[](\A f \in Features : Live(f) /\ Definite(f) => feat[f].status \in Judgements(f))

(* From some time on the cache has caught up with a FeatureSet when a      *)
(* reconcile reads it.  Weak fairness of SyncSet does not give this, and   *)
(* without it two Features may for ever overwrite each other's entries:    *)
(* each computes its list from an old copy and patches the difference to a *)
(* newer one.  See section 5 of the README.                                *)
ReadsTimely ==
    <>[][fs' # fs /\ fs' # NoRead => cacheSet[fs'.set] = fset[fs'.set]]_vars

SetCurrent(s) ==
    LET features == fset[s].status.features
        entries == {features[f] : f \in DOMAIN features}
    IN  /\ \A f \in Features :
            (Live(f) /\ SetOf[f] = s) =>
                f \in DOMAIN features /\ features[f] = feat[f].status
        /\ fset[s].status.enabled = SetEnabled(entries)
        /\ fset[s].status.ready = SetReady(entries)

Undisturbed(s) ==
    \A f \in DOMAIN fset[s].status.features : Live(f) /\ Definite(f)

(* Entries that one reconcile overwrote with a stale list come back when   *)
(* reads become timely, whatever mixture was left: every FeatureSet ends   *)
(* with the status of its Features and the summary that the code makes of  *)
(* them (the tests expect another one: see TestedStatuses).  A set that    *)
(* lists a deleted Feature is exempt: its entry is never removed, and      *)
(* makes handleFeatureExclusionGroups fail for the others.                 *)
SetsConverge ==
    ReadsTimely => <>[](\A s \in Sets :
            (fset[s].exists /\ Undisturbed(s) /\ \E f \in Features : Live(f) /\ SetOf[f] = s)
                => SetCurrent(s))

(* In the end, if reads become timely, a member of an exclusion group is   *)
(* disabled exactly if another member is enabled and it is not itself: a   *)
(* rival is known only by its entry in the FeatureSet.                     *)
ExclusionConverges ==
    ReadsTimely => <>[](\A f \in Features :
            (Live(f) /\ Group[f] # "" /\ fset[SetOf[f]].exists /\ Undisturbed(SetOf[f]))
            => (feat[f].disabled <=>
                  /\ feat[f].status.enabled # "true"
                  /\ \E g \in Features \ {f} :
                        /\ Live(g)
                        /\ Group[g] = Group[f]
                        /\ SetOf[g] = SetOf[f]
                        /\ feat[g].status.enabled = "true"))

(* The dependents of a FeatureSet end up right, if reads become timely,    *)
(* for every Feature that requires one of its enabled Features, although   *)
(* the entries of its own Features are written with the whole status and   *)
(* may bring back dependents that were read long before.                   *)
DependentsConverge ==
    ReadsTimely => <>[](\A f \in Features : \A g \in Requires[f] :
            LET s == SetOf[g] IN
            (/\ Live(f) /\ Live(g)
             /\ fset[s].exists
             /\ s # SetOf[f]
             /\ feat[g].status.enabled = "true"
             /\ Group[f] # "" => fset[SetOf[f]].exists /\ Undisturbed(SetOf[f]))
            => (f \in fset[s].status.dependents <=>
                  feat[f].status.managed = "true" /\ feat[f].status.enabled = "true"))

(* No Feature stays Terminating, although the errors on that path are      *)
(* dropped: the resync tries again.                                        *)
DeletionCompletes ==
    \A f \in Features : feat[f].deleting ~> ~ feat[f].deleting

-----------------------------------------------------------------------------
(* What feature_controller_test.go expects.  TestFeatureReadyStatus: a     *)
(* Feature with workloads is not ready without a HelmRelease.              *)
UnmanagedNotReady ==
    \A f \in Features : feat[f].status.managed = "false" => feat[f].status.ready # "true"

(* TestFeatureSetStatus: a FeatureSet without an enabled Feature, and one  *)
(* without a managed Feature, is neither enabled nor ready: both "false".  *)
SetNeedsManaged ==
    \A s \in Sets :
        LET st == fset[s].status IN
        (/\ DOMAIN st.features # {}
         /\ \A f \in DOMAIN st.features :
                st.features[f].enabled # "true" \/ st.features[f].managed # "true")
        => st.enabled = "false" /\ st.ready = "false"

(* TestFeatureSetGetDisabledWhenRequiredFeatureGetDeleted: a FeatureSet is *)
(* not enabled once its Features are gone.                                 *)
DeletionDisablesSet ==
    \A s \in Sets :
        (\A f \in Features : SetOf[f] = s => ~ feat[f].exists)
            => fset[s].status.enabled # "true"

(* The statuses the tests of the controller expect of it, where the code   *)
(* gives others; each part fails on its own.                               *)
TestedStatuses == UnmanagedNotReady /\ SetNeedsManaged /\ DeletionDisablesSet
=============================================================================
