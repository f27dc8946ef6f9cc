----------------------- MODULE FeatureControllerProofs -----------------------
(***************************************************************************)
(* Proofs about FeatureController, alone and beside the ClusterClaim       *)
(* reconciler, for every set of Features and FeatureSets, every            *)
(* assignment of groups and requirements and every number of changes and   *)
(* failures.                                                               *)
(***************************************************************************)
EXTENDS ClusterClaim, TLAPS

(* The worker has a key while it works. *)
Working == stage # "idle" => cur \in Features

(* A Feature the cache has caught up with is the server's. *)
CacheCurrent == \A f \in Features : f \notin old => cacheFeat[f] = feat[f]

(* Up to the Update of the exclusion group, a copy with the server's       *)
(* version is one the cache has caught up with when it was read ...        *)
CopyCurrent ==
    stage \in {"finalizer", "evaluate", "judge", "status", "exclusion"} /\ ~ featureOld
        => cur \notin old /\ feat[cur].exists

(* ... and its judgement is stored, for the patch of it changed nothing.   *)
JudgementStored ==
    stage = "exclusion" /\ ~ featureOld => feature.status = feat[cur].status

Typed == TypeOK /\ situation \in [Features -> Situation] /\ Working

Fresh == CacheCurrent /\ CopyCurrent /\ JudgementStored

FeatureInv == Typed /\ Fresh

-----------------------------------------------------------------------------
(* What the operators return *)

LEMMA CopyTypes ==
    /\ NilStatus \in Status
    /\ NoFeature \in FeatureCopy /\ NewFeature \in FeatureCopy
    /\ NoEvaluation \in Evaluation
BY DEF NilStatus, Status, BoolPtr, NoFeature, NewFeature, FeatureCopy, NoEvaluation, Evaluation

ReadCopy == [set : Sets \cup {None}, status : SetStatus]

LEMMA SetTypes == NoSet \in SetCopy /\ NewSet \in SetCopy /\ NoRead \in ReadCopy
<1>1. [f \in {} |-> NilStatus] \in [{} -> Status]
  OBVIOUS
<1>2. [f \in {} |-> NilStatus] \in Entries
  BY <1>1 DEF Entries
<1> QED
  BY <1>2 DEF NoSet, NewSet, NewSetStatus, SetCopy, SetStatus, BoolPtr, NoRead, ReadCopy

LEMMA StatusMerges ==
    ASSUME NEW a \in Status, NEW b \in Status, NEW c \in Status
    PROVE  /\ MergePatched(a, b, c) \in Status
           /\ b = a /\ MergePatched(a, b, c) = a => c = a
BY DEF MergePatched, Status

LEMMA SetStatusMerges ==
    ASSUME NEW a \in SetStatus, NEW b \in SetStatus, NEW c \in SetStatus
    PROVE  MergePatched(a, b, c) \in SetStatus
BY DEF MergePatched, SetStatus

LEMMA JudgedType ==
    ASSUME NEW e \in Evaluation, NEW r \in {"none", "unready", "ready"}
    PROVE  Judged(e, r) \in Status
BY DEF Judged, Status, BoolPtr, Bool, UnmanagedReady

LEMMA EvaluationTypes ==
    ASSUME NEW sit \in Situation, NEW d \in {"unchecked", "unsatisfied", "found"}
    PROVE  Evaluations(sit, d) \subseteq Evaluation
<1>1. WorkloadResults(sit.workloads) \subseteq {"unchecked", "missing", "unready", "ready"}
  BY DEF WorkloadResults, Situation
<1> QED
  BY <1>1 DEF Evaluations, Evaluation, Situation
LEMMA FinalizedType ==
    ASSUME NEW c \in FeatureCopy PROVE Finalized(c) \in FeatureCopy
BY CopyTypes DEF Finalized

LEMMA PatchedType ==
    ASSUME TypeOK, NEW f \in Features, NEW b \in BOOLEAN
    PROVE  Patched(f, b) \in FeatureCopy
<1>1. [NewFeature EXCEPT !.finalizer = b, !.disabled = feature.disabled] \in FeatureCopy
  BY CopyTypes DEF TypeOK, FeatureCopy
<1>2. [feat[f] EXCEPT !.finalizer = IF cacheFeat[f].finalizer # b THEN b ELSE @] \in FeatureCopy
  BY DEF TypeOK, FeatureCopy
<1> QED
  BY <1>1, <1>2, FinalizedType DEF Patched

LEMMA StatusPatchedType ==
    ASSUME TypeOK, NEW f \in Features PROVE StatusPatched(f) \in FeatureCopy
<1>1. feat[f] \in FeatureCopy /\ feat[f].status \in Status
      /\ cacheFeat[f].status \in Status /\ feature.status \in Status
  BY DEF TypeOK, FeatureCopy
<1>2. MergePatched(feat[f].status, cacheFeat[f].status, feature.status) \in Status
  BY <1>1, StatusMerges
<1> QED
  BY <1>1, <1>2 DEF StatusPatched, FeatureCopy

LEMMA EntryChangedType ==
    ASSUME TypeOK, NEW f \in Features PROVE EntryChanged(f) \in SetStatus
<1> DEFINE c == cacheSet[SetOf[f]].status
           features == [g \in DOMAIN c.features \cup {f} |->
                          IF g = f THEN feature.status ELSE c.features[g]]
           entries == {features[g] : g \in DOMAIN features}
<1>1. c \in SetStatus /\ feature.status \in Status
  BY FeaturesAssumption DEF TypeOK, SetCopy, FeatureCopy
<1>2. features \in Entries
  <2>1. PICK S \in SUBSET Features : c.features \in [S -> Status]
    BY <1>1 DEF SetStatus, Entries
  <2>2. features \in [S \cup {f} -> Status]
    BY <1>1, <2>1
  <2> QED
    BY <2>2 DEF Entries
<1> HIDE DEF c, features
<1>3. SetEnabled(entries) \in BoolPtr /\ SetReady(entries) \in BoolPtr
  BY DEF SetEnabled, SetReady, BoolPtr, Bool
<1> HIDE DEF entries
<1>4. [c EXCEPT !.features = features, !.enabled = SetEnabled(entries),
                !.ready = SetReady(entries)] \in SetStatus
  BY <1>1, <1>2, <1>3 DEF SetStatus
<1> QED
  BY <1>4 DEF EntryChanged, c, features, entries

LEMMA DependentsChangedType ==
    ASSUME TypeOK, NEW f \in Features, NEW s \in Sets
    PROVE  DependentsChanged(f, s) \in SetStatus
<1>1. cacheSet[s].status \in SetStatus
  BY DEF TypeOK, SetCopy
<1> QED
  BY <1>1 DEF DependentsChanged, SetStatus

LEMMA PatchSetType ==
    ASSUME TypeOK, NEW s, NEW new \in SetStatus
    PROVE  DOMAIN PatchSet(s, new) = Sets /\ \A t \in Sets : PatchSet(s, new)[t] \in SetCopy
<1>1. DOMAIN PatchSet(s, new) = Sets
  BY DEF PatchSet, TypeOK
<1>2. ASSUME NEW t \in Sets PROVE PatchSet(s, new)[t] \in SetCopy
  <2>1. CASE t # s
    BY <1>2, <2>1 DEF PatchSet, TypeOK
  <2>2. CASE t = s
    <3>1. fset[s].status \in SetStatus /\ cacheSet[s].status \in SetStatus
      BY <1>2, <2>2 DEF TypeOK, SetCopy
    <3>2. MergePatched(fset[s].status, cacheSet[s].status, new) \in SetStatus
      BY <3>1, SetStatusMerges
    <3>3. PatchSet(s, new)[t] =
            [fset[s] EXCEPT !.status = MergePatched(fset[s].status, cacheSet[s].status, new)]
      BY <1>2, <2>2 DEF PatchSet, TypeOK
    <3> QED
      BY <1>2, <2>2, <3>2, <3>3 DEF TypeOK, SetCopy
  <2> QED
    BY <2>1, <2>2
<1> QED
  BY <1>1, <1>2

LEMMA EntryWrittenType ==
    ASSUME TypeOK PROVE DOMAIN EntryWritten = Sets /\ \A s \in Sets : EntryWritten[s] \in SetCopy
<1>1. fs.status \in SetStatus
  BY DEF TypeOK
<1> QED
  BY <1>1, PatchSetType DEF EntryWritten, TypeOK

LEMMA ReadTypes ==
    ASSUME TypeOK, NEW s \in Sets, NEW new \in SetStatus, Read(s, new)
    PROVE  fs' \in ReadCopy
BY DEF Read, ReadCopy

-----------------------------------------------------------------------------
(* The types and the key of the worker *)

LEMMA StoredTypes ==
    ASSUME TypeOK, NEW f \in Features, NEW copy \in FeatureCopy, Store(f, copy)
    PROVE  feat' \in [Features -> FeatureCopy] /\ old' \subseteq Features
BY DEF TypeOK, Store

LEMMA ReturnTypes ==
    ASSUME Typed, stage # "idle", NEW again, Return(again),
           feat' \in [Features -> FeatureCopy], old' \subseteq Features,
           DOMAIN fset' = Sets, \A s \in Sets : fset'[s] \in SetCopy,
           UNCHANGED <<situation, cache, changes>>, failures' \in 0 .. MaxFailures
    PROVE  Typed'
BY CopyTypes, SetTypes DEF Typed, TypeOK, Working, Return, cache, Stages, ReadCopy

LEMMA EnvironmentTypes ==
    ASSUME Typed,
           \/ \E f \in Features :
                \/ CreateFeature(f) \/ DeleteFeature(f)
                \/ \E sit \in Situations[f] : ChangeSituation(f, sit)
                \/ SyncFeature(f) \/ Resync(f)
           \/ \E s \in Sets : ToggleSet(s) \/ SyncSet(s)
    PROVE  Typed'
<1> USE BoundsAssumption DEF Typed, Working, server, cache, local
<1>1. ASSUME NEW f \in Features, CreateFeature(f) PROVE Typed'
  <2>1. feat' \in [Features -> FeatureCopy] /\ old' \subseteq Features
    BY <1>1, CopyTypes, StoredTypes DEF CreateFeature
  <2>2. featureOld' \in BOOLEAN /\ changes' \in 0 .. MaxChanges
    BY <1>1 DEF CreateFeature, Outdate, Change, TypeOK
  <2> QED
    BY <1>1, <2>1, <2>2 DEF CreateFeature, TypeOK
<1>2. ASSUME NEW f \in Features, DeleteFeature(f) PROVE Typed'
  <2>1. Finalized([feat[f] EXCEPT !.deleting = TRUE]) \in FeatureCopy
    <3>1. [feat[f] EXCEPT !.deleting = TRUE] \in FeatureCopy
      BY DEF TypeOK, FeatureCopy
    <3> QED
      BY <3>1, FinalizedType
  <2>2. feat' \in [Features -> FeatureCopy] /\ old' \subseteq Features
    BY <1>2, <2>1, StoredTypes DEF DeleteFeature
  <2>3. featureOld' \in BOOLEAN /\ changes' \in 0 .. MaxChanges
    BY <1>2 DEF DeleteFeature, Outdate, Change, TypeOK
  <2> QED
    BY <1>2, <2>2, <2>3 DEF DeleteFeature, TypeOK
<1>3. ASSUME NEW f \in Features, NEW sit \in Situations[f], ChangeSituation(f, sit) PROVE Typed'
  <2>1. sit \in Situation
    BY FeaturesAssumption
  <2>2. situation' \in [Features -> Situation] /\ \A g \in Features : situation'[g] \in Situations[g]
    BY <1>3, <2>1 DEF ChangeSituation, TypeOK
  <2>3. changes' \in 0 .. MaxChanges
    BY <1>3 DEF ChangeSituation, Change, TypeOK
  <2> QED
    BY <1>3, <2>2, <2>3 DEF ChangeSituation, TypeOK
<1>4. ASSUME NEW f \in Features, SyncFeature(f) PROVE Typed'
  BY <1>4 DEF SyncFeature, TypeOK
<1>5. ASSUME NEW f \in Features, Resync(f) PROVE Typed'
  BY <1>5 DEF Resync, TypeOK
<1>6. ASSUME NEW s \in Sets, ToggleSet(s) PROVE Typed'
  <2>1. changes' \in 0 .. MaxChanges
    BY <1>6 DEF ToggleSet, Change, TypeOK
  <2>2. DOMAIN fset' = Sets /\ \A t \in Sets : fset'[t] \in SetCopy
    BY <1>6, SetTypes DEF ToggleSet, TypeOK
  <2> QED
    BY <1>6, <2>1, <2>2 DEF ToggleSet, TypeOK
<1>7. ASSUME NEW s \in Sets, SyncSet(s) PROVE Typed'
  BY <1>7 DEF SyncSet, TypeOK
<1> QED
  BY <1>1, <1>2, <1>3, <1>4, <1>5, <1>6, <1>7
LEMMA ContinueTypes ==
    ASSUME Typed, stage # "idle", NEW left \in SUBSET Features, Continue(left),
           DOMAIN fset' = Sets, \A s \in Sets : fset'[s] \in SetCopy,
           UNCHANGED <<situation, feat, old, cache, changes, failures>>
    PROVE  Typed'
<1>1. CASE left = {}
  BY <1>1, ReturnTypes DEF Continue, Typed, TypeOK
<1>2. CASE left # {}
  BY <1>2, SetTypes DEF Continue, Typed, TypeOK, Working, cache, Stages, ReadCopy
<1> QED
  BY <1>1, <1>2

LEMMA WorkerTypes ==
    ASSUME Typed,
           (\E f \in Features : Begin(f)) \/ WorkStep
             \/ EvaluateError \/ ErrorRetried \/ ErrorDropped
    PROVE  Typed'
<1> USE BoundsAssumption DEF Typed, Working, server, cache, local, Stages
<1>1. ASSUME NEW f \in Features, Begin(f) PROVE Typed'
  <2>1. cacheFeat[f] \in FeatureCopy /\ [cacheFeat[f] EXCEPT !.status = NilStatus] \in FeatureCopy
    BY CopyTypes DEF TypeOK, FeatureCopy
  <2>2. dirty' \subseteq Features
    BY <1>1 DEF Begin, TypeOK
  <2>3. CASE cacheFeat[f].exists
    <3>1. cur' = f /\ featureOld' \in BOOLEAN /\ stage' \in {"deleteEntry", "evaluate", "finalizer"}
      BY <1>1, <2>3 DEF Begin, TypeOK
    <3>2. feature' \in FeatureCopy
      BY <1>1, <2>1, <2>3 DEF Begin
    <3> QED
      BY <1>1, <2>2, <3>1, <3>2 DEF Begin, TypeOK
  <2>4. CASE ~ cacheFeat[f].exists
    BY <1>1, <2>2, <2>4 DEF Begin, TypeOK
  <2> QED
    BY <2>3, <2>4
<1>2. CASE EnsureFinalizer
  <2>1. cur \in Features
    BY <1>2 DEF EnsureFinalizer
  <2>2. feat' \in [Features -> FeatureCopy] /\ old' \subseteq Features
    BY <1>2, <2>1, PatchedType, StoredTypes DEF EnsureFinalizer
  <2>3. featureOld' \in BOOLEAN
    BY <1>2 DEF EnsureFinalizer, Outdate, TypeOK
  <2>4. feature' \in FeatureCopy
    BY <1>2, CopyTypes DEF EnsureFinalizer, TypeOK, FeatureCopy
  <2> QED
    BY <1>2, <2>1, <2>2, <2>3, <2>4 DEF EnsureFinalizer, TypeOK
<1>3. CASE FinalizerNotFound
  <2>1. feature' \in FeatureCopy
    BY <1>3 DEF FinalizerNotFound, TypeOK, FeatureCopy
  <2> QED
    BY <1>3, <2>1 DEF FinalizerNotFound, TypeOK
<1>4. CASE FinalizerRefused
  BY <1>4, ReturnTypes DEF FinalizerRefused, TypeOK
<1>5. CASE EvaluateStatus
  <2>1. situation[cur] \in Situation
    BY <1>5 DEF EvaluateStatus
  <2>2. Dependency(cur, cacheFeat) \in {"unchecked", "unsatisfied", "found"}
    BY DEF Dependency
  <2>3. ev' \in Evaluation
    BY <1>5, <2>1, <2>2, EvaluationTypes DEF EvaluateStatus
  <2> QED
    BY <1>5, <2>3 DEF EvaluateStatus, TypeOK
<1>6. CASE JudgeFeature
  <2>1. situation[cur].release \in {"none", "unready", "ready"}
    BY <1>6 DEF JudgeFeature, Situation
  <2>2. Judged(ev, situation[cur].release) \in Status
    BY <2>1, JudgedType DEF TypeOK
  <2>3. feature' \in FeatureCopy
    BY <1>6, <2>2 DEF JudgeFeature, TypeOK, FeatureCopy
  <2> QED
    BY <1>6, <2>3, CopyTypes DEF JudgeFeature, TypeOK
<1>7. CASE UpdateStatus
  <2>1. cur \in Features
    BY <1>7 DEF UpdateStatus
  <2>2. feat' \in [Features -> FeatureCopy] /\ old' \subseteq Features
    BY <1>7, <2>1, StatusPatchedType, StoredTypes DEF UpdateStatus
  <2>3. featureOld' \in BOOLEAN
    BY <1>7 DEF UpdateStatus, Outdate, TypeOK
  <2> QED
    BY <1>7, <2>1, <2>2, <2>3 DEF UpdateStatus, TypeOK
<1>8. CASE HandleExclusionGroups
  <2> DEFINE copy == [feat[cur] EXCEPT !.disabled = Disabled(cur, OtherEnabled(cur)),
                                       !.finalizer = feature.finalizer]
  <2>1. cur \in Features
    BY <1>8 DEF HandleExclusionGroups
  <2>2. Disabled(cur, OtherEnabled(cur)) \in BOOLEAN
    BY DEF Disabled, OtherEnabled
  <2>3. copy \in FeatureCopy
    BY <2>1, <2>2 DEF TypeOK, FeatureCopy
  <2>4. feat' \in [Features -> FeatureCopy] /\ old' \subseteq Features
    BY <1>8, <2>1, <2>3, StoredTypes DEF HandleExclusionGroups
  <2> QED
    BY <1>8, <2>1, <2>3, <2>4 DEF HandleExclusionGroups, TypeOK
<1>9. CASE ExclusionError
  BY <1>9, ReturnTypes DEF ExclusionError, TypeOK
<1>10. CASE ReadEntry \/ UpdateFeatureSetEntry
  <2>1. cur \in Features /\ SetOf[cur] \in Sets /\ Requires[cur] \in SUBSET Features
    BY <1>10, FeaturesAssumption DEF ReadEntry, UpdateFeatureSetEntry
  <2>2. CASE ReadEntry
    <3>1. fs' \in ReadCopy
      BY <2>1, <2>2, EntryChangedType, ReadTypes DEF ReadEntry
    <3> QED
      BY <2>2, <3>1 DEF ReadEntry, TypeOK, ReadCopy
  <2>3. CASE UpdateFeatureSetEntry
    BY <2>1, <2>3, EntryWrittenType, ContinueTypes DEF UpdateFeatureSetEntry
  <2> QED
    BY <1>10, <2>2, <2>3
<1>11. ASSUME NEW g \in Features, SkipDependents(g) \/ ReadDependents(g) PROVE Typed'
  <2>1. cur \in Features /\ SetOf[g] \in Sets /\ todo \ {g} \in SUBSET Features
    BY <1>11, FeaturesAssumption DEF SkipDependents, ReadDependents, TypeOK
  <2>2. CASE SkipDependents(g)
    BY <2>1, <2>2, ContinueTypes DEF SkipDependents, TypeOK
  <2>3. CASE ReadDependents(g)
    <3>1. fs' \in ReadCopy
      BY <2>1, <2>3, DependentsChangedType, ReadTypes DEF ReadDependents
    <3> QED
      BY <2>1, <2>3, <3>1 DEF ReadDependents, TypeOK, ReadCopy
  <2> QED
    BY <1>11, <2>2, <2>3
<1>12. CASE UpdateDependents \/ DependentsError
  <2>1. CASE UpdateDependents
    <3> DEFINE new == [cacheSet[fs.set].status EXCEPT !.dependents = fs.status.dependents]
    <3>1. todo \in SUBSET Features /\ fs.status.dependents \in SUBSET Features
      BY DEF TypeOK, SetStatus
    <3>2. fset' = PatchSet(fs.set, new)
      BY <2>1 DEF UpdateDependents
    <3>3. DOMAIN fset' = Sets /\ \A s \in Sets : fset'[s] \in SetCopy
      <4>1. CASE fs.set \in Sets
        <5>1. cacheSet[fs.set].status \in SetStatus
          BY <4>1 DEF TypeOK, SetCopy
        <5>2. new \in SetStatus
          BY <3>1, <5>1 DEF SetStatus
        <5> QED
          BY <3>2, <5>2, PatchSetType
      <4>2. CASE fs.set \notin Sets
        <5>1. DOMAIN fset' = Sets /\ \A s \in Sets : fset'[s] = fset[s]
          BY <3>2, <4>2 DEF PatchSet, TypeOK
        <5> QED
          BY <5>1 DEF TypeOK
      <4> QED
        BY <4>1, <4>2
    <3> QED
      BY <2>1, <3>1, <3>3, ContinueTypes DEF UpdateDependents
  <2>2. CASE DependentsError
    BY <2>2, ReturnTypes DEF DependentsError, TypeOK
  <2> QED
    BY <1>12, <2>1, <2>2
<1>13. CASE DeleteEntry
  BY <1>13, EntryWrittenType, SetTypes DEF DeleteEntry, TypeOK, ReadCopy
<1>14. CASE RemoveFinalizer
  <2>1. cur \in Features
    BY <1>14 DEF RemoveFinalizer
  <2>2. feat' \in [Features -> FeatureCopy] /\ old' \subseteq Features
    BY <1>14, <2>1, PatchedType, StoredTypes DEF RemoveFinalizer
  <2> QED
    BY <1>14, <2>2, ReturnTypes DEF RemoveFinalizer, TypeOK
<1>15. CASE RemoveFinalizerError
  BY <1>15, ReturnTypes DEF RemoveFinalizerError, TypeOK
<1>16. CASE EvaluateError
  <2>1. failures' \in 0 .. MaxFailures
    BY <1>16 DEF EvaluateError, TypeOK
  <2> QED
    BY <1>16, <2>1 DEF EvaluateError, TypeOK
<1>17. CASE ErrorRetried
  <2>1. failures' \in 0 .. MaxFailures
    BY <1>17 DEF ErrorRetried, TypeOK
  <2> QED
    BY <1>17, <2>1, ReturnTypes DEF ErrorRetried, TypeOK
<1>18. CASE ErrorDropped
  <2>1. failures' \in 0 .. MaxFailures
    BY <1>18 DEF ErrorDropped, TypeOK
  <2> QED
    BY <1>18, <2>1, ReturnTypes DEF ErrorDropped, TypeOK
<1> QED
  BY <1>1, <1>2, <1>3, <1>4, <1>5, <1>6, <1>7, <1>8, <1>9, <1>10, <1>11, <1>12, <1>13,
     <1>14, <1>15, <1>16, <1>17, <1>18 DEF WorkStep
-----------------------------------------------------------------------------
(* The worker's copy of the Feature *)

(* A write leaves behind every cached copy it changes ... *)
LEMMA WriteCached ==
    ASSUME Typed, CacheCurrent, NEW f \in Features, NEW copy, Store(f, copy),
           cacheFeat' = cacheFeat
    PROVE  CacheCurrent'
BY DEF Typed, TypeOK, CacheCurrent, Store

(* ... and outdates the worker's. *)
LEMMA WriteSeen ==
    ASSUME Typed, NEW f \in Features, NEW copy, cur \in Features,
           Store(f, copy), Outdate(f, copy), ~ featureOld'
    PROVE  /\ ~ featureOld
           /\ feat'[cur] = feat[cur]
           /\ cur \in old' => cur \in old
           /\ cur = f => copy = feat[f]
BY DEF Typed, TypeOK, Store, Outdate

(* Without a write of a Feature all of it stays, until the worker returns. *)
LEMMA FreshKept ==
    ASSUME Typed, Fresh, UNCHANGED <<feat, old, cacheFeat>>,
           \/ UNCHANGED <<cur, featureOld, stage, feature>>
           \/ stage' \in {"idle", "entry", "dependents", "deleteEntry", "removeFinalizer"}
           \/ /\ stage \in {"finalizer", "evaluate", "judge", "status"}
              /\ stage' # "exclusion"
              /\ UNCHANGED <<cur, featureOld>>
    PROVE  Fresh'
BY DEF Fresh, CacheCurrent, CopyCurrent, JudgementStored

LEMMA FeatureWritten ==
    ASSUME Typed, Fresh, NEW f \in Features, NEW copy, Store(f, copy), Outdate(f, copy),
           UNCHANGED <<cache, stage, cur, feature>>
    PROVE  Fresh'
<1>1. CacheCurrent'
  BY WriteCached DEF Fresh, cache
<1>2. CASE stage = "idle"
  BY <1>1, <1>2 DEF Fresh, CopyCurrent, JudgementStored
<1>3. CASE stage # "idle"
  <2>1. cur \in Features
    BY <1>3 DEF Typed, Working
  <2>2. ~ featureOld' => ~ featureOld /\ feat'[cur] = feat[cur] /\ (cur \in old' => cur \in old)
    BY <2>1, WriteSeen
  <2> QED
    BY <1>1, <2>2 DEF Fresh, CopyCurrent, JudgementStored
<1> QED
  BY <1>2, <1>3

LEMMA BeginFresh ==
    ASSUME Typed, Fresh, NEW f \in Features, Begin(f) PROVE Fresh'
<1>1. UNCHANGED <<feat, old, cacheFeat>>
  BY DEF Begin, server, cache
<1>2. CASE cacheFeat[f].exists
  <2>1. cur' = f /\ featureOld' = (f \in old) /\ stage' # "exclusion"
    BY <1>2 DEF Begin
  <2> QED
    BY <1>1, <1>2, <2>1 DEF Fresh, CacheCurrent, CopyCurrent, JudgementStored
<1>3. CASE ~ cacheFeat[f].exists
  BY <1>1, <1>3, FreshKept DEF Begin
<1> QED
  BY <1>2, <1>3

LEMMA EnsureFinalizerFresh == ASSUME Typed, Fresh, EnsureFinalizer PROVE Fresh'
<1>1. cur \in Features /\ cur' = cur /\ stage = "finalizer" /\ stage' = "evaluate"
  BY DEF EnsureFinalizer, Typed, Working
<1>2. CacheCurrent'
  BY <1>1, WriteCached DEF EnsureFinalizer, Fresh, cache
<1>3. ~ featureOld' => ~ featureOld /\ feat'[cur] = feat[cur] /\ (cur \in old' => cur \in old)
  BY <1>1, WriteSeen DEF EnsureFinalizer
<1> QED
  BY <1>1, <1>2, <1>3 DEF Fresh, CopyCurrent, JudgementStored

(* The patch of the status changes nothing only if the stored status is    *)
(* the one that was judged.                                                *)
LEMMA UpdateStatusFresh == ASSUME Typed, Fresh, UpdateStatus PROVE Fresh'
<1>1. /\ cur \in Features /\ cur' = cur /\ stage = "status" /\ feature' = feature
      /\ stage' \in {"exclusion", "entry"}
  BY DEF UpdateStatus, Typed, Working, local
<1>2. CacheCurrent'
  BY <1>1, WriteCached DEF UpdateStatus, Fresh, cache
<1>3. ASSUME ~ featureOld'
      PROVE  /\ cur \notin old' /\ feat'[cur].exists
             /\ feature.status = feat'[cur].status
  <2>1. /\ ~ featureOld /\ feat'[cur] = feat[cur] /\ (cur \in old' => cur \in old)
        /\ StatusPatched(cur) = feat[cur]
    BY <1>1, <1>3, WriteSeen DEF UpdateStatus
  <2>2. cur \notin old /\ feat[cur].exists /\ cacheFeat[cur] = feat[cur]
    BY <1>1, <2>1 DEF Fresh, CopyCurrent, CacheCurrent
  <2>3. feat[cur] \in FeatureCopy /\ feat[cur].status \in Status /\ feature.status \in Status
    BY <1>1 DEF Typed, TypeOK, FeatureCopy
  <2>4. feat[cur].status = MergePatched(feat[cur].status, feat[cur].status, feature.status)
    <3>1. StatusPatched(cur) = [feat[cur] EXCEPT !.status =
              MergePatched(@, feat[cur].status, feature.status)]
      BY <2>2 DEF StatusPatched
    <3> HIDE DEF MergePatched
    <3> QED
      BY <2>1, <2>3, <3>1 DEF FeatureCopy
  <2> QED
    BY <2>1, <2>2, <2>3, <2>4, StatusMerges
<1> QED
  BY <1>1, <1>2, <1>3 DEF Fresh, CopyCurrent, JudgementStored

LEMMA FreshStep == ASSUME Typed, Fresh, [Next]_vars PROVE Fresh'
<1> USE DEF server, cache, local
<1>1. ASSUME NEW f \in Features, CreateFeature(f) PROVE Fresh'
  BY <1>1, FeatureWritten DEF CreateFeature
<1>2. ASSUME NEW f \in Features, DeleteFeature(f) PROVE Fresh'
  BY <1>2, FeatureWritten DEF DeleteFeature
<1>3. ASSUME NEW f \in Features, NEW sit \in Situations[f], ChangeSituation(f, sit) PROVE Fresh'
  BY <1>3, FreshKept DEF ChangeSituation
<1>4. ASSUME NEW f \in Features, SyncFeature(f) PROVE Fresh'
  BY <1>4 DEF SyncFeature, Typed, TypeOK, Fresh, CacheCurrent, CopyCurrent, JudgementStored
<1>5. ASSUME NEW f \in Features, Resync(f) PROVE Fresh'
  BY <1>5, FreshKept DEF Resync
<1>6. ASSUME NEW s \in Sets, ToggleSet(s) \/ SyncSet(s) PROVE Fresh'
  BY <1>6, FreshKept DEF ToggleSet, SyncSet
<1>7. ASSUME NEW f \in Features, Begin(f) PROVE Fresh'
  BY <1>7, BeginFresh
<1>8. CASE EnsureFinalizer \/ UpdateStatus
  BY <1>8, EnsureFinalizerFresh, UpdateStatusFresh
<1>9. CASE FinalizerNotFound \/ FinalizerRefused \/ EvaluateStatus \/ JudgeFeature
  BY <1>9, FreshKept DEF FinalizerNotFound, FinalizerRefused, EvaluateStatus, JudgeFeature, Return
<1>10. CASE HandleExclusionGroups
  <2>1. cur \in Features /\ stage' = "entry"
    BY <1>10 DEF HandleExclusionGroups, Typed, Working
  <2>2. CacheCurrent'
    BY <1>10, <2>1, WriteCached DEF HandleExclusionGroups, Fresh
  <2> QED
    BY <2>1, <2>2 DEF Fresh, CopyCurrent, JudgementStored
<1>11. CASE ExclusionError \/ ReadEntry \/ UpdateFeatureSetEntry \/ DeleteEntry
  BY <1>11, FreshKept DEF ExclusionError, ReadEntry, UpdateFeatureSetEntry, DeleteEntry,
                          Continue, Return
<1>12. CASE UpdateDependents \/ DependentsError
              \/ \E g \in Features : SkipDependents(g) \/ ReadDependents(g)
  BY <1>12, FreshKept DEF SkipDependents, ReadDependents, UpdateDependents, DependentsError,
                          Continue, Return
<1>13. CASE RemoveFinalizer
  <2>1. cur \in Features /\ stage' = "idle"
    BY <1>13 DEF RemoveFinalizer, Return, Typed, Working
  <2>2. CacheCurrent'
    BY <1>13, <2>1, WriteCached DEF RemoveFinalizer, Fresh
  <2> QED
    BY <2>1, <2>2 DEF Fresh, CopyCurrent, JudgementStored
<1>14. CASE RemoveFinalizerError
  BY <1>14, FreshKept DEF RemoveFinalizerError, Return
<1>15. CASE EvaluateError \/ ErrorRetried \/ ErrorDropped
  BY <1>15, FreshKept DEF EvaluateError, ErrorRetried, ErrorDropped, Return
<1>16. CASE UNCHANGED vars
  BY <1>16, FreshKept DEF vars
<1> QED
  BY <1>1, <1>2, <1>3, <1>4, <1>5, <1>6, <1>7, <1>8, <1>9, <1>10, <1>11, <1>12, <1>13,
     <1>14, <1>15, <1>16 DEF Next, WorkStep
-----------------------------------------------------------------------------
(* The two controllers together *)

LEMMA FeatureInit == Init => FeatureInv
<1> SUFFICES ASSUME Init PROVE FeatureInv
  OBVIOUS
<1>1. situation \in [Features -> Situation] /\ \A f \in Features : situation[f] \in Situations[f]
  BY FeaturesAssumption DEF Init
<1>2. changes \in 0 .. MaxChanges /\ failures \in 0 .. MaxFailures
  BY BoundsAssumption DEF Init
<1>3. TypeOK
  <2>1. feat \in [Features -> FeatureCopy] /\ DOMAIN fset = Sets
        /\ \A s \in Sets : fset[s] \in SetCopy
    BY StartsAssumption DEF Init
  <2> QED
    BY <1>1, <1>2, <2>1, CopyTypes, SetTypes DEF Init, TypeOK, Stages, ReadCopy
<1> QED
  BY <1>1, <1>3 DEF Init, FeatureInv, Typed, Fresh, Working, CacheCurrent, CopyCurrent,
                    JudgementStored

LEMMA FeatureStep == ASSUME FeatureInv, [Next]_vars PROVE FeatureInv'
<1>1. Fresh'
  BY FreshStep DEF FeatureInv
<1>2. Typed'
  <2>1. CASE UNCHANGED vars
    BY <2>1 DEF FeatureInv, Typed, TypeOK, Working, vars, server, cache, local
  <2> QED
    BY <2>1, EnvironmentTypes, WorkerTypes DEF Next, FeatureInv
<1> QED
  BY <1>1, <1>2 DEF FeatureInv

(* A failing call of the reconciler of the claim. *)
ClaimCallFails ==
    /\ failures < MaxFailures
    /\ failures' = failures + 1
    /\ UNCHANGED <<situation, server, cache, dirty, stage, local, featureOld, changes>>

LEMMA ClaimStepCases == [ClaimNext]_allVars => [Next]_vars \/ ClaimCallFails
<1> SUFFICES ASSUME [ClaimNext]_allVars PROVE [Next]_vars \/ ClaimCallFails
  OBVIOUS
<1>1. CASE ClaimError
  BY <1>1 DEF ClaimError, ClaimCallFails
<1>2. CASE ClaimList \/ ClaimWrite \/ SyncClaim
  BY <1>2 DEF ClaimList, ClaimWrite, SyncClaim
<1>3. CASE UNCHANGED allVars
  BY <1>3 DEF allVars
<1> QED
  BY <1>1, <1>2, <1>3 DEF ClaimNext, Next

LEMMA FeatureInvariant == ClaimSpec => []FeatureInv
<1>1. ClaimInit => FeatureInv
  BY FeatureInit DEF ClaimInit
<1>2. FeatureInv /\ [ClaimNext]_allVars => FeatureInv'
  <2> SUFFICES ASSUME FeatureInv, [ClaimNext]_allVars PROVE FeatureInv'
    OBVIOUS
  <2>1. CASE ClaimCallFails
    <3>1. failures' \in 0 .. MaxFailures
      BY <2>1, BoundsAssumption DEF ClaimCallFails, FeatureInv, Typed, TypeOK
    <3>2. Typed'
      BY <2>1, <3>1 DEF ClaimCallFails, FeatureInv, Typed, TypeOK, Working, server, cache, local
    <3>3. Fresh'
      BY <2>1, FreshKept DEF ClaimCallFails, FeatureInv, server, cache, local
    <3> QED
      BY <3>2, <3>3 DEF FeatureInv
  <2> QED
    BY <2>1, ClaimStepCases, FeatureStep
<1> QED
  BY <1>1, <1>2, PTL DEF ClaimSpec

(* Features, FeatureSets, their cached copies and the worker's have the    *)
(* fields and values the API types allow: merge patches against old copies *)
(* mix two statuses, but never yield what is no status.                    *)
THEOREM FeatureTypes == ClaimSpec => []TypeOK
BY FeatureInvariant, PTL DEF FeatureInv, Typed

(* handleFeatureExclusionGroups never disables a Feature whose stored      *)
(* status says enabled.  The Update needs the resource version that was    *)
(* read; with it, the cache was current when the Feature was read, and the *)
(* patch of the status changed nothing, so what was judged is what is      *)
(* stored.                                                                 *)
THEOREM ExclusionSound == ClaimSpec => NeverDisablesEnabled
<1> DEFINE Sound == \A f \in Features :
              (feat[f].exists /\ ~ feat[f].disabled /\ feat'[f].disabled)
                => feat[f].status.enabled # "true"
<1>1. ASSUME FeatureInv, [ClaimNext]_allVars PROVE [Sound]_vars
  <2> SUFFICES ASSUME NEW f \in Features, feat[f].exists, ~ feat[f].disabled, feat'[f].disabled
               PROVE  feat[f].status.enabled # "true"
    OBVIOUS
  <2>0. TypeOK /\ Working /\ Fresh
    BY <1>1 DEF FeatureInv, Typed
  <2>1. feat'[f] # feat[f]
    OBVIOUS
  <2>2. Next
    BY <1>1, <2>1, ClaimStepCases DEF ClaimCallFails, server, vars
  <2>3. ASSUME NEW g \in Features, CreateFeature(g) PROVE FALSE
    BY <2>0, <2>1, <2>3 DEF CreateFeature, Store, NewFeature, NoFeature, TypeOK
  <2>4. ASSUME NEW g \in Features, DeleteFeature(g) PROVE FALSE
    BY <2>0, <2>4 DEF DeleteFeature, Store, Finalized, NoFeature, TypeOK, FeatureCopy
  <2>5. CASE HandleExclusionGroups
    <3>1. cur = f /\ cur \in Features
      BY <2>0, <2>1, <2>5 DEF HandleExclusionGroups, Store, TypeOK, Working
    <3>2. Disabled(cur, OtherEnabled(cur))
      BY <2>0, <2>5, <3>1 DEF HandleExclusionGroups, Store, TypeOK, FeatureCopy
    <3>3. feature.status = feat[cur].status
      BY <2>0, <2>5 DEF HandleExclusionGroups, UpdateAccepted, Fresh, JudgementStored
    <3> QED
      BY <3>1, <3>2, <3>3 DEF Disabled
  <2>6. CASE UpdateStatus
    BY <2>0, <2>6 DEF UpdateStatus, Store, StatusPatched, TypeOK, FeatureCopy, Working
  <2>7. ASSUME NEW b \in BOOLEAN, stage # "idle", Store(cur, Patched(cur, b)) PROVE FALSE
    <3>1. cur = f /\ cur \in Features
      BY <2>0, <2>1, <2>7 DEF Store, TypeOK, Working
    <3>2. PatchOutcome(f) # "created"
      BY DEF PatchOutcome
    <3>3. Patched(f, b).disabled => feat[f].disabled
      BY <2>0, <3>1, <3>2 DEF Patched, Finalized, NoFeature, TypeOK, FeatureCopy
    <3> QED
      BY <2>0, <2>7, <3>1, <3>3 DEF Store, TypeOK
  <2>8. ~ EnsureFinalizer /\ ~ RemoveFinalizer
    BY <2>7 DEF EnsureFinalizer, RemoveFinalizer
  <2> QED
    BY <2>1, <2>2, <2>3, <2>4, <2>5, <2>6, <2>8
    DEF Next, WorkStep, ChangeSituation, SyncFeature, Resync, Begin, ToggleSet, SyncSet,
        FinalizerNotFound, FinalizerRefused, EvaluateStatus, JudgeFeature, ExclusionError,
        ReadEntry, UpdateFeatureSetEntry, SkipDependents, ReadDependents, UpdateDependents,
        DependentsError, DeleteEntry, RemoveFinalizerError, EvaluateError, ErrorRetried, ErrorDropped, server
<1>2. FeatureInv /\ [ClaimNext]_allVars => [Sound]_vars
  BY <1>1
<1> QED
  BY <1>2, FeatureInvariant, PTL DEF ClaimSpec, NeverDisablesEnabled

-----------------------------------------------------------------------------
(* The ClusterClaim reconciler *)

(* What is about to be written is the summary of the cached Features, or a *)
(* request waits that will summarise them again.                           *)
ClaimKept ==
    /\ ~ spoke => ~ claimQueued /\ data = NoClaim
    /\ ~ claimQueued /\ data # NoClaim => data = {SummaryOf(cacheFeat)}

(* Only a watch event moves the cached Features, and it queues a request.  *)
LEMMA CacheMoves ==
    ASSUME ClaimNext, cacheFeat' # cacheFeat
    PROVE  Queued
<1>1. ASSUME WorkStep PROVE FALSE
  BY <1>1 DEF WorkStep, EnsureFinalizer, FinalizerNotFound, FinalizerRefused, EvaluateStatus,
        JudgeFeature, UpdateStatus, HandleExclusionGroups, ExclusionError, ReadEntry,
        UpdateFeatureSetEntry, SkipDependents, ReadDependents, UpdateDependents, DependentsError, DeleteEntry, RemoveFinalizer, RemoveFinalizerError,
        cache
<1>2. ASSUME EvaluateError \/ ErrorRetried \/ ErrorDropped PROVE FALSE
  BY <1>2 DEF EvaluateError, ErrorRetried, ErrorDropped, cache
<1>3. ASSUME ClaimList \/ ClaimWrite \/ ClaimError \/ SyncClaim PROVE FALSE
  BY <1>3 DEF ClaimList, ClaimWrite, ClaimError, SyncClaim, vars, cache
<1>4. ASSUME NEW s \in Sets, ToggleSet(s) \/ SyncSet(s) PROVE FALSE
  BY <1>4 DEF ToggleSet, SyncSet, cache
<1>5. ASSUME NEW f \in Features, NEW sit,
             CreateFeature(f) \/ DeleteFeature(f) \/ ChangeSituation(f, sit) \/ Begin(f)
      PROVE  FALSE
  BY <1>5 DEF CreateFeature, DeleteFeature, ChangeSituation, Begin, cache
<1> QED
  BY <1>1, <1>2, <1>3, <1>4, <1>5 DEF ClaimNext

LEMMA ClaimKeptStep == ASSUME ClaimKept, [ClaimNext]_allVars PROVE ClaimKept'
<1>1. CASE UNCHANGED allVars
  BY <1>1 DEF ClaimKept, allVars, claimVars, vars, cache, SummaryOf
<1>2. CASE Queued
  BY <1>2 DEF Queued, ClaimKept
<1>3. CASE ClaimNext /\ ~ Queued
  <2>1. cacheFeat' = cacheFeat
    BY <1>3, CacheMoves
  <2>2. SummaryOf(cacheFeat)' = SummaryOf(cacheFeat)
    BY <2>1 DEF SummaryOf
  <2>3. CASE Alone
    BY <2>2, <2>3 DEF Alone, claimVars, ClaimKept
  <2>4. CASE ClaimList
    BY <2>2, <2>4 DEF ClaimList, ClaimKept
  <2>5. CASE ClaimWrite \/ ClaimError
    BY <2>5 DEF ClaimWrite, ClaimError, ClaimKept
  <2>6. CASE SyncClaim
    BY <2>2, <2>6 DEF SyncClaim, ClaimKept
  <2> QED
    BY <1>3, <2>3, <2>4, <2>5, <2>6 DEF ClaimNext
<1> QED
  BY <1>1, <1>2, <1>3

(* The ClusterClaim is written from the Features as the cache has them at  *)
(* the write, although they are listed a step earlier, unless a request    *)
(* waits that will list them again: no event of a Feature that comes while *)
(* Reconcile runs is lost to it.  The write can be void only against an    *)
(* old cached claim.                                                       *)
THEOREM ClaimFollowsCache ==
    ClaimSpec => [][(claim' # claim \/ ClaimWrite) /\ ~ claimQueued =>
                        \/ claim' = {SummaryOf(cacheFeat)}
                        \/ claim' = claim /\ cacheClaim # claim]_allVars
<1>1. ClaimInit => ClaimKept
  BY DEF ClaimInit, ClaimKept
<1>2. ASSUME ClaimKept, [ClaimNext]_allVars, claim' # claim \/ ClaimWrite, ~ claimQueued
      PROVE  claim' = {SummaryOf(cacheFeat)} \/ (claim' = claim /\ cacheClaim # claim)
  <2>1. ClaimWrite
    BY <1>2 DEF ClaimNext, allVars, claimVars, Queued, Alone, ClaimList, ClaimError, SyncClaim
  <2> QED
    BY <1>2, <2>1 DEF ClaimWrite, ClaimPatched, ClaimKept
<1> QED
  BY <1>1, <1>2, ClaimKeptStep, PTL DEF ClaimSpec
=============================================================================
