---------------------------- MODULE ClusterClaim ----------------------------
(***************************************************************************)
(* The ClusterClaimReconciler beside the Feature controller: every event   *)
(* of a Feature makes it summarise all Features in one ClusterClaim, from  *)
(* the same lagging cache, and write that with a patch of the difference   *)
(* to the cached claim.  The key of a request is not looked at, so its     *)
(* queue is whether there is one.                                          *)
(***************************************************************************)
EXTENDS FeatureController

CONSTANTS
    Spokes,          \* whether the cluster may be a managed spoke
    MaxSpokeEvents   \* bound on changes and failures where the reconciler runs

ASSUME SpokeAssumption == Spokes \subseteq BOOLEAN /\ MaxSpokeEvents \in Nat

VARIABLES
    spoke,         \* the cluster is a managed spoke: the reconciler runs
    claim,         \* the ClusterClaim on the API server: {its value} or NoClaim
    cacheClaim,    \* its copy in the cache
    claimQueued,   \* a request waits in the reconciler's queue
    data           \* the summary Reconcile is about to write, or NoClaim

claimVars == <<spoke, claim, cacheClaim, claimQueued, data>>
allVars == <<vars, claimVars>>

NoClaim == {}

ClaimInit ==
    /\ Init
    /\ claim = NoClaim /\ cacheClaim = NoClaim /\ data = NoClaim
    /\ spoke \in Spokes
    /\ claimQueued = spoke

(* What a list of Features is summarised to. *)
SummaryOf(list) ==
    LET existing == {f \in Features : list[f].exists}
        enabled == {f \in existing : list[f].status.enabled = "true"}
    IN  [enabled  |-> enabled,
         external |-> {f \in enabled : list[f].status.managed # "true"},
         disabled |-> {f \in existing : list[f].disabled}]

Unreconciled(list) == \E f \in Features : list[f].exists /\ list[f].status.enabled = "nil"

(* A slip this code invites: an existing claim is left alone. *)
ClaimCreated(value) == IF claim = NoClaim THEN value ELSE claim

(* CreateOrPatch: a value the cache shows already is not sent. *)
ClaimPatched(value) == IF cacheClaim = value THEN claim ELSE value

ClaimAccepted == (cacheClaim = NoClaim) <=> (claim = NoClaim)

(* List, and the error for a Feature that is not reconciled yet, which     *)
(* leaves the request in the queue.                                        *)
ClaimList ==
    /\ claimQueued
    /\ data = NoClaim
    /\ ~ Unreconciled(cacheFeat)
    /\ data' = {SummaryOf(cacheFeat)}
    /\ claimQueued' = FALSE
    /\ UNCHANGED <<vars, spoke, claim, cacheClaim>>

ClaimWrite ==
    /\ data # NoClaim
    /\ ClaimAccepted
    /\ claim' = ClaimPatched(data)
    /\ data' = NoClaim
    /\ UNCHANGED <<vars, spoke, cacheClaim, claimQueued>>

(* The claim exists although the cache does not show it, or a call fails.  *)
ClaimError ==
    /\ data # NoClaim
    /\ \/ ~ ClaimAccepted /\ UNCHANGED vars
       \/ /\ failures < MaxFailures
          /\ failures' = failures + 1
          /\ UNCHANGED <<situation, server, cache, dirty, stage, local, featureOld, changes>>
    /\ data' = NoClaim
    /\ claimQueued' = TRUE
    /\ UNCHANGED <<spoke, claim, cacheClaim>>

SyncClaim ==
    /\ cacheClaim # claim
    /\ cacheClaim' = claim
    /\ UNCHANGED <<vars, spoke, claim, claimQueued, data>>

ClaimStep == ClaimList \/ ClaimWrite \/ ClaimError

Bounded == spoke => changes' + failures' <= MaxSpokeEvents

(* A step of the Feature controller or of its environment: an event of a   *)
(* Feature goes to both controllers, all else does not concern the claim.  *)
Queued == claimQueued' = spoke /\ Bounded /\ UNCHANGED <<spoke, claim, cacheClaim, data>>
Alone  == Bounded /\ UNCHANGED claimVars

ClaimNext ==
    \/ \E f \in Features :
        \/ SyncFeature(f) /\ Queued
        \/ Resync(f) /\ Queued
        \/ CreateFeature(f) /\ Alone
        \/ DeleteFeature(f) /\ Alone
        \/ \E sit \in Situations[f] : ChangeSituation(f, sit) /\ Alone
        \/ Begin(f) /\ Alone
    \/ \E s \in Sets : ToggleSet(s) /\ Alone
    \/ \E s \in Sets : SyncSet(s) /\ Alone
    \/ WorkStep /\ Alone
    \/ EvaluateError /\ Alone
    \/ ErrorRetried /\ Alone
    \/ ErrorDropped /\ Alone
    \/ ClaimList \/ ClaimWrite
    \/ ClaimError /\ Bounded
    \/ SyncClaim

ClaimSpec == ClaimInit /\ [][ClaimNext]_allVars

(* As in FeatureController; the reconciler of the claim runs as well, and  *)
(* its cache catches up.                                                   *)
ClaimFairness ==
    /\ WF_vars(WorkStep)
    /\ \A f \in Features :
        SF_vars(Begin(f)) /\ WF_vars(SyncFeature(f)) /\ WF_allVars(Resync(f) /\ Queued)
    /\ \A s \in Sets : WF_vars(SyncSet(s))
    /\ WF_claimVars(ClaimStep)
    /\ WF_claimVars(SyncClaim)

FairClaimSpec == ClaimSpec /\ ClaimFairness

-----------------------------------------------------------------------------
(* In the end the claim tells the hub what the Features say, although it   *)
(* is not written while one Feature has no status, is summarised from an   *)
(* old list, and a patch against an old cached claim may change nothing.   *)
ClaimConverges ==
    <>[](spoke /\ (\E f \in Features : feat[f].exists) /\ ~ Unreconciled(feat)
            => claim = {SummaryOf(feat)})
=============================================================================
