--------------------------- MODULE ResourcePoller ---------------------------
(***************************************************************************)
(* How ui-server finds the resource types it watches: the poller of        *)
(* PollNewResourceTypes and the consumer of SetupGraphReconciler           *)
(* (pkg/graph/setup.go), two runnables of the manager joined by the        *)
(* bounded resourceChannel, and the ProjectQuota watcher that the poller   *)
(* starts for each new type (pkg/controllers/projectquota).                *)
(***************************************************************************)
EXTENDS Naturals, Sequences, FiniteSets

CONSTANTS
    Types,        \* preferred GVKs a cluster may serve
    Watchable,    \* those that pass the filters: no subresource, with the
                  \* verbs list, get and watch, not in groupSet or gkSet
    ScanType,     \* ImageScanRequest, whose setup starts the scanner as well
    FlagTypes,    \* ConstraintTemplate and ImageScanRequest, which drive
                  \* OPAInstalled and ScannerInstalled
    Registered,   \* types with a resource calculator (api.IsRegistered)
    ChanCap,      \* capacity of resourceChannel, 100 in vars.go
    MaxChanges,   \* bound on changes of what the cluster serves
    MayStop       \* whether the manager's context may be cancelled

None == "none"

ASSUME TypesAssumption ==
    /\ IsFiniteSet(Types)
    /\ None \notin Types
    /\ Watchable \subseteq Types
    /\ FlagTypes \subseteq Watchable
    /\ ScanType \in FlagTypes
    /\ Registered \subseteq Types
ASSUME CapAssumption == ChanCap \in Nat \ {0}
ASSUME ChangesAssumption == MaxChanges \in Nat

VARIABLES
    served,          \* the types the cluster serves
    changes,
    poller,          \* "start", "idle", "loop", "send", "watch", "stopped", "dead"
    listed,          \* what discovery returned in the running poll
    batch,           \* the part of listed not looked at yet
    hand,            \* the new type the poller is sending or watching
    resourceTracker,
    resourceChannel,
    installed,       \* FlagTypes whose flag is TRUE
    regTypes,        \* types ProjectQuota watches
    consumer,        \* "range", "setup", "scanner", "stopped"
    item,            \* the type the consumer is setting up
    controllers,     \* types with a graph controller
    workload,        \* the scanner's WorkloadReconciler is set up
    ctxDone          \* the manager's context is cancelled

pollVars == <<poller, listed, batch, hand, resourceTracker, installed, regTypes>>
consVars == <<consumer, item, controllers, workload>>
envVars  == <<served, changes>>
vars     == <<envVars, pollVars, resourceChannel, consVars, ctxDone>>

TypeOK ==
    /\ served \subseteq Types
    /\ changes \in 0 .. MaxChanges
    /\ poller \in {"start", "idle", "loop", "send", "watch", "stopped", "dead"}
    /\ listed \subseteq Types
    /\ batch \subseteq listed
    /\ hand \in Types \cup {None}
    /\ resourceTracker \subseteq Watchable
    /\ resourceChannel \in Seq(Types)
    /\ Len(resourceChannel) <= ChanCap
    /\ installed \subseteq FlagTypes
    /\ regTypes \subseteq Registered
    /\ consumer \in {"range", "setup", "scanner", "stopped"}
    /\ item \in Types \cup {None}
    /\ controllers \subseteq Types
    /\ workload \in BOOLEAN
    /\ ctxDone \in BOOLEAN

Init ==
    /\ served \in SUBSET Types
    /\ changes = 0
    /\ poller = "start"
    /\ listed = {}
    /\ batch = {}
    /\ hand = None
    /\ resourceTracker = {}
    /\ resourceChannel = <<>>
    /\ installed = {}
    /\ regTypes = {}
    /\ consumer = "range"
    /\ item = None
    /\ controllers = {}
    /\ workload = FALSE
    /\ ctxDone = FALSE

-----------------------------------------------------------------------------
(* The cluster: custom resource definitions come and go. *)
ServeChange(t) ==
    /\ changes < MaxChanges
    /\ changes' = changes + 1
    /\ served' = IF t \in served THEN served \ {t} ELSE served \cup {t}
    /\ UNCHANGED <<pollVars, resourceChannel, consVars, ctxDone>>

Cancel ==
    /\ MayStop
    /\ ~ ctxDone
    /\ ctxDone' = TRUE
    /\ UNCHANGED <<envVars, pollVars, resourceChannel, consVars>>

-----------------------------------------------------------------------------
(* PollUntilContextCancel with immediate: the first poll comes at once,    *)
(* whatever the context, the others only while it is not cancelled.        *)
PollDue == poller = "start" \/ (poller = "idle" /\ ~ ctxDone)

(* Variants of the steps below, each with a slip this code invites.        *)
TakeUntracked(t) ==     \* the type is sent but not tracked
    /\ poller = "loop"
    /\ t \in batch
    /\ batch' = batch \ {t}
    /\ \/ /\ t \in Watchable \ resourceTracker
          /\ hand' = t
          /\ poller' = "send"
       \/ /\ t \notin Watchable \ resourceTracker
          /\ UNCHANGED <<hand, poller>>
    /\ UNCHANGED <<resourceTracker, envVars, listed, installed, regTypes,
                   resourceChannel, consVars, ctxDone>>

TakeUnfiltered(t) ==    \* the verbs and group filters are missing
    /\ poller = "loop"
    /\ t \in batch
    /\ batch' = batch \ {t}
    /\ \/ /\ t \notin resourceTracker
          /\ resourceTracker' = resourceTracker \cup {t}
          /\ hand' = t
          /\ poller' = "send"
       \/ /\ t \in resourceTracker
          /\ UNCHANGED <<resourceTracker, hand, poller>>
    /\ UNCHANGED <<envVars, listed, installed, regTypes,
                   resourceChannel, consVars, ctxDone>>

SendOrDrop ==           \* a select with a default case instead of a send
    /\ poller = "send"
    /\ resourceChannel' = IF Len(resourceChannel) < ChanCap
                          THEN Append(resourceChannel, hand) ELSE resourceChannel
    /\ poller' = "watch"
    /\ UNCHANGED <<envVars, listed, batch, hand, resourceTracker, installed,
                   regTypes, consVars, ctxDone>>

StartWatcherOnce ==     \* regTypes kept as one flag for all types
    /\ poller = "watch"
    /\ poller' = "loop"
    /\ hand' = None
    /\ regTypes' = IF hand \in Registered /\ regTypes = {} THEN {hand} ELSE regTypes
    /\ UNCHANGED <<envVars, listed, batch, resourceTracker, installed,
                   resourceChannel, consVars, ctxDone>>

DiscoverFlagsFirst(S) ==    \* the flags are stored before the types are tracked
    /\ PollDue
    /\ S \subseteq served
    /\ poller' = "loop"
    /\ listed' = S
    /\ batch' = S
    /\ installed' = S \cap FlagTypes
    /\ UNCHANGED <<envVars, hand, resourceTracker, regTypes,
                   resourceChannel, consVars, ctxDone>>

-----------------------------------------------------------------------------
(* PollNewResourceTypes.  ServerPreferredResources returns what is served, *)
(* or a part of it when the discovery of some groups failed.               *)
Discover(S) ==
    /\ PollDue
    /\ S \subseteq served
    /\ poller' = "loop"
    /\ listed' = S
    /\ batch' = S
    /\ UNCHANGED <<envVars, hand, resourceTracker, installed, regTypes,
                   resourceChannel, consVars, ctxDone>>

(* Any other discovery error is logged; the next poll is due in a minute.  *)
DiscoverError ==
    /\ PollDue
    /\ poller' = "idle"
    /\ UNCHANGED <<envVars, listed, batch, hand, resourceTracker, installed,
                   regTypes, resourceChannel, consVars, ctxDone>>

(* One resource of the list: skipped by a filter, known, or new. *)
Take(t) ==
    /\ poller = "loop"
    /\ t \in batch
    /\ batch' = batch \ {t}
    /\ \/ /\ t \in Watchable \ resourceTracker
          /\ resourceTracker' = resourceTracker \cup {t}
          /\ hand' = t
          /\ poller' = "send"
       \/ /\ t \notin Watchable \ resourceTracker
          /\ UNCHANGED <<resourceTracker, hand, poller>>
    /\ UNCHANGED <<envVars, listed, installed, regTypes,
                   resourceChannel, consVars, ctxDone>>

(* The send blocks while the channel is full and does not watch ctx. *)
Send ==
    /\ poller = "send"
    /\ Len(resourceChannel) < ChanCap
    /\ resourceChannel' = Append(resourceChannel, hand)
    /\ poller' = "watch"
    /\ UNCHANGED <<envVars, listed, batch, hand, resourceTracker, installed,
                   regTypes, consVars, ctxDone>>

(* pqr.StartWatcher. *)
StartWatcher ==
    /\ poller = "watch"
    /\ poller' = "loop"
    /\ hand' = None
    /\ regTypes' = IF hand \in Registered THEN regTypes \cup {hand} ELSE regTypes
    /\ UNCHANGED <<envVars, listed, batch, resourceTracker, installed,
                   resourceChannel, consVars, ctxDone>>

(* ctrl.Watch fails: klog.Fatalln ends the process. *)
StartWatcherFatal ==
    /\ MayStop
    /\ poller = "watch"
    /\ hand \in Registered \ regTypes
    /\ poller' = "dead"
    /\ consumer' = "stopped"
    /\ ctxDone' = TRUE
    /\ UNCHANGED <<envVars, listed, batch, hand, resourceTracker, installed,
                   regTypes, resourceChannel, item, controllers, workload>>

(* The end of a poll stores both flags. *)
EndPoll ==
    /\ poller = "loop"
    /\ batch = {}
    /\ poller' = "idle"
    /\ installed' = listed \cap FlagTypes
    /\ listed' = {}
    /\ UNCHANGED <<envVars, batch, hand, resourceTracker, regTypes,
                   resourceChannel, consVars, ctxDone>>

(* PollUntilContextCancel sees the cancelled context between two polls and *)
(* returns its error, so that close(resourceChannel) is not reached.       *)
StopPolling ==
    /\ poller = "idle"
    /\ ctxDone
    /\ poller' = "stopped"
    /\ UNCHANGED <<envVars, listed, batch, hand, resourceTracker, installed,
                   regTypes, resourceChannel, consVars, ctxDone>>

-----------------------------------------------------------------------------
(* SetupGraphReconciler, which ranges over the channel. *)
Receive ==
    /\ consumer = "range"
    /\ resourceChannel # <<>>
    /\ item' = Head(resourceChannel)
    /\ resourceChannel' = Tail(resourceChannel)
    /\ consumer' = "setup"
    /\ UNCHANGED <<envVars, pollVars, controllers, workload, ctxDone>>

(* SetupWithManager; a second controller of the same name is refused. *)
SetupController ==
    /\ consumer = "setup"
    /\ item \notin controllers
    /\ controllers' = controllers \cup {item}
    /\ \/ item = ScanType /\ consumer' = "scanner" /\ UNCHANGED item
       \/ item # ScanType /\ consumer' = "range" /\ item' = None
    /\ UNCHANGED <<envVars, pollVars, resourceChannel, workload, ctxDone>>

SetupScanner ==
    /\ consumer = "scanner"
    /\ workload' = TRUE
    /\ consumer' = "range"
    /\ item' = None
    /\ UNCHANGED <<envVars, pollVars, resourceChannel, controllers, ctxDone>>

(* An error ends the runnable, and with it the manager's context. *)
SetupError ==
    /\ consumer \in {"setup", "scanner"}
    /\ MayStop \/ (consumer = "setup" /\ item \in controllers)
    /\ consumer' = "stopped"
    /\ ctxDone' = TRUE
    /\ UNCHANGED <<envVars, pollVars, resourceChannel, item, controllers, workload>>

Poll ==
    \/ \E t \in Types : Take(t)
    \/ Send \/ StartWatcher \/ EndPoll \/ StopPolling

Consume == Receive \/ SetupController \/ SetupScanner

Next ==
    \/ \E t \in Types : ServeChange(t)
    \/ Cancel
    \/ \E S \in SUBSET Types : Discover(S)
    \/ DiscoverError \/ Poll \/ Consume
    \/ StartWatcherFatal \/ SetupError

Spec == Init /\ [][Next]_vars

(* Both goroutines run; the poll recurs every minute and, again and again, *)
(* the discovery of every group succeeds.                                  *)
Fairness ==
    /\ WF_vars(Poll)
    /\ WF_vars(Consume)
    /\ SF_vars(Discover(served))

FairSpec == Spec /\ Fairness

-----------------------------------------------------------------------------
InChannel == {resourceChannel[i] : i \in 1 .. Len(resourceChannel)}
BeingSent == IF poller = "send" THEN {hand} ELSE {}
BeingSetUp == IF item = None \/ consumer = "scanner" THEN {} ELSE {item} \ controllers

(* Poller and consumer hand each type over exactly once: a tracked type is *)
(* in the poller's hand, in the channel, in the consumer's hand or has its *)
(* controller, and never in two of these places.  Sent twice, it would     *)
(* fail the second SetupWithManager and stop the manager; in none, its     *)
(* objects would never be watched, because the tracker hides it from every *)
(* later poll.                                                             *)
HandedOverOnce ==
    /\ resourceTracker = BeingSent \cup InChannel \cup BeingSetUp \cup controllers
    /\ Cardinality(resourceTracker) =
         Cardinality(BeingSent) + Len(resourceChannel)
         + Cardinality(BeingSetUp) + Cardinality(controllers)

(* The metrics collector asks for scanner and policy reports as soon as    *)
(* the flags are set: a flag is never ahead of the tracking of its type.   *)
FlagImpliesTracked == installed \subseteq resourceTracker

(* A type with a calculator is watched for ProjectQuotas, except while it  *)
(* is still in the poller's hand.                                          *)
QuotaWatchFollows == (resourceTracker \cap Registered) \ {hand} \subseteq regTypes

(* A watchable type that stays served gets its controller, however many    *)
(* types arrive at once and however small the channel, as long as the      *)
(* manager runs.                                                           *)
TypesGetControllers ==
    [](~ ctxDone) =>
        \A t \in Watchable : <>[](t \in served) => <>(t \in controllers)

(* Runnables of the manager stop when their context is cancelled. *)
CancelStopsRunnables ==
    ctxDone ~> (poller \in {"stopped", "dead"} /\ consumer = "stopped")
=============================================================================
