-------------------------- MODULE GraphReconciler --------------------------
(***************************************************************************)
(* The graph reconcilers of pkg/graph/reconciler.go: one controller per    *)
(* resource kind, each with one worker, all writing the shared object      *)
(* graph.  A reconcile is not atomic: it reads the object, then lists one  *)
(* connection after the other with further API calls, and only then        *)
(* updates the graph, while the cluster changes and the other kinds'       *)
(* workers run.                                                            *)
(*                                                                         *)
(* External, from controller-runtime: the work queue keeps a key at most   *)
(* once, hands it to one worker at a time and keeps a key added while it   *)
(* is being processed; a watch event or a resync adds the key of the       *)
(* changed object only, never of an object that refers to it.  Get and     *)
(* List of unstructured objects read the API server, not a cache.          *)
(***************************************************************************)
EXTENDS Naturals, FiniteSets

CONSTANTS
    OIDs, Labels, Linkable,   \* as in ObjectGraph
    GK,            \* GK[x]: the kind of x
    Described,     \* kinds with a resource descriptor
    ServiceKind,   \* the kind of gvkService
    ExposedBy,     \* the label EdgeLabelExposedBy
    MaxChanges,    \* bound on changes of the cluster
    MaxFailures    \* bound on failing API calls

ASSUME LinksAssumption == Linkable \subseteq OIDs \X Labels \X OIDs
ASSUME GKAssumption == DOMAIN GK = OIDs
ASSUME BoundAssumption == MaxChanges \in Nat /\ MaxFailures \in Nat
ASSUME DescribedAssumption ==
    \A e \in Linkable : GK[e[1]] \in Described

VARIABLES
    exists,    \* the objects in the cluster
    refs,      \* refs[x]: what the connections of x's content select
    Edges, IDs,        \* the object graph
    dirty,     \* keys waiting in the work queues
    delayed,   \* keys to be added again after RequeueAfter or backoff
    stage,     \* stage[x]: how far the reconcile of x has come
    seen,      \* seen[x]: the content of x that Get returned
    todo,      \* todo[x]: the connections ListConnectedObjectIDs has left
    found,     \* found[x]: the object ids resolved so far
    failed,    \* failed[x]: the errors collected, "discovery" or "other"
    changes, failures

cluster == <<exists, refs, changes>>
queues  == <<dirty, delayed>>
work    == <<stage, seen, todo, found, failed>>
vars    == <<cluster, Edges, IDs, queues, work, failures>>

Graph == INSTANCE ObjectGraph

TypeOK ==
    /\ exists \subseteq OIDs
    /\ refs \in [OIDs -> [Labels -> SUBSET OIDs]]
    /\ Graph!TypeOK
    /\ dirty \subseteq OIDs
    /\ delayed \subseteq OIDs
    /\ stage \in [OIDs -> {"idle", "get", "gone", "list"}]
    /\ seen \in [OIDs -> [Labels -> SUBSET OIDs]]
    /\ todo \in [OIDs -> SUBSET Labels]
    /\ found \in [OIDs -> [Labels -> SUBSET OIDs]]
    /\ failed \in [OIDs -> SUBSET {"discovery", "other"}]
    /\ changes \in 0 .. MaxChanges
    /\ failures \in 0 .. MaxFailures

Init ==
    /\ exists = {}
    /\ refs = [x \in OIDs |-> Graph!NoConns]
    /\ Graph!Init
    /\ dirty = {}
    /\ delayed = {}
    /\ stage = [x \in OIDs |-> "idle"]
    /\ seen = [x \in OIDs |-> Graph!NoConns]
    /\ todo = [x \in OIDs |-> {}]
    /\ found = [x \in OIDs |-> Graph!NoConns]
    /\ failed = [x \in OIDs |-> {}]
    /\ changes = 0
    /\ failures = 0

-----------------------------------------------------------------------------
(* The cluster and the work queues. *)

(* An object is created, or its content changes: an event for x. *)
Write(x) ==
    /\ changes < MaxChanges
    /\ changes' = changes + 1
    /\ exists' = exists \cup {x}
    /\ \E conns \in Graph!Conns(x) : refs' = [refs EXCEPT ![x] = conns]
    /\ dirty' = dirty \cup {x}
    /\ UNCHANGED <<Edges, IDs, delayed, work, failures>>

Remove(x) ==
    /\ x \in exists
    /\ changes < MaxChanges
    /\ changes' = changes + 1
    /\ exists' = exists \ {x}
    /\ refs' = [refs EXCEPT ![x] = Graph!NoConns]
    /\ dirty' = dirty \cup {x}
    /\ UNCHANGED <<Edges, IDs, delayed, work, failures>>

(* The informers' resync, SyncPeriod in apiserver/apiserver.go: every object*)
(* that still exists is queued again.                                      *)
Resync(x) ==
    /\ x \in exists
    /\ dirty' = dirty \cup {x}
    /\ UNCHANGED <<cluster, Edges, IDs, delayed, work, failures>>

Requeue(x) ==
    /\ x \in delayed
    /\ delayed' = delayed \ {x}
    /\ dirty' = dirty \cup {x}
    /\ UNCHANGED <<cluster, Edges, IDs, work, failures>>

(* The one worker of the controller of x's kind takes x. *)
Begin(x) ==
    /\ x \in dirty
    /\ \A y \in OIDs : GK[y] = GK[x] => stage[y] = "idle"
    /\ dirty' = dirty \ {x}
    /\ stage' = [stage EXCEPT ![x] = "get"]
    /\ UNCHANGED <<cluster, Edges, IDs, delayed, seen, todo, found, failed, failures>>

-----------------------------------------------------------------------------
(* Reconcile. *)

(* Reconcile returns: its local variables are gone. *)
Return(x) ==
    /\ stage' = [stage EXCEPT ![x] = "idle"]
    /\ seen' = [seen EXCEPT ![x] = Graph!NoConns]
    /\ todo' = [todo EXCEPT ![x] = {}]
    /\ found' = [found EXCEPT ![x] = Graph!NoConns]
    /\ failed' = [failed EXCEPT ![x] = {}]

(* Variants of the steps below, each with a slip this code invites.        *)
GetErrorIgnored(x) ==       \* every Get error passed to IgnoreNotFound is dropped
    /\ stage[x] = "get"
    /\ failures < MaxFailures
    /\ failures' = failures + 1
    /\ Return(x)
    /\ UNCHANGED <<cluster, Edges, IDs, dirty, delayed>>

ForgetNothing(x) ==         \* IgnoreNotFound before objGraph.Delete
    /\ stage[x] = "gone"
    /\ Return(x)
    /\ UNCHANGED <<cluster, Edges, IDs, queues, failures>>

ForgetIDsOnly(x) ==         \* only the declaration of x is dropped
    /\ stage[x] = "gone"
    /\ IDs' = [IDs EXCEPT ![x] = Graph!NoConns]
    /\ Return(x)
    /\ UNCHANGED <<cluster, Edges, queues, failures>>

NothingExposedAnyKind(x) == \* the early return of a Service for every kind
    \A lbl \in Labels : found[x][lbl] = {}

ResolveFreshMap(x, lbl) ==  \* the map of edges is made anew per connection
    /\ stage[x] = "list"
    /\ lbl \in todo[x]
    /\ todo' = [todo EXCEPT ![x] = @ \ {lbl}]
    /\ found' = [found EXCEPT ![x] = [l \in {lbl} |-> seen[x][lbl] \cap exists]]
    /\ UNCHANGED <<cluster, Edges, IDs, queues, stage, seen, failed, failures>>

-----------------------------------------------------------------------------
(* The labels of the connections in the descriptor of x's kind. *)
ConnectionsOf(x) == {lbl \in Labels : \E to \in OIDs : <<x, lbl, to>> \in Linkable}

(* r.Get returns the object; without a descriptor there is nothing to do.  *)
GetFound(x) ==
    /\ stage[x] = "get"
    /\ x \in exists
    /\ \/ /\ GK[x] \in Described
          /\ stage' = [stage EXCEPT ![x] = "list"]
          /\ seen' = [seen EXCEPT ![x] = refs[x]]
          /\ todo' = [todo EXCEPT ![x] = ConnectionsOf(x)]
          /\ UNCHANGED <<found, failed>>
       \/ /\ GK[x] \notin Described
          /\ Return(x)
    /\ UNCHANGED <<cluster, Edges, IDs, queues, failures>>

GetNotFound(x) ==
    /\ stage[x] = "get"
    /\ x \notin exists
    /\ stage' = [stage EXCEPT ![x] = "gone"]
    /\ UNCHANGED <<cluster, Edges, IDs, queues, seen, todo, found, failed, failures>>

(* Any other error is returned: the key comes back with backoff. *)
GetError(x) ==
    /\ stage[x] = "get"
    /\ failures < MaxFailures
    /\ failures' = failures + 1
    /\ delayed' = delayed \cup {x}
    /\ Return(x)
    /\ UNCHANGED <<cluster, Edges, IDs, dirty>>

(* objGraph.Delete, some time after the API server said NotFound. *)
Forget(x) ==
    /\ stage[x] = "gone"
    /\ Graph!Delete(x)
    /\ Return(x)
    /\ UNCHANGED <<cluster, queues, failures>>

(* One iteration of ListConnectedObjectIDs: one connection is resolved     *)
(* against the objects that exist now.                                     *)
Resolve(x, lbl) ==
    /\ stage[x] = "list"
    /\ lbl \in todo[x]
    /\ todo' = [todo EXCEPT ![x] = @ \ {lbl}]
    /\ found' = [found EXCEPT ![x][lbl] = seen[x][lbl] \cap exists]
    /\ UNCHANGED <<cluster, Edges, IDs, queues, stage, seen, failed, failures>>

ResolveError(x, lbl, err) ==
    /\ stage[x] = "list"
    /\ lbl \in todo[x]
    /\ failures < MaxFailures
    /\ failures' = failures + 1
    /\ todo' = [todo EXCEPT ![x] = @ \ {lbl}]
    /\ failed' = [failed EXCEPT ![x] = @ \cup {err}]
    /\ UNCHANGED <<cluster, Edges, IDs, queues, stage, seen, found>>

Listed(x) == stage[x] = "list" /\ todo[x] = {}

NothingExposed(x) == GK[x] = ServiceKind /\ found[x][ExposedBy] = {}

(* A discovery error keeps the graph as it is and retries in 500ms. *)
KeepGraph(x) ==
    /\ Listed(x)
    /\ "discovery" \in failed[x]
    /\ delayed' = delayed \cup {x}
    /\ Return(x)
    /\ UNCHANGED <<cluster, Edges, IDs, dirty, failures>>

(* A Service that exposes nothing is looked at again in two minutes. *)
AwaitBackends(x) ==
    /\ Listed(x)
    /\ "discovery" \notin failed[x]
    /\ NothingExposed(x)
    /\ delayed' = delayed \cup {x}
    /\ Return(x)
    /\ UNCHANGED <<cluster, Edges, IDs, dirty, failures>>

(* objGraph.Update; an error of another kind is returned afterwards. *)
Persist(x) ==
    /\ Listed(x)
    /\ "discovery" \notin failed[x]
    /\ ~ NothingExposed(x)
    /\ Graph!Update(x, found[x])
    /\ delayed' = IF failed[x] = {} THEN delayed ELSE delayed \cup {x}
    /\ Return(x)
    /\ UNCHANGED <<cluster, dirty, failures>>

WorkStep(x) ==
    \/ GetFound(x) \/ GetNotFound(x) \/ Forget(x)
    \/ \E lbl \in Labels : Resolve(x, lbl)
    \/ KeepGraph(x) \/ AwaitBackends(x) \/ Persist(x)

Fault(x) ==
    \/ GetError(x)
    \/ \E lbl \in Labels, err \in {"discovery", "other"} : ResolveError(x, lbl, err)

Next ==
    \E x \in OIDs :
        \/ Write(x) \/ Remove(x) \/ Resync(x) \/ Requeue(x)
        \/ Begin(x) \/ WorkStep(x) \/ Fault(x)

Spec == Init /\ [][Next]_vars

(* A worker that has a key runs to the end, a waiting key is taken (the    *)
(* queue is first-in-first-out, hence strong fairness for the shared       *)
(* worker), delayed keys come back, and the resync recurs.                 *)
Fairness ==
    \A x \in OIDs :
        /\ SF_vars(Begin(x))
        /\ WF_vars(WorkStep(x))
        /\ WF_vars(Requeue(x))
        /\ WF_vars(Resync(x))

FairSpec == Spec /\ Fairness

-----------------------------------------------------------------------------
Pending(x) == x \in dirty \cup delayed \/ stage[x] # "idle"

OwnedBy(x) == {e \in Graph!OwnedLinks : e[1] = x}

(* Resync skips objects that are gone, so an object deleted while it was   *)
(* being reconciled must never be left in the graph with nothing queued:   *)
(* as long as a deleted object has a declaration or links of its own, its  *)
(* key is waiting or being processed.                                      *)
DeletedIsPending ==
    \A x \in OIDs \ exists :
        (IDs[x] # Graph!NoConns \/ OwnedBy(x) # {}) => Pending(x)

(* No update of an object is lost to a reconcile that read the object      *)
(* before: once its key is settled, everything it declares in the graph is *)
(* in its current content.  Services are out: see PersistsWhatResolved.    *)
SettledIsCurrent ==
    \A x \in exists :
        (~ Pending(x) /\ GK[x] # ServiceKind) =>
            \A lbl \in Labels : IDs[x][lbl] \subseteq refs[x][lbl]

(* Through all interleavings the graph is changed by nothing but Update    *)
(* and Delete with conforming declarations, so that what ObjectGraph       *)
(* guarantees holds here.                                                  *)
UsesObjectGraph == Graph!Spec

(* So a reader of the graph sees, at every moment and whatever the workers *)
(* are doing, a plain set of links, each as its object last declared it.   *)
ImplementsLinkTable == Graph!ImplementsLinkTable

Target(x) == [lbl \in Labels |-> refs[x][lbl] \cap exists]

Exempt(x) == GK[x] = ServiceKind /\ Target(x)[ExposedBy] = {}

(* When the cluster stops changing, the graph becomes and stays what a     *)
(* fresh listing would give, although links are read while their targets   *)
(* come and go and no event tells a source about its targets.  Services    *)
(* without a backend are exempt: their links are never refreshed.          *)
Converges ==
    <>[](\A x \in OIDs : ~ Exempt(x) =>
            OwnedBy(x) = {e \in Linkable : e[1] = x /\ e[3] \in Target(x)[e[2]]})

(* "Persist whatever resolved, even if some connections failed": the end   *)
(* of a reconcile that met no discovery error leaves in the graph exactly  *)
(* what it resolved.                                                       *)
PersistsWhatResolved ==
    [][\A x \in OIDs :
        (Listed(x) /\ "discovery" \notin failed[x] /\ stage'[x] = "idle")
            => IDs'[x] = found[x]]_vars
=============================================================================
