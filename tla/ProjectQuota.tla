---------------------------- MODULE ProjectQuota ----------------------------
(***************************************************************************)
(* The ProjectQuota controller of pkg/controllers/projectquota: it adds up *)
(* what the objects of a project's namespaces use and writes the sums into *)
(* the status of the ProjectQuota.  Every List of UsedQuota is a step, so  *)
(* the cluster may change between two of them.  A resource list is the     *)
(* amount of one resource; reasons are left out.                           *)
(*                                                                         *)
(* External: API server, cache and work queue.  The cached ProjectQuota    *)
(* lags behind the server; the other reads come from caches whose events   *)
(* follow their updates, so a late update is a late change.                *)
(***************************************************************************)
EXTENDS Naturals, Sequences, SequencesExt, FiniteSetsExt

CONSTANTS
    Types,          \* group-kinds the API server serves
    GroupOf,        \* GroupOf[t]: the API group of t
    Namespaced,     \* the namespaced ones
    Calculable,     \* those with a served version that api.IsRegistered
    Watched,        \* those whose preferred version is: StartWatcher watches it
    Namespaces,
    OwnNamespaces,  \* the namespace with the name of the project, if any
    Specs,          \* the Spec.Quotas a user may write
    InUse,          \* the sets of types that may have objects at the start
    MaxUsage, MaxChanges, MaxFailures     \* bounds

None == "none"
AnyKind == ""       \* a quota without a Kind is about its whole group
Groups == {GroupOf[t] : t \in Types}
Keys == [group : Groups \cup {"unserved"},
         kind : Types \cup {AnyKind, "unserved"}]

ASSUME TypesAssumption ==
    /\ DOMAIN GroupOf = Types
    /\ Namespaced \subseteq Types
    /\ Watched \subseteq Calculable \cap Namespaced
    /\ Calculable \subseteq Types
    /\ InUse \subseteq SUBSET Types
ASSUME SpecsAssumption ==
    OwnNamespaces \subseteq Namespaces /\ Specs \subseteq Seq(Keys) \ {<<>>}
ASSUME NamesAssumption == AnyKind \notin Types /\ None \notin Namespaces
ASSUME FiniteAssumption == IsFiniteSet(Types) /\ IsFiniteSet(Namespaces)
ASSUME BoundsAssumption == MaxUsage \in Nat /\ MaxChanges \in Nat /\ MaxFailures \in Nat

VARIABLES
    usage,       \* usage[n][t]: what the objects of type t in n use
    labelled,    \* namespaces with Rancher's project label
    pq,          \* the ProjectQuota on the API server
    cached,      \* its copy in the manager's cache
    dirty,       \* the key is queued
    pc,          \* "idle", "calculate" or "patch"
    quotas,      \* pj.Status.Quotas, under construction
    apiTypes,    \* what ListKinds returned
    nsLeft, ns,  \* namespaces to come, and the one in hand
    index,       \* the quota in hand
    seen,        \* its types that have been added up
    nsUsed,      \* the results kept for this namespace
    changes, failures

cluster == <<usage, labelled>>
locals  == <<quotas, apiTypes, nsLeft, ns, index, seen, nsUsed>>
vars    == <<cluster, pq, cached, dirty, pc, locals, changes, failures>>

Absent == [spec |-> <<>>, status |-> <<>>]
New(q) == [key |-> q, result |-> "Success", used |-> 0]
Total == MaxUsage * Cardinality(Types) * Cardinality(Namespaces)
Result == [result : {"Success", "Error"}, used : 0 .. Total]
QuotaStatus == [key : Keys, result : {"Success", "Error"}, used : 0 .. Total]
Empty == [k \in {} |-> 0]

TypeOK ==
    /\ usage \in [Namespaces -> [Types -> 0 .. MaxUsage]]
    /\ labelled \subseteq Namespaces
    /\ {pq, cached} \subseteq {Absent} \cup [spec : Specs, status : Seq(QuotaStatus)]
    /\ dirty \in BOOLEAN
    /\ pc \in {"idle", "calculate", "patch"}
    /\ quotas \in Seq(QuotaStatus)
    /\ apiTypes \subseteq Types
    /\ nsLeft \subseteq Namespaces
    /\ ns \in Namespaces \cup {None}
    /\ index \in 0 .. Len(quotas)
    /\ seen \subseteq Types
    /\ DOMAIN nsUsed \subseteq Keys
    /\ \A k \in DOMAIN nsUsed : nsUsed[k] \in Result
    /\ changes \in 0 .. MaxChanges
    /\ failures \in 0 .. MaxFailures

Init ==
    /\ \E inUse \in InUse :
        usage = [n \in Namespaces |-> [t \in Types |-> IF t \in inUse THEN MaxUsage ELSE 0]]
    /\ labelled \in SUBSET Namespaces
    /\ \E spec \in Specs : pq = [spec |-> spec, status |-> <<>>]
    /\ cached = pq
    /\ dirty = TRUE
    /\ pc = "idle"
    /\ quotas = <<>>
    /\ apiTypes = {}
    /\ nsLeft = {}
    /\ ns = None
    /\ index = 0
    /\ seen = {}
    /\ nsUsed = Empty
    /\ changes = 0
    /\ failures = 0

-----------------------------------------------------------------------------
(* Users, other controllers and the cache. *)
Change ==
    /\ changes < MaxChanges
    /\ changes' = changes + 1

Failure ==
    /\ failures < MaxFailures
    /\ failures' = failures + 1

(* ProjectQuotaForObjects: the event of a watched object queues the quota  *)
(* of its project; it is lost when the Get of the namespace fails.         *)
Use(n, t, amount) ==
    /\ Change
    /\ amount # usage[n][t]
    /\ usage' = [usage EXCEPT ![n][t] = amount]
    /\ \/ /\ dirty' = (dirty \/ (t \in Watched /\ n \in labelled \cup OwnNamespaces))
          /\ UNCHANGED failures
       \/ Failure /\ UNCHANGED dirty
    /\ UNCHANGED <<labelled, pq, cached, pc, locals>>

(* Nothing watches the namespaces. *)
Label(n) ==
    /\ Change
    /\ labelled' = IF n \in labelled THEN labelled \ {n} ELSE labelled \cup {n}
    /\ UNCHANGED <<usage, pq, cached, dirty, pc, locals, failures>>

Edit(spec) ==
    /\ Change
    /\ IF pq = Absent
       THEN pq' = [spec |-> spec, status |-> <<>>]
       ELSE pq' \in {Absent, [pq EXCEPT !.spec = spec]}
    /\ UNCHANGED <<cluster, cached, dirty, pc, locals, failures>>

Sync ==
    /\ cached # pq
    /\ cached' = pq
    /\ dirty' = TRUE
    /\ UNCHANGED <<cluster, pq, pc, locals, changes, failures>>

Resync ==
    /\ cached # Absent
    /\ dirty' = TRUE
    /\ UNCHANGED <<cluster, pq, cached, pc, locals, changes, failures>>

-----------------------------------------------------------------------------
(* Reconcile. *)
Return(again) ==
    /\ dirty' = (dirty \/ again)
    /\ pc' = "idle"
    /\ quotas' = <<>>
    /\ apiTypes' = {}
    /\ nsLeft' = {}
    /\ ns' = None
    /\ index' = 0
    /\ seen' = {}
    /\ nsUsed' = Empty

(* getNamespaceList; on other clusters than Rancher's nothing is labelled. *)
NamespaceList == IF labelled # {} THEN labelled ELSE OwnNamespaces

(* ListKinds keeps what a failed discovery still returned, and takes any   *)
(* other error for a server without types.                                 *)
ListKinds ==
    \/ apiTypes' = Types /\ UNCHANGED failures
    \/ \E failed \in SUBSET Groups \ {{}} :
        apiTypes' = {t \in Types : GroupOf[t] \notin failed} /\ Failure

NewQuotasKept ==                \* a slip: the status is not initialised
    IF Len(cached.status) = Len(cached.spec) THEN cached.status
    ELSE [i \in DOMAIN cached.spec |-> New(cached.spec[i])]

NewQuotas == [i \in DOMAIN cached.spec |-> New(cached.spec[i])]

(* Get, and the beginning of CalculateStatus. *)
Begin ==
    /\ pc = "idle"
    /\ dirty
    /\ dirty' = FALSE
    /\ cached # Absent
    /\ pc' = "calculate"
    /\ quotas' = NewQuotas
    /\ nsLeft' = NamespaceList
    /\ ListKinds
    /\ UNCHANGED <<cluster, pq, cached, ns, index, seen, nsUsed, changes>>

BeginNotFound ==
    /\ pc = "idle"
    /\ dirty
    /\ cached = Absent
    /\ dirty' = FALSE
    /\ UNCHANGED <<cluster, pq, cached, pc, locals, changes, failures>>

NextNamespace(n) ==
    /\ pc = "calculate"
    /\ ns = None
    /\ n \in nsLeft
    /\ ns' = n
    /\ nsLeft' = nsLeft \ {n}
    /\ index' = 1
    /\ nsUsed' = Empty
    /\ UNCHANGED <<cluster, pq, cached, dirty, pc, quotas, apiTypes, seen,
                   changes, failures>>

(* UsedQuota of one type: Error for a cluster-scoped one, and for one that *)
(* has objects but no calculator.                                          *)
UsedQuota(n, t) ==
    IF t \notin Namespaced \/ (t \notin Calculable /\ usage[n][t] > 0)
    THEN [result |-> "Error", used |-> 0]
    ELSE [result |-> "Success", used |-> IF t \in Calculable THEN usage[n][t] ELSE 0]

Key(t) == [group |-> GroupOf[t], kind |-> t]

(* The result of UsedQuota for a key, kept for the rest of the namespace. *)
Keep(key, used) ==
    [k \in DOMAIN nsUsed \cup {key} |-> IF k = key THEN used ELSE nsUsed[k]]

(* The quota in hand becomes q, and the next one is taken. *)
Advance(q) ==
    /\ quotas' = [quotas EXCEPT ![index] = q]
    /\ seen' = {}
    /\ \/ index < Len(quotas) /\ index' = index + 1 /\ UNCHANGED ns
       \/ index = Len(quotas) /\ index' = 0 /\ ns' = None

(* Variants of the steps below, each with a slip this code invites.        *)
KindAddedUncached(q) ==         \* nsUsed is not filled
    LET used == UsedQuota(ns, q.key.kind) IN
    /\ nsUsed' = nsUsed
    /\ Advance([q EXCEPT !.used = @ + used.used])

TypeAddedLastOnly(q, used) ==   \* quota.Used = used.Used
    [q EXCEPT !.used = used.used,
              !.result = IF used.result = "Error" THEN "Error" ELSE @]

(* A quota that failed in an earlier namespace stays as it is. *)
SkipFailed(q) ==
    /\ q.result = "Error"
    /\ Advance(q)
    /\ UNCHANGED nsUsed

(* Another quota of this namespace had the same key: its result, and not   *)
(* the sum over the namespaces, is taken over.                             *)
Reuse(q) ==
    /\ q.result # "Error"
    /\ q.key \in DOMAIN nsUsed
    /\ Advance([q EXCEPT !.used = nsUsed[q.key].used, !.result = nsUsed[q.key].result])
    /\ UNCHANGED nsUsed

Fresh(q) == q.result # "Error" /\ q.key \notin DOMAIN nsUsed

TypeAdded(q, used) ==
    [q EXCEPT !.used = @ + used.used,
              !.result = IF used.result = "Error" THEN "Error" ELSE @]

(* A quota of a whole group: one type after another, in any order.  What   *)
(* is listed anew is kept under the key of the group.                      *)
AddType(q, t) ==
    LET known == Key(t) \in DOMAIN nsUsed
        used == IF known THEN nsUsed[Key(t)] ELSE UsedQuota(ns, t)
        left == {u \in apiTypes : GroupOf[u] = q.key.group} \ (seen \cup {t})
    IN  /\ q.key.kind = AnyKind
        /\ Fresh(q) \/ seen # {}
        /\ t \in apiTypes \ seen
        /\ GroupOf[t] = q.key.group
        /\ nsUsed' = IF known THEN nsUsed ELSE Keep(q.key, used)
        /\ \/ /\ left # {}
              /\ seen' = seen \cup {t}
              /\ quotas' = [quotas EXCEPT ![index] = TypeAdded(q, used)]
              /\ UNCHANGED <<index, ns>>
           \/ left = {} /\ Advance(TypeAdded(q, used))

(* No such group or kind. *)
NoType(q) ==
    /\ Fresh(q)
    /\ \A t \in apiTypes :
        IF q.key.kind = AnyKind THEN GroupOf[t] # q.key.group ELSE Key(t) # q.key
    /\ Advance([q EXCEPT !.result = "Error"])
    /\ UNCHANGED nsUsed

(* A quota of one kind.  The result of UsedQuota is kept for a later quota *)
(* of the namespace but not recorded in this one.                          *)
KindAdded(q) ==
    LET used == UsedQuota(ns, q.key.kind) IN
    /\ nsUsed' = Keep(q.key, used)
    /\ Advance([q EXCEPT !.used = @ + used.used])

AddKind(q) ==
    /\ Fresh(q)
    /\ \E t \in apiTypes : Key(t) = q.key
    /\ KindAdded(q)

Calculate ==
    /\ pc = "calculate"
    /\ ns # None
    /\ LET q == quotas[index] IN
        \/ seen = {} /\ (SkipFailed(q) \/ Reuse(q) \/ NoType(q) \/ AddKind(q))
        \/ \E t \in Types : AddType(q, t)
    /\ UNCHANGED <<cluster, pq, cached, dirty, pc, apiTypes, nsLeft, changes, failures>>

Calculated ==
    /\ pc = "calculate"
    /\ ns = None
    /\ nsLeft = {}
    /\ pc' = "patch"
    /\ UNCHANGED <<cluster, pq, cached, dirty, locals, changes, failures>>

(* cu.PatchStatus: a merge patch of the difference to the cached status,   *)
(* which replaces the whole list.                                          *)
PatchStatus ==
    /\ pc = "patch"
    /\ \/ /\ cached # Absent /\ pq # Absent
          /\ pq' = IF quotas # cached.status THEN [pq EXCEPT !.status = quotas] ELSE pq
          /\ Return(FALSE)
       \/ /\ cached = Absent \/ pq = Absent
          /\ Return(TRUE)
          /\ UNCHANGED pq
    /\ UNCHANGED <<cluster, cached, changes, failures>>

(* A failing call: the status calculated so far is dropped. *)
Error ==
    /\ pc # "idle"
    /\ Failure
    /\ Return(TRUE)
    /\ UNCHANGED <<cluster, pq, cached, changes>>

WorkStep ==
    \/ Begin \/ BeginNotFound
    \/ \E n \in Namespaces : NextNamespace(n)
    \/ Calculate \/ Calculated \/ PatchStatus

Next ==
    \/ \E n \in Namespaces : Label(n) \/
        \E t \in Types, amount \in 0 .. MaxUsage : Use(n, t, amount)
    \/ \E spec \in Specs : Edit(spec)
    \/ Sync \/ Resync
    \/ WorkStep \/ Error

Spec == Init /\ [][Next]_vars

(* The worker runs, the cache catches up, the hourly resync recurs. *)
FairSpec == Spec /\ WF_vars(WorkStep) /\ WF_vars(Sync) /\ WF_vars(Resync)

-----------------------------------------------------------------------------
Matching(key) == {t \in Types : GroupOf[t] = key.group /\ key.kind \in {AnyKind, t}}

Countable(t) == t \in Namespaced \cap Calculable

(* What the objects that key is about really use, in the whole project. *)
UsedBy(key) ==
    MapThenSumSet(LAMBDA p : IF Countable(p[2]) THEN usage[p[1]][p[2]] ELSE 0,
                  NamespaceList \X Matching(key))

Uncountable(key) ==
    \E n \in NamespaceList, t \in Matching(key) :
        t \notin Namespaced \/ (t \notin Calculable /\ usage[n][t] > 0)

Exact(q) ==
    /\ q.result = "Success" => q.used = UsedBy(q.key)
    /\ q.result = "Error" <=>
            /\ NamespaceList # {}
            /\ \/ Matching(q.key) = {}
               \/ q.key.kind = AnyKind /\ Uncountable(q.key)

Current ==
    /\ Len(pq.status) = Len(pq.spec)
    /\ \A i \in DOMAIN pq.spec : pq.status[i].key = pq.spec[i] /\ Exact(pq.status[i])

(* Once the cluster is quiet the status becomes and stays what the spec    *)
(* asks for, namespace by namespace and type by type: although             *)
(* CalculateStatus took some of the sums before and some after a change,   *)
(* although a failed discovery wrote Error into every quota, and although  *)
(* label changes, unwatched types and lost events queue nothing.  A spec   *)
(* that repeats a key is exempt: see Reuse.                                *)
StatusConverges == <>[](pq = Absent \/ ~ IsInjective(pq.spec) \/ Current)

(* A quota of a kind and, after it, the one quota of the kind's group. *)
PartAndWhole(list, i, j) ==
    /\ i < j
    /\ list[j].key.kind = AnyKind
    /\ list[i].key.group = list[j].key.group
    /\ \A k \in DOMAIN list \ {j} : list[k].key # list[j].key
    /\ list[i].result = "Success" /\ list[j].result = "Success"

(* A kind never shows more than its group, although their objects are      *)
(* listed at different times: the group takes over the result that nsUsed  *)
(* has of the kind.  Only for a kind that comes first: the other way round *)
(* CalculateStatus keeps the group's results under no kind and lists again.*)
(* And only for a group that is listed once: see Reuse.                    *)
PartOfWhole ==
    \A i, j \in DOMAIN pq.status :
        PartAndWhole(pq.status, i, j) => pq.status[i].used <= pq.status[j].used
=============================================================================
