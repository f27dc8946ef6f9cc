# A TLA+ model of kube-ui-server

kube-ui-server is an extended Kubernetes API server for user interfaces. Besides
answering requests it runs a controller manager that keeps an in-memory graph of
how the cluster's objects refer to each other and several controllers that write
statuses. This directory holds TLA+ models of that stateful core, TLC runs over
small instances of them, and TLAPS proofs for instances of every size.
`PROJECT.json` is the index: the definition-to-source map, runs, mutants,
findings, hazards and theorems.

## 1. Inventory

| Component | State | Operations | Interacts with | Hard part | Correct when |
|---|---|---|---|---|---|
| Object graph (`pkg/graph/graph.go`) | `Edges`, `IDs` under one RWMutex | `Update`, `Delete` | written by all graph reconcilers, read by every request | a link is two entries; both sides may declare it | both entries or none, one owner, nothing outlives its declaration |
| Graph searches (`graph.go`) | locals only | `Links`, `ResourceGraph` | GraphQL, resource graph storage | kind filter and map order | direct links complete, no unrelated object, the search ends |
| Graph reconcilers (`reconciler.go`, `lib.go`) | work queues | `Reconcile` | API server, graph | reads and writes far apart, partial failure, no event for a referrer | the graph becomes what a fresh listing gives |
| Discovery and setup (`setup.go`, `vars.go`) | tracker, channel, flags | poll, range over the channel | starts the reconcilers and quota watches | bounded channel, partial discovery, shutdown | each type handed over exactly once; stops with its context |
| Feature controller (`controllers/feature`) | Features, FeatureSets | `Reconcile` | API server through a lagging cache, Flux HelmReleases | merge patches without versions, dropped errors, finalizer | statuses, entries, dependents and exclusions converge; deletion completes |
| ProjectQuota controller (`controllers/projectquota`) | ProjectQuota status, watched types | `Reconcile`, `StartWatcher` | discovery, poller | sums taken at different times, lost events | the sums converge, a part never exceeds its whole |
| Object finder (`lib.go`) | none | `ResourcesFor`, `List`, `Locate` | API server; used by reconcilers and queries | the two directions of a connection are separate code | following a connection and back leads home |
| ClusterClaim reconciler (`controllers/feature`) | one ClusterClaim | `Reconcile` | the Features and their cache | one unfinished Feature stops all; patches against an old copy | the claim ends up telling what the Features say |
| Scan requests (`controllers/scanner`, `pkg/shared`) | ImageScanRequests | `Reconcile`, `SendScanRequest` | pods, scanner | early return without a requeue, random names | every image of a running workload is scanned |
| Metrics collector (`metricshandler`, `metricsstore`) | the published store | collect, serve | flags of the poller, graph, scan reports | errgroup pipeline, families matched by position, flags that turn | the pipeline ends and is complete, headers match, the metrics catch up |
| Scanner and policy reports (`registry/scanner/reports`, `registry/policy/reports`) | none | `Create` | pipeline, graph search | map orders, cancelled requests, index arithmetic | numbers add up and agree with the metrics; violations of the object are listed |
| Menus (`pkg/menu`) | ConfigMaps | Get, List, Upsert, Delete | user interface | read, modify, write without a version | not modelled |
| Other storages (`pkg/registry`), cluster metadata controller | none | REST handlers, one upsert | all of the above | partial failure inside one request | not modelled |

The components meet in these places: the poller puts resource types into
`resourceChannel`, and the consumer starts a graph reconciler for each; all
reconcilers share `objGraph`; the poller calls the ProjectQuota controller's
`StartWatcher` for each new type and sets the flags the metrics collector reads;
the ClusterClaim reconciler reads the Features another controller writes; the
collector, the CVEReport storage and the Workload reconciler meet at the
scanner's reports and requests; and the policy reports are made of the answer of
a graph search.

## 2. Modules

| Module | Models | Proved in |
|---|---|---|
| `ObjectGraph` | the graph's two mutators, each one atomic step | `ObjectGraphProofs` |
| `LinkTable` | abstract specification: a set of links that each object declares and deletes | |
| `GraphSearch` | `Links` and `ResourceGraph`, one visit per step | `GraphSearchProofs` |
| `ObjectFinder` | `ResourcesFor` and its helpers, `List` | `ObjectFinderProofs` |
| `PolicyReport` | the matching of violations to a `ResourceGraph` answer; extends `GraphSearch` | `GraphSearchProofs` |
| `GraphQueries` | composes the three above: a request searches the graph or walks with the finder | |
| `GraphReconciler` | the reconcilers; instantiates `ObjectGraph` | `GraphReconcilerProofs` |
| `ResourcePoller` | `PollNewResourceTypes`, `SetupGraphReconciler`, `StartWatcher` | `ResourcePollerProofs` |
| `FeatureStatus` | the pure part of the Feature controller: evaluation and summaries | |
| `FeatureController` | its reconcile over API server and cache | `FeatureControllerProofs` |
| `ClusterClaim` | the ClusterClaim reconciler composed with `FeatureController` | `FeatureControllerProofs` |
| `ProjectQuota` | the quota reconcile and `CalculateStatus` | `ProjectQuotaProofs` |
| `ReportPipeline` | `collectReports`: generator, workers and reader over two channels | `ImageScansProofs` |
| `MetricsCollector` | the collector's loop around it, the published store and the scrapes | `ImageScansProofs` |
| `ScanStatistics` | the numbers both clients compute from the results, as operators | `ImageScansProofs` |
| `ImageScans` | composes the three with the CVEReport storage, the Workload reconciler and the scanner | `ImageScansProofs` |

`MC*` modules give the constants values; the `.cfg` files select an instance.
`PROJECT.json` names, for each definition, the lines it stands for.

### ObjectGraph and LinkTable
`Edges[x][lbl][y]` is the boolean that `Edges` stores for a link, or `Absent`:
`Owned` is `true` (x declared it), `Mirror` is `false`. `IDs[x]` is the last
declaration. `Update` is the whole method: erase what src owned, on both sides,
then write src's new links (`setEdge` twice). `Delete` removes every entry that
names the object. `LinkTable` forgets the two entries; `ImplementsLinkTable` is
the refinement, under the condition that no two objects declare the same link
in both directions. The shipped descriptors satisfy it: none of their edges
runs both ways with the same label, none links a kind to itself. Without it
`Update` of one side takes the ownership over from the other, and the plain
`graph` run covers that too.

### GraphSearch
One request, chosen initially with the graph: `Links` (a direct label, or the
offshoots first and then the label) or `ResourceGraph`. The queue is a sequence;
Go's map iteration is a nondeterministic order of the objects appended. A
request holds the read lock, so the graph is constant. `NextLabel` skips the
direct labels that `resourceGraph` removes from the request before its loop.

What the searches should find is defined without a search: `LeastClosed(seeds,
step)` is the intersection of all sets that hold the seeds and are closed under
the step. `ConnectionsExact` says that a response holds, label by label, exactly
the edges that least closed set gives. `LinksComplete` has three parts, what the
kind filter cannot hide from the answer: the direct neighbours (`NeighboursFound`);
a kind altogether that the object or an object of the answer is linked to, unless the
search started from an object of that kind (`KindsFound`); and anything along a direct
label when each kind has one distance from the object (`ChainsFound`). The exception in
`KindsFound` is needed: the kinds of the object and, for a label that is not direct, of
its offshoots are searched first and then filtered out, so that of pod1 - svc - pod2
`Links(pod1)` returns the Service and no Pod. A distance is a function that is 0
at the object, grows by at most one along a link, and at every other object exceeds
that of some neighbour by one (`IsDistance`); no search computes it.

### ObjectFinder
One walk: along a connection from an object and back, forward first from a
source, backward first from a target. An object is a record of what the JSON
paths of a connection would extract from it; the constant `Clusters` gives the
sets of objects a connection may meet, and `Proper` what the API server ensures of
them: a namespace exactly for the objects of a namespaced kind, and an owner
reference that has the kind and the name of the object with its UID. `ResourcesFor` returns the objects or an
error, NotFound apart, because `List` counts NotFound as an empty result.
`TwoWay` lists where the two directions are not written to agree; `ComesBack`
says that everywhere else they do. Of a source whose namespace selector says `any` it
says nothing, since the forward walk finds no object there: that is `EmptyMeansAll`,
which fails (section 7).

### PolicyReport
Operators on the answer of `GraphSearch`: `preprocess`,
`buildMapFromConnections` and `evaluateForSingleConstraint`, with Go's
`sort.Search` as it is, a binary search that trusts its predicate. `SortInts`
stands for `sort.Ints` by what it gives: the sequence of the ids in ascending
order. The index of a kind is its position among the kinds of the graph by the
constant `KindRank`, an arbitrary order in place of the sort by name. The property
quantifies over every set of violations of a constraint, but asks for completeness only
where they are of one kind: over several needed ids the binary search is wrong
(section 7), and the property does not catch it.

### GraphReconciler
One worker per kind. A reconcile is `Begin`, `GetFound`/`GetNotFound`/`GetError`,
one `Resolve` or `ResolveError` per connection, and one of `KeepGraph`,
`AwaitBackends`, `Persist`, or `Forget` for an object that is gone. `refs[x]` is
what the content of x selects; what a connection resolves to is the part that
exists at that moment. `dirty` is the work queue, `delayed` the keys that
`RequeueAfter` or backoff will bring back; durations are left out.

### ResourcePoller
Two goroutines and a bounded channel. The poller's `hand` is the resource
between tracker, send and `StartWatcher`. `Discover(S)` returns the part S of
the served types (partial discovery). `Cancel` and `SetupError` end the
manager's context. The capacity is the constant `ChanCap`.

### FeatureStatus and FeatureController
The server's objects (`feat`, `fset`), the cached copies (`cacheFeat`,
`cacheSet`) and the worker's copy (`feature`). Each API call is one step; a
status is patched as the difference to the cached copy (`MergePatched`), an
`Update` is refused when the copy read is old. A FeatureSet is read twice before it is
written: the code gets it, changes its copy and hands that to `PatchStatus`, which gets
it again and sends the difference between the two. `fs` is the changed copy in between;
`ReadEntry` and `ReadDependents` are the first read, `UpdateFeatureSetEntry`,
`DeleteEntry` and `UpdateDependents` the second one and the patch, and the cache may
move at any point. `Starts` is what the API server holds when the process starts: the
objects as the chart installs them, or what an earlier process has left. Optional
booleans are "nil", "true", "false". Dropped and returned errors are two actions, `ErrorDropped` and
`ErrorRetried`, at exactly the stages where the code does one or the other.

### ClusterClaim
`List` and `CreateOrPatch` are two steps, and the cached claim lags behind the
server's. An event of a Feature queues both controllers, which is the one place
where the two specifications share a step. `spoke` says whether the reconciler
was set up at all. All runs of the Feature controller use this composition.

### ProjectQuota
`CalculateStatus` runs namespace by namespace, quota by quota and, for a quota of
a whole group, type by type in any order; every `UsedQuota` reads the usage of
its own moment, and its results are kept per namespace in `nsUsed` under the
keys the code uses. `PartOfWhole` compares a kind with its group where the
group's key occurs once in the status and after the kind (`PartAndWhole`): a key
that repeats takes the branch of line 204, which assigns the amount of one
namespace (section 7). The bound in `TypeOK`, the largest usage for each type in
each namespace, says that a sum counts no object twice.

### ReportPipeline, MetricsCollector, ScanStatistics, ImageScans
A send on an unbuffered channel and its receive are one step of two goroutines:
`Request` and `Deliver`. `err` is the error of the errgroup, which cancels its
context; `dropped` the parent context, which only a CVEReport request can lose.
A step of a worker whose context is done may still succeed: Go's `select` picks
any ready case. The collector's `families` is the list the store is filled with,
by position, and `store` the published one with its headers. `ScanStatistics`
takes the order of every map iteration as an argument; what the nested loops meet
is a function on their turns, `<<k, n>>` for the n-th vulnerability of the k-th
image, so that "a later one overwrites" and "the first one stays" are statements
about turns. The collector, the
storage and the Workload reconciler share nothing but the API server, so a
behaviour of `ImageScans` has one of them, chosen at the start.

## 3. Abstractions

- The cache jumps to the server's latest copy of an object; intermediate
  versions are not replayed. Resource versions are a flag: older than the
  server's or not.
- Reasons, messages, log lines, versions of charts and durations are left out.
- Backoff and `RequeueAfter` are membership in a queue.
- Finalizers of other controllers do not occur.
- `ProjectQuota`: a resource list is the amount of one resource. The cached
  spec, the namespace list and the types are read in one step; their values are
  independent of each other and the spec may be old anyway. Namespaces keep
  existing; their labels change.
- `ObjectFinder`: results are sets; a reference that matches ends the look at
  its source, so an error that a later reference of the same source would have
  raised is raised by the model although the code may pass over it.
- `ImageScans`: equal requests for an image are one; the scanner answers a
  request with a current report. The images of the pods do not change.
- `MetricsCollector`: the two flags are loaded in one step.
- `GraphReconciler`: the evaluation of one connection inside `ResourcesFor` is a
  set of ids. A kind has one version.

## 4. Runs

| Run | Instance | Shows |
|---|---|---|
| `graph` | 3 objects, one label, every link declarable | pairing, ownership and declaration agree; `Delete` isolates, `Update` is local |
| `graph_search` | 4 objects of 3 kinds, 2 labels, up to 2 labels in a request, all graphs, all orders; up to 2 sources and 2 targets for each of the 19 connections, namespaced or not | what the kind filter can and cannot hide; responses of `ResourceGraph` do not depend on the order; what a policy report lists; both searches end; the finder comes back |
| `finder_namespaces` | the instance of `graph_search` | finding: `EmptyMeansAll` is violated |
| `reconciler` | Service, StatefulSet, Pod; 3 changes, 1 failing call | nothing deleted stays behind, no change is lost, the graph is a table of declared links and converges |
| `reconciler_service` | the same | finding: `PersistsWhatResolved` is violated |
| `poller` | the types of `MCResourcePoller.cfg`, a channel of one slot | each type is handed over once; flags and quota watches follow the tracker; types get controllers |
| `poller_shutdown` | the same, with a cancel | finding: `CancelStopsRunnables` is violated |
| `feature_sets` | a restart with 3 Features in 2 sets, two of them rivals that both require the third; every situation before and after the restart, and once with the sets reinstalled | set entries, summaries, exclusions and dependents converge once reads are timely; none is disabled while its status says enabled |
| `feature_lifecycle` | 1 Feature and its set, 2 changes, 1 failing call (on a spoke 1 in all) | status and ClusterClaim converge, deletion completes |
| `feature_tests` | 1 Feature and its set, 1 change | finding: `TestedStatuses` is violated |
| `project_quota` | 4 types, 2 namespaces, 5 specs, 1 change, 1 failing call | sums converge, a part never exceeds its whole |
| `image_scans` | 2 images, 2 workers, 2 failing calls, 1 change of flags, pods and reports | the pipeline ends, complete or with an error; headers match families; reports and metrics agree; all images get scanned and shown |

Bounds. Two sides and a third object are what pairing and ownership need, and
the theorems of section 6 remove the bounds for every safety property. Four objects give the searches two objects of one kind at
different distances, the case the kind filter is about. The changes bound what
users and third parties do, never what the program does: two changes already put
one before and one after every step of a reconcile (an object deleted and
created again between the steps of another reconcile needs three, hence the
`reconciler` bound). One failing call is enough to reach each error path from
each stage. Two workers and two images give the pipeline a worker that fails
while another one sends and a generator with an image left; the second image
rates a CVE of the first one differently. In `feature_sets` the change is the restart
itself: what the server left and what it finds differ in any way the situations allow,
and from there every lag of the cache is possible, so that lists overwrite each other
(without the premise `ReadsTimely` each of the three convergence properties fails in
this instance). Where the ClusterClaim reconciler runs,
`MaxSpokeEvents` bounds changes and failures together: one in `feature_lifecycle`,
none in the other Feature runs, which are not about the claim. Deadlock checking is off where the
system may really be quiet: all queues empty and the bounds used up.

The Feature runs take the Feature controller's steps inside `ClaimNext`, where TLC
counts `WorkStep` as one action; its expression counts show that each step of
`WorkStep` is taken in at least one of the two passing runs (`FinalizerRefused`
in `feature_lifecycle` only, `ExclusionError` and `DependentsError` in `feature_sets`
only; of the latter the case of a FeatureSet that goes between read and patch needs
three Features and a change, and no run reaches it). `GraphSearch!TypeOK` and
`PipeTypeOK` belong to the inductive invariants of section 6 and are proved there;
no run has them as properties.

Each property has a mutant in `PROJECT.json`: a plausible bug in one mapped
definition under which TLC finds the property violated.

## 5. Fairness

- A worker that has a key finishes: `WF` of its steps. Reconciles contain no
  unbounded waits; failing calls are bounded by `MaxFailures`.
- A waiting key is taken: `SF` of `Begin`, because a shared worker is busy again
  and again, and controller-runtime's queue is first-in-first-out.
- The cache catches up (`WF` of `SyncFeature`, `SyncSet`, `Sync`), as the watch
  protocol guarantees.
- `ReadsTimely`, a premise of `SetsConverge`, `ExclusionConverges` and
  `DependentsConverge`: from some time on the cache has caught up with a FeatureSet when
  a reconcile reads it first. Nothing in the code guarantees this, and fairness alone is
  not enough: the server lists one Feature and the cache another one, a reconcile
  computes its list from that copy, the cache moves, and the patch of the difference
  puts the old list back; the other Feature then does the same, for ever. What makes the
  premise reasonable is the pace. A settled Feature is reconciled every 30 to 149
  seconds (`getRandomInterval`), by one worker, and a watch event takes a fraction of a
  second. One round of reconciles with timely reads is enough: all status writes come
  from that one worker, so the second read sees the same copy, the lists come right, and
  from then on the patches are void, no event is under way and every read is timely. A
  watch that keeps lagging longer than the interval is what breaks it.
- The resync recurs: `pkg/apiserver/apiserver.go` sets a `SyncPeriod` of one hour.
  Convergence of links whose targets appear later rests on this alone.
- `ResourcePoller`: both goroutines run, and discovery of all groups succeeds
  again and again. Nothing is assumed about `Cancel`.
- `GraphQueries`: the goroutine of a request is scheduled.
- `ImageScans`: goroutines are scheduled and calls are answered, a scrape ends,
  the scanner serves every request, a waiting pod starts in the end (else there
  is nothing to scan) and the workload's resync recurs.
- `ClusterClaim`: as for the Feature controller; the reconciler's queue is served.

No fairness is assumed of users, failures or the cluster.

## 6. Proofs

For every value of the constants that satisfies the named assumptions:

- `ObjectGraphProofs`: `TypeCorrect`, `GraphConsistent`, `DeleteIsolatesTheorem`,
  `UpdateIsLocalTheorem` and the refinement `RefinesLinkTable`. The inductive
  invariant adds `NoOwnedLoop` to the three consistency invariants: a self-link
  is stored in one entry only, which `Update` writes `false` last, so it is
  never owned. Two lemmas state each entry after `Update` and after `Delete`;
  all else is case analysis over them. The refinement needs the one-way
  condition as a hypothesis.
- `GraphReconcilerProofs`: `DeletedIsPendingTheorem`, `SettledIsCurrentTheorem`,
  `UsesObjectGraphTheorem`, `TypeCorrect`. `DeletedIsPending` is inductive with
  `Conforming` (what a worker has found conforms to the descriptors) and
  `ListingIsQueued` (an object deleted while its reconcile is listing has its
  key in `dirty`: the deletion event came after the key was taken). Without the
  last, a `Persist` after the deletion would leave the object with nothing
  queued. `SettledIsCurrent` adds that found ids come from the content seen and
  that the content seen is current or the key is dirty again.
  `UsesObjectGraphTheorem` carries the theorems of `ObjectGraphProofs` to the
  running reconcilers, for any number of objects, workers, changes and failures,
  and `ReconcilersImplementLinkTable` is the whole chain: with one-way descriptors
  the reconcilers implement `LinkTable`. It goes through an instance of
  `ObjectGraphProofs`; two lemmas show that this instance and the one the
  reconcilers use are the same specification.
- `ResourcePollerProofs`: `HandedOverOnceTheorem`, `FlagImpliesTrackedTheorem`,
  `QuotaWatchFollowsTheorem`, `TypeCorrect`. `Hands` ties each goroutine's
  stage to what it holds, `LookedAtIsTracked` says that what the poll has passed
  is tracked, and `Apart` that the four places of a type are disjoint and the
  channel holds no duplicate; with finite `Types` the cardinalities add up.

- `ImageScansProofs`, of the composition: `ReportsComplete` (`CompleteOrError`),
  `HeadersAndFamilies` (`HeadersMatch`), `PipelineTypes`. `CompleteOrError` speaks
  of the moment the call returns. The invariant follows every image until then:
  while there is no error an image is left to send, held by a worker or among the
  results (`NothingLost`), a worker holds one exactly while it works (`JobsHeld`),
  and the goroutines stop before the channel closes and the caller returns
  (`StopInOrder`), so that nothing is held any more when the caller looks.
  `Filled` says, for each phase of the collector's loop, which prefix of the
  families the flags read at its start is in the new store.
  `ReportNumbersAddUp` (`ReportsAddUp`) and `MetricsAgreeWithReports`
  (`MetricsAgree`) hold of whatever the reports list. `SumOfCounts` is the counting
  argument behind both: the numbers of arguments with each value of a function add
  up to the number of its arguments. `TurnsFacts` is the other half: in any order
  the turns of the loops match one to one what the reports of the images list, so
  a number counted over the turns (`NumbersOfListed`) is one of the reports alone,
  the same for two clients that range over their maps in different orders. The
  severity a map keeps for a CVE is one the CVE was met with (`RiskFacts`), and so
  the same in both where a CVE has only one.
- `FeatureControllerProofs`, of the composition with `ClusterClaim`: `FeatureTypes`
  and `ExclusionSound` (`NeverDisablesEnabled`). The `Update` that disables a
  Feature is refused when the copy is old. `CopyCurrent` says that a copy that is
  not old was read from a cache that had caught up, and `JudgementStored` that the
  judgement in such a copy is the stored status: its patch was either void, or it
  made the copy old. Both need `CacheCurrent`. `ClaimFollowsCache`, about the
  ClusterClaim reconciler: it lists the Features and writes the claim in two steps,
  and still writes what the cache says at the write, unless a request waits that
  will list them again (`ClaimKept`). The one exception in its statement is needed:
  against an old cached claim the write may be void (section 7).
- `ProjectQuotaProofs`: `KindsWithinGroups` (`PartOfWhole`) and `QuotaTypes`. During
  a calculation the kind may be one namespace ahead of its group; `PartsFit` says
  that it is ahead by no more than what `nsUsed` keeps for it, which is what the
  group will add (`Kept`, `KindsKept`), so usage that changes between the two
  reads does no harm. `CountedOnce` bounds each sum by the namespaces visited and
  the types seen, by arithmetic on cardinalities.
- `GraphSearchProofs`: `LinksOnlyConnected`, `LinksAreComplete` (`LinksComplete`),
  `ConnectionsAreExact`, `ReportsViolations` (`ViolationsReported`), `SearchTypes`.
  Objects processed or queued are inside the least closed set of the
  seeds (`LinksSound`, `InSearch`); what a processed object leads to is processed or
  queued, so at the end the processed objects are closed and equal to it, with no
  induction over paths. `OidFirst` says that the object itself is visited while the
  kind filter is empty, `LinksKinds` that a kind next to a processed object is processed
  or queued, and `LinksWhole` carries that to the answer: what is returned has been
  searched, and what has been searched is returned unless the search started from it.
  `EarlierWhole` says that a label searched earlier stays whole.
  One lemma shows that a set in any order is a sequence of exactly its elements, by
  the pigeonhole theorem. For `ChainsFound` the invariant `ChainInv` is about any
  distance function in which each kind has one distance: the queue is in order of
  distance and spans at most two of them (`InOrder`), nothing nearer than its head is
  still unseen (`Nearest`), and so an object the kind filter passes over was found
  already (`NothingHidden`). For `ViolationsReported` the matching is proved after the
  search: a finite set of numbers has one ascending sequence (`SortExists`), a kind of
  the graph has an index of its own (`ResourceIDFacts`), and over a single needed id
  the binary search is exact (`SearchOne`).
- `ObjectFinderProofs`: `FinderComesBack` (`ComesBack`), for every cluster that is
  `Proper`. The invariant describes the first leg: what the walk holds is the
  answer of `ResourcesFor` for its origin. One lemma for each type of connection
  and direction shows that the other direction then finds the origin.

The assumptions are those named in the modules: constants have their types, sets
of types, namespaces and objects are finite where sizes are counted, bounds are
naturals, `None` and the empty kind are no names of objects, kinds have distinct
ranks, a vulnerability has one of the five severities, and `Proper`. TLC
evaluates each on every run. They leave out nothing the code meets; the one-way
condition is a hypothesis of the two refinement theorems only, and `OneWayInstance`
checks that the `reconciler` instance satisfies it.

Only model-checked, and why:

- liveness under fairness (the convergence properties, `Terminates`,
  `TypesGetControllers`, `DeletionCompletes`, `CallsReturn`, `MetricsCatchUp`,
  `WorkloadsScanned`): the provers have no rule for fairness and `ENABLED`.

Every other property of a passing run, invariant or action property, is stated by a
theorem. Where a theorem needs induction over data (sums over finite sets, sorted
sequences, the first of a set in an order), it is by least counterexample: the
inclusion of finite sets is well founded, so a set of counterexamples has a least one
(`LeastSubset`), which is then shown to have a smaller one. The induction rules that
take a predicate as a parameter are out of the provers' reach.

## 7. Findings

1. `reconciler.go:86`: the early return for a Service that exposes nothing comes
   before "Persist whatever resolved". A Service whose selector stops matching
   keeps its old links, and errors of that reconcile are not retried with
   backoff (`reconciler_service`).
2. `setup.go:121`: the channel is never closed, since the poll ends only with an
   error, and the consumer never looks at its context (`poller_shutdown`).
3. `lib.go:805` and `:768`: the comment on `Namespaces` says that an empty list means
   all namespaces; its callers range over it, so a namespace selector with `any`, or a
   namespace path whose field is missing, is searched in none (`finder_namespaces`).
4. `feature_tests`: `feature_controller_test.go` expects statuses that the code does not
   write. `TestedStatuses` has three parts, and each is violated when it is checked alone.
   The convergence properties state what the code's own judgement gives.
   - `:194`, a Feature with its workloads and without a HelmRelease is not ready;
     `feature_controller.go:158` copies the readiness of the workloads.
   - `:399` and `:408`, a FeatureSet without enabled, or without managed, Features is
     neither enabled nor ready; `helpers.go:112` does not look at `Managed`, and
     `feature_controller.go:478` sets `Ready` to nil.
   - `:511`, the deletion of a Feature disables its FeatureSet;
     `feature_controller.go:427` writes the entry with the last status, which stays. The
     test passes because the status of its Feature is empty.

Observed while modelling, with no text of the repository about the case and so no run
of its own. The properties exempt these cases and say so:

- `feature_controller.go:182` and `:434`: `CreateOrPatch` of the finalizers creates a
  Feature again that a user has deleted since the `Get` of `Reconcile`
  (`PatchOutcome` "created").
- `feature_controller.go:486`: two Features of a FeatureSet may overwrite each other's
  entries as long as the cache lags at each read (section 5).

- `policy/reports/storage.go:361`: `sort.Search` is given an equality. When the
  violations of a constraint are of several kinds of the graph, the first needed
  kind is never found and its violations are missing from the report; with one
  kind the search is right. At line 308 a kind that is not in the graph is looked
  up as index 0, so a violation whose namespace and name are those of an object
  of the first kind is listed. An object without links has an empty graph and
  no report, its own violations included.
- `lib.go:783`: the names that a label selector of namespaces yields are dropped.
  Backward, a reference that names a namespace matches a target of any (line 558), and owners
  are looked up by name where children are by UID.
- `metricshandler/handler.go:103`: an error skips the pause, so a lasting error
  makes the loop spin; the context is never looked at. The total of a namespace's
  violations is emitted once per template (`handler_policy.go`).
- `clusterclaim_reconciler.go:91`: the claim is patched with the difference to its
  cached copy. When the Features change and change back while the cached claim is
  old, the second write finds the old value in the cache and sends nothing; the
  claim stays wrong with no request queued, until the next event or the resync of a
  Feature (`ClaimConverges` rests on the resync; the second case of
  `ClaimFollowsCache`).
- `feature_controller.go:583`: the entry of a deleted Feature stays in its
  FeatureSet and makes the exclusion handling of the others fail. Their reconciles end
  there, so neither their entries nor their dependents are written any more; so do those
  of a group whose FeatureSet is gone.
- `projectquota_controller.go:204`: a quota that repeats a key shows one
  namespace only.
- `renderer.go`: a page block that cannot be rendered is returned as nil and
  dereferenced by its caller. `menu/usermenu.go`: `Update` takes the object as
  the new whole whatever its resource version, and reports it as created.

## 8. What is left

No safety property of a run is without a theorem. Left are the liveness properties,
which stay with TLC, and the parts of section 9. Worth adding to the model first: two
versions of one kind in the poller, and a cached claim and Features whose
intermediate versions are seen.

## 9. Not modelled

- `pkg/menu`, `renderer.go`, `graphql.go`, `dashboard.go` and the storages under
  `registry/core`: one request is one sequence of reads whose result is laid out
  as a table, a page or a menu. They keep no state and meet no other actor; what
  could be said of them restates the conversion. Their hard parts, the graph
  searches, the paths of the finder and the report pipeline, have modules.
- `registry/meta`, `identity`, `offline`, `editor`, `cost`, the cluster metadata
  controller: adapters that pass a request on to a library or a service.
- `pkg/apiserver`, `pkg/cmds`, `cmd`: construction and flags. What matters of it,
  the resync period and whether a controller is set up, is in the modules.
- Two versions of one kind in the poller (`setup.go:102`).
- `apis` and `vendor`: four `openapi_generated.go` files of about 20,000 lines
  each make up more than four fifths of the repository's own lines. They are
  tables of schemas and hold no behaviour, so the share of all lines that the map
  covers stays small whatever is modelled. What the modules use of vendored code
  (API server, informer cache, work queue, merge patches) is marked external.
