---------------------------- MODULE GraphSearch ----------------------------
(***************************************************************************)
(* The two searches of pkg/graph/graph.go: ObjectGraph.Links, behind every *)
(* link field of the GraphQL schema, and ObjectGraph.resourceGraph, the    *)
(* answer to a ResourceGraph request.  One step is one iteration of the    *)
(* work loop of connectedOIDs or of connectedEdges.  Go ranges over a map  *)
(* in an unspecified order, so the ids of an iteration are appended in any *)
(* order.                                                                  *)
(*                                                                         *)
(* A search holds g.m.RLock to its end, so the graph does not change under *)
(* it; by ObjectGraph!EdgesPaired an entry of g.Edges[x][lbl] has its      *)
(* counterpart in g.Edges[y][lbl], so a link is an unordered pair.         *)
(***************************************************************************)
EXTENDS Naturals, FiniteSets, Sequences, SequencesExt

CONSTANTS
    OIDs,        \* the objects
    GK,          \* GK[x]: the group-kind parsed from the id of x
    Labels,      \* edge labels
    Offshoot,    \* the label EdgeLabelOffshoot
    DirectLabels,\* the labels for which EdgeLabel.Direct() holds
    MayLink,     \* pairs {x, y} that some resource descriptor can connect
    MaxInclude,  \* bound on the length of includeEdgesBesidesOffshoot
    Mapped       \* the kinds the REST mapper knows at the end of a request

ASSUME OIDsAssumption == IsFiniteSet(OIDs) /\ DOMAIN GK = OIDs
ASSUME BoundAssumption == MaxInclude \in Nat
ASSUME LabelAssumption == Offshoot \in DirectLabels /\ DirectLabels \subseteq Labels
ASSUME MayLinkAssumption ==
    \A p \in MayLink : \E x, y \in OIDs : x # y /\ p = {x, y}

VARIABLES
    g,             \* the graph, fixed while the read lock is held
    request,       \* "Links" or "ResourceGraph"
    oid,           \* the object asked about
    phase,         \* see Phases
    edgeLabel,     \* Links: the label asked about; else the running label
    idsToProcess,  \* the work queue, with duplicates
    processed,
    processedGK, result,                        \* connectedOIDs
    include, offshoots, skipGKs, connections    \* resourceGraph

asked      == <<g, request, oid>>
linksVars  == <<processedGK, result>>
graphVars  == <<include, offshoots, skipGKs, connections>>
vars == <<asked, phase, edgeLabel, idsToProcess, processed, linksVars, graphVars>>

KindsOf(S) == {GK[x] : x \in S}

(* Every graph the reconcilers can have built: a set of pairs per label. *)
LinkSets == [Labels -> SUBSET MayLink]

Phases == {"offshoots",   \* the offshoot links around oid
           "links",       \* Links: the label asked about
           "labels",      \* resourceGraph: the labels of the request
           "done", "failed"}

TypeOK ==
    /\ g \in LinkSets
    /\ request \in {"Links", "ResourceGraph"}
    /\ oid \in OIDs
    /\ phase \in Phases
    /\ edgeLabel \in Labels
    /\ idsToProcess \in Seq(OIDs)
    /\ processed \subseteq OIDs
    /\ processedGK \subseteq KindsOf(OIDs)
    /\ result \subseteq OIDs
    /\ include \in Seq(Labels)
    /\ offshoots \subseteq OIDs
    /\ skipGKs \subseteq KindsOf(OIDs)
    /\ connections \subseteq MayLink \X Labels

(* Links searches a direct label from the object alone, any other one from *)
(* the object and everything connected to it by offshoot links.            *)
AskLinks ==
    /\ request = "Links"
    /\ edgeLabel \in Labels
    /\ phase = IF edgeLabel \in DirectLabels THEN "links" ELSE "offshoots"
    /\ include = <<>>

AskResourceGraph ==
    /\ request = "ResourceGraph"
    /\ edgeLabel = Offshoot
    /\ phase = "offshoots"
    /\ include \in SeqOf(Labels, MaxInclude)

Init ==
    /\ g \in LinkSets
    /\ oid \in OIDs
    /\ AskLinks \/ AskResourceGraph
    /\ idsToProcess = <<oid>>
    /\ processed = {}
    /\ processedGK = {}
    /\ result = {}
    /\ offshoots = {}
    /\ skipGKs = {}
    /\ connections = {}

AnyOrder(S) == SetToSeqs(S)

(* The keys of g.Edges[x][lbl]. *)
Neighbours(lbl, x) == {y \in OIDs : {x, y} \in g[lbl]}

(* The label of the running call of connectedOIDs. *)
Label == IF phase = "offshoots" THEN Offshoot ELSE edgeLabel

Searching(req) == request = req /\ phase \in {"offshoots", "links", "labels"}

-----------------------------------------------------------------------------
(* Variants of the steps below, each with a slip this code invites.        *)
FoundAnyLabel(x) ==     \* ranges over every label of g.Edges[x]
    {to \in UNION {Neighbours(lbl, x) : lbl \in Labels} :
        to \notin processed \cup {x} /\ GK[to] \notin processedGK}

VisitWithoutPop ==      \* idsToProcess[0] read, the slice not advanced
    /\ Searching("Links")
    /\ idsToProcess # <<>>
    /\ LET x == Head(idsToProcess)
           edges == {to \in Neighbours(Label, x) :
                        to \notin processed \cup {x} /\ GK[to] \notin processedGK}
       IN  /\ processed' = processed \cup {x}
           /\ processedGK' = processedGK \cup {GK[x]}
           /\ result' = result \cup edges
           /\ \E more \in AnyOrder(edges \ result) : idsToProcess' = idsToProcess \o more
    /\ UNCHANGED <<asked, phase, edgeLabel, graphVars>>

VisitOneHop ==          \* the ids found are not searched in turn
    /\ Searching("Links")
    /\ idsToProcess # <<>>
    /\ LET x == Head(idsToProcess)
       IN  /\ processed' = processed \cup {x}
           /\ processedGK' = processedGK \cup {GK[x]}
           /\ result' = result \cup (Neighbours(Label, x) \ processed)
           /\ idsToProcess' = Tail(idsToProcess)
    /\ UNCHANGED <<asked, phase, edgeLabel, graphVars>>

FollowedAlways(x) ==    \* connectedEdges without the skipGKs test
    Neighbours(edgeLabel, x)

-----------------------------------------------------------------------------
(* Links. *)

(* The ids one iteration takes from x's entries: not yet processed, and of *)
(* a kind none of whose objects has been processed before x.               *)
Found(x) ==
    {to \in Neighbours(Label, x) :
        to \notin processed \cup {x} /\ GK[to] \notin processedGK}

Visit ==
    /\ Searching("Links")
    /\ idsToProcess # <<>>
    /\ LET x == Head(idsToProcess)
           edges == Found(x)
       IN  /\ processed' = processed \cup {x}
           /\ processedGK' = processedGK \cup {GK[x]}
           /\ result' = result \cup edges
           /\ \E more \in AnyOrder(edges) : idsToProcess' = Tail(idsToProcess) \o more
    /\ UNCHANGED <<asked, phase, edgeLabel, graphVars>>

(* The offshoots without src become seeds of a second search. *)
StartLinks ==
    /\ Searching("Links")
    /\ phase = "offshoots"
    /\ idsToProcess = <<>>
    /\ phase' = "links"
    /\ \E seeds \in AnyOrder(result \ {oid}) : idsToProcess' = <<oid>> \o seeds
    /\ processed' = {}
    /\ processedGK' = {}
    /\ result' = {}
    /\ UNCHANGED <<asked, edgeLabel, graphVars>>

Return ==
    /\ phase = "links"
    /\ idsToProcess = <<>>
    /\ phase' = "done"
    /\ result' = result \ {oid}
    /\ UNCHANGED <<asked, edgeLabel, idsToProcess, processed, processedGK, graphVars>>

-----------------------------------------------------------------------------
(* resourceGraph. *)

(* The ids of x's entries that connectedEdges records and follows. *)
Followed(x) == {id \in Neighbours(edgeLabel, x) : GK[id] \notin skipGKs}

(* One iteration of connectedEdges.  An id is queued unless it has been    *)
(* processed, even if it is in the queue already.                          *)
ConnectVisit ==
    /\ Searching("ResourceGraph")
    /\ idsToProcess # <<>>
    /\ LET x == Head(idsToProcess)
           edges == Followed(x)
       IN  /\ processed' = processed \cup {x}
           /\ connections' = connections \cup {<<{x, id}, edgeLabel>> : id \in edges}
           /\ \E more \in AnyOrder(edges \ (processed \cup {x})) :
                 idsToProcess' = Tail(idsToProcess) \o more
    /\ UNCHANGED <<asked, phase, edgeLabel, linksVars, include, offshoots, skipGKs>>

(* The first call returns, and its kinds are skipped from now on. *)
OffshootsFound ==
    /\ Searching("ResourceGraph")
    /\ phase = "offshoots"
    /\ idsToProcess = <<>>
    /\ phase' = "labels"
    /\ offshoots' = processed
    /\ skipGKs' = KindsOf(processed)
    /\ UNCHANGED <<asked, edgeLabel, idsToProcess, processed, linksVars, include,
                   connections>>

(* The next label that is not direct: the direct ones are removed from the *)
(* request.                                                                *)
NextLabel ==
    /\ phase = "labels"
    /\ idsToProcess = <<>>
    /\ \E k \in DOMAIN include :
        /\ include[k] \notin DirectLabels
        /\ \A j \in 1 .. k - 1 : include[j] \in DirectLabels
        /\ edgeLabel' = include[k]
        /\ include' = SubSeq(include, k + 1, Len(include))
    /\ processed' = {}
    /\ \E seeds \in AnyOrder(offshoots) : idsToProcess' = seeds
    /\ UNCHANGED <<asked, phase, linksVars, offshoots, skipGKs, connections>>

EndKinds == UNION {KindsOf(c[1]) : c \in connections}

(* The response names the resource of every kind at the end of a           *)
(* connection; one kind without a REST mapping fails the whole request.    *)
Respond ==
    /\ phase = "labels"
    /\ idsToProcess = <<>>
    /\ ToSet(include) \subseteq DirectLabels
    /\ phase' = IF EndKinds \subseteq Mapped THEN "done" ELSE "failed"
    /\ UNCHANGED <<asked, edgeLabel, idsToProcess, processed, linksVars, graphVars>>

Next ==
    \/ Visit \/ StartLinks \/ Return
    \/ ConnectVisit \/ OffshootsFound \/ NextLabel \/ Respond

(* A goroutine that holds the lock is scheduled to the end of its loop. *)
Spec == Init /\ [][Next]_vars /\ WF_vars(Next)

-----------------------------------------------------------------------------
(* The graph as the properties read it. *)
Linked(lbl, x) == {y \in OIDs : {x, y} \in g[lbl]}

LinkedBy(lbl) == [x \in OIDs |-> Linked(lbl, x)]

(* The least set that contains seeds and is closed under step: what a      *)
(* search that follows step from the seeds has to visit, in any order.     *)
LeastClosed(seeds, step) ==
    {x \in OIDs : \A C \in SUBSET OIDs :
        (seeds \subseteq C /\ \A y \in C : step[y] \subseteq C) => x \in C}

(* What the offshoot links connect to oid, however far. *)
OffshootsOf == LeastClosed({oid}, LinkedBy(Offshoot))

(* The seeds a non-direct label may be searched from, at most. *)
SeedBound == IF edgeLabel \in DirectLabels THEN {oid} ELSE OffshootsOf

LinksDone == request = "Links" /\ phase = "done"

(* Links never returns the object itself, nor an object that no chain of   *)
(* links connects to it.                                                   *)
OnlyConnected ==
    LinksDone =>
        result \subseteq LeastClosed(SeedBound, LinkedBy(edgeLabel)) \ {oid}

(* What the links of a direct label connect to oid. *)
Reached == LeastClosed({oid}, LinkedBy(edgeLabel))

(* d gives the distance from oid: a link adds at most one to it, and every *)
(* other object has a neighbour that is nearer by one.                     *)
IsDistance(d) ==
    /\ d[oid] = 0
    /\ \A x \in DOMAIN d : \A y \in Linked(edgeLabel, x) : d[y] <= d[x] + 1
    /\ \A x \in DOMAIN d \ {oid} : \E y \in Linked(edgeLabel, x) : d[x] = d[y] + 1

(* Objects of one kind have one distance. *)
Layers(d) == IsDistance(d) /\ \A x, y \in DOMAIN d : GK[x] = GK[y] => d[x] = d[y]

KindLayered == \E d \in [Reached -> 0 .. Cardinality(Reached) - 1] : Layers(d)

(* What the kind filter of connectedOIDs cannot hide from the answer of    *)
(* Links, whatever the map order: an object directly linked to oid, since  *)
(* the filter is still empty when oid is processed; a kind altogether that *)
(* oid or an object of the answer is linked to, unless the search started  *)
(* from an object of that kind; and, for a direct label, any object at all *)
(* where every kind occurs at one distance from oid only, as in a chain of *)
(* owners, because the queue is first-in-first-out.  The kinds it started  *)
(* from do get lost: of pod1 - svc - pod2, Links(pod1) returns svc alone.  *)
NeighboursFound == Linked(edgeLabel, oid) \subseteq result

KindsFound ==
    \A x \in result \cup {oid} :
        KindsOf(Linked(edgeLabel, x)) \ KindsOf(SeedBound) \subseteq KindsOf(result)

ChainsFound ==
    (edgeLabel \in DirectLabels /\ KindLayered) => result = Reached \ {oid}

LinksComplete == LinksDone => NeighboursFound /\ KindsFound /\ ChainsFound

(* The edges that the search of lbl from all of the offshoots off records. *)
Extra(lbl, off) == [x \in OIDs |-> {y \in Linked(lbl, x) : GK[y] \notin KindsOf(off)}]

EdgesOf(lbl, off) ==
    UNION {{<<{x, y}, lbl>> : y \in Extra(lbl, off)[x]} : x \in LeastClosed(off, Extra(lbl, off))}

(* The offshoot edges around oid. *)
OwnEdges == {<<p, Offshoot>> : p \in {q \in g[Offshoot] : q \subseteq OffshootsOf}}

(* What the connections hold of a label. *)
Recorded(lbl) == {c \in connections : c[2] = lbl}

(* The connections of a ResourceGraph response do not depend on the order  *)
(* of any map iteration: after each call of connectedEdges they hold the   *)
(* offshoot edges around oid, no other edge of a direct label, and of each *)
(* other label either nothing or the edges of its search from all of the   *)
(* offshoots, no more and no fewer; the label just searched has them.      *)
ConnectionsExact ==
    (request = "ResourceGraph" /\ phase # "offshoots" /\ idsToProcess = <<>>) =>
        /\ Recorded(Offshoot) = OwnEdges
        /\ \A lbl \in DirectLabels \ {Offshoot} : Recorded(lbl) = {}
        /\ \A lbl \in Labels \ DirectLabels :
              (lbl = edgeLabel \/ Recorded(lbl) # {}) => Recorded(lbl) = EdgesOf(lbl, OffshootsOf)

(* Both searches end and release the read lock, although links run both    *)
(* ways and an id is queued once per link that finds it unprocessed.       *)
Terminates == <>(phase \in {"done", "failed"})
=============================================================================
