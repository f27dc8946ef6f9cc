---------------------------- MODULE ObjectGraph ----------------------------
(***************************************************************************)
(* The in-memory object graph of pkg/graph/graph.go: type ObjectGraph and  *)
(* its two mutators, Update and Delete.  Both run under the write lock of  *)
(* g.m, so each is one atomic step; the readers (Links, Render,            *)
(* ResourceGraph) hold the read lock and see the state between two steps.  *)
(*                                                                         *)
(* g.Edges is a map oid -> label -> oid -> bool.  The bool is TRUE on the  *)
(* side of the object whose reconciler declared the link ("self link") and *)
(* FALSE on the other side.  A missing key, a nil inner map and an empty   *)
(* inner map are one state, Absent: no reader tells them apart.            *)
(***************************************************************************)
EXTENDS FiniteSets

CONSTANTS
    OIDs,      \* object identifiers: group, kind, namespace and name
    Labels,    \* edge labels
    Linkable   \* <<src, lbl, to>>: src's descriptor can declare lbl towards to

ASSUME LinkableAssumption == Linkable \subseteq OIDs \X Labels \X OIDs

VARIABLES
    Edges,     \* Edges[src][lbl][to]: the entry of to in g.Edges[src][lbl]
    IDs        \* IDs[src][lbl]: what the last Update of src declared

vars == <<Edges, IDs>>

Absent == "absent"     \* no such key
Owned  == "owned"      \* the bool is TRUE: src declared the link
Mirror == "mirror"     \* the bool is FALSE: the other side declared it

NoConns == [lbl \in Labels |-> {}]

(* What a reconciler of src can hand to Update. *)
Conns(src) ==
    {conns \in [Labels -> SUBSET OIDs] :
        \A lbl \in Labels : \A to \in conns[lbl] : <<src, lbl, to>> \in Linkable}

TypeOK ==
    /\ Edges \in [OIDs -> [Labels -> [OIDs -> {Absent, Owned, Mirror}]]]
    /\ IDs \in [OIDs -> [Labels -> SUBSET OIDs]]

Init ==
    /\ Edges = [x \in OIDs |-> [lbl \in Labels |-> [y \in OIDs |-> Absent]]]
    /\ IDs = [src \in OIDs |-> NoConns]

-----------------------------------------------------------------------------
(* Variants of the operations below, each with a slip this code invites.   *)
UnlinkedOneSide(src) ==     \* the commented-out delete without delEdge
    [x \in OIDs |-> [lbl \in Labels |-> [y \in OIDs |->
        IF x = src /\ Edges[x][lbl][y] = Owned THEN Absent ELSE Edges[x][lbl][y]]]]

UnlinkedAll(src) ==         \* without the srcLink test
    [x \in OIDs |-> [lbl \in Labels |-> [y \in OIDs |->
        IF x = src \/ y = src THEN Absent ELSE Edges[x][lbl][y]]]]

NotUnlinked(src) == Edges   \* without the first loop

LinkedBothOwned(g, src, conns) ==   \* setEdge(to, src, lbl, true)
    [x \in OIDs |-> [lbl \in Labels |-> [y \in OIDs |->
        IF \/ y = src /\ x \in conns[lbl]
           \/ x = src /\ y \in conns[lbl]
        THEN Owned
        ELSE g[x][lbl][y]]]]

DeleteNilIDs(src) ==        \* IDs[src] left as a map without labels
    /\ Edges' = [x \in OIDs |-> [lbl \in Labels |-> [y \in OIDs |->
                    IF x = src \/ y = src THEN Absent ELSE Edges[x][lbl][y]]]]
    /\ IDs' = [IDs EXCEPT ![src] = [lbl \in {} |-> {}]]

-----------------------------------------------------------------------------
(* The graph left by the first loop of Update: every link src itself       *)
(* declared is removed from both sides.                                    *)
Unlinked(src) ==
    [x \in OIDs |-> [lbl \in Labels |-> [y \in OIDs |->
        IF \/ x = src /\ Edges[x][lbl][y] = Owned
           \/ y = src /\ Edges[src][lbl][x] = Owned
        THEN Absent
        ELSE Edges[x][lbl][y]]]]

(* The second loop of Update: setEdge(src, to, TRUE) and then              *)
(* setEdge(to, src, FALSE) for every declared target.  A self-reference is *)
(* written twice, and the second write, FALSE, stays.                      *)
Linked(g, src, conns) ==
    [x \in OIDs |-> [lbl \in Labels |-> [y \in OIDs |->
        IF y = src /\ x \in conns[lbl] THEN Mirror
        ELSE IF x = src /\ y \in conns[lbl] THEN Owned
        ELSE g[x][lbl][y]]]]

Update(src, conns) ==
    /\ Edges' = Linked(Unlinked(src), src, conns)
    /\ IDs' = [IDs EXCEPT ![src] = conns]

(* Delete walks src's own entries only: an entry of src in another         *)
(* object's map goes when src's map names that object.                     *)
Delete(src) ==
    /\ Edges' = [x \in OIDs |-> [lbl \in Labels |-> [y \in OIDs |->
                    IF \/ x = src
                       \/ y = src /\ Edges[src][lbl][x] # Absent
                    THEN Absent
                    ELSE Edges[x][lbl][y]]]]
    /\ IDs' = [IDs EXCEPT ![src] = NoConns]

Next ==
    \E src \in OIDs :
        \/ \E conns \in Conns(src) : Update(src, conns)
        \/ Delete(src)

Spec == Init /\ [][Next]_vars

-----------------------------------------------------------------------------
(* graph.go keeps two entries per link, written and erased by separate     *)
(* calls of setEdge and delEdge.  An entry on one side without the other   *)
(* would make a traversal depend on the end it starts from, and Delete,    *)
(* which finds the other side through src's own map, would leave it behind.*)
EdgesPaired ==
    \A x, y \in OIDs, lbl \in Labels :
        Edges[x][lbl][y] = Absent <=> Edges[y][lbl][x] = Absent

(* A link between two objects has exactly one declaring side, the one whose*)
(* next Update withdraws it.  With two, a withdrawal by one would erase    *)
(* what the other still declares as its own; with none, no Update could    *)
(* ever withdraw it.                                                       *)
OneDeclarer ==
    \A x, y \in OIDs, lbl \in Labels :
        x # y => (Edges[x][lbl][y] = Owned <=> Edges[y][lbl][x] = Mirror)

(* Every link in the graph is in the last declaration of its declaring     *)
(* side: no Update leaves a link of an earlier one behind.                 *)
OwnedIsDeclared ==
    \A x, y \in OIDs, lbl \in Labels :
        Edges[x][lbl][y] = Owned => y \in IDs[x][lbl]

(* Once Delete(src) has returned, src is unreachable and reaches nothing.  *)
DeleteIsolates ==
    [][\A src \in OIDs :
        Delete(src) => \A lbl \in Labels, y \in OIDs :
                          /\ Edges'[src][lbl][y] = Absent
                          /\ Edges'[y][lbl][src] = Absent]_vars

(* An Update of src never touches a link between two other objects, nor    *)
(* one that another object declared and src does not declare now.          *)
UpdateIsLocal ==
    [][\A src \in OIDs : \A conns \in Conns(src) :
        Update(src, conns) =>
            \A x, y \in OIDs, lbl \in Labels :
                (/\ Edges[x][lbl][y] = Owned
                 /\ x # src
                 /\ y = src => x \notin conns[lbl])
                => Edges'[x][lbl][y] = Owned]_vars

-----------------------------------------------------------------------------
(* What the embedded resource descriptors guarantee and graph.go relies    *)
(* on: no label is declared in both directions between two objects, and    *)
(* none from an object to itself.                                          *)
OneWayDescriptors ==
    \A x, y \in OIDs, lbl \in Labels :
        <<x, lbl, y>> \in Linkable => <<y, lbl, x>> \notin Linkable

(* The links of the graph as a set, each from its declaring side: the      *)
(* refinement mapping to LinkTable.                                        *)
OwnedLinks ==
    {e \in OIDs \X Labels \X OIDs : Edges[e[1]][e[2]][e[3]] = Owned}

Table == INSTANCE LinkTable WITH links <- OwnedLinks, declared <- IDs

(* With one-way descriptors the two-sided map behaves as a plain set of    *)
(* declared links: Update replaces src's links, Delete removes every link  *)
(* at src, and nothing else changes.                                       *)
ImplementsLinkTable == Table!Spec
=============================================================================
