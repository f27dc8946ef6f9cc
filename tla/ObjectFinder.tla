---------------------------- MODULE ObjectFinder ----------------------------
(***************************************************************************)
(* The object finder of pkg/graph/lib.go: ResourcesFor follows one         *)
(* connection of a resource descriptor from an object of kind Src to those *)
(* of kind Dst (forward) or back, and List follows a path of them.  What   *)
(* JSON paths extract from an object is a field of its record; an absent   *)
(* value is an empty set, a present one a singleton.  Results are sets:    *)
(* neither their order nor a repetition is kept.                           *)
(***************************************************************************)
EXTENDS Naturals, FiniteSets, Sequences

CONSTANTS
    Clusters(_, _),  \* the sets of objects a query of a connection type can
                   \* meet, given the kinds that are namespaced
    Connections,   \* the connections a descriptor can declare
    Rename         \* name -> name: what NameTemplate makes of a name

ASSUME ConnectionsAssumption ==
    \A c \in Connections :
        c.type \in {"MatchSelector", "MatchName", "OwnedBy", "MatchRef"}

(* What the API server ensures: the objects of a namespaced kind, and no   *)
(* others, have a namespace; a reference with the UID of an object has its *)
(* kind and name.  And a field has one value at most.                      *)
Proper(objs, scope) ==
    \A o \in objs :
        /\ o.kind \in {"Src", "Dst"}
        /\ o.ns # "" <=> o.kind \in scope
        /\ o.kind = "Src" => o.name \in DOMAIN Rename
        /\ \A p, q \in o.nsPath : p = q
        /\ \A sel \in o.nsSelector : "" \notin sel.names
        /\ \A r \in o.owners, d \in objs : r.uid = d.uid => r.kind = d.kind /\ r.name = d.name

ASSUME ClustersAssumption ==
    \A c \in Connections, scope \in SUBSET {"Src", "Dst"} :
        \A objs \in Clusters(c.type, scope) : Proper(objs, scope)

VARIABLES
    world,         \* the objects; the cluster does not change meanwhile
    scoped,        \* kinds that are namespaced
    conn,          \* the connection
    origin,        \* the object List starts from
    path,          \* the edges List has still to follow, "forward", "backward"
    in,            \* the objects found so far
    outcome        \* "running", "found", "error"

findVars == <<world, scoped, conn, origin, path, in, outcome>>

AllNamespaces == ""

(* The API server: List in one or all namespaces, Get of one key.          *)
ListObjects(kind, ns) ==
    {o \in world: o.kind = kind /\ ns \in {AllNamespaces, o.ns}}
GetObject(kind, ns, name) ==
    {o \in world: o.kind = kind /\ o.name = name /\ o.ns = ns}
InScope(kind, ns) == IF kind \in scoped THEN ns ELSE ""

OK(S)    == [err |-> "none", objs |-> S]
NotFound == [err |-> "NotFound", objs |-> {}]
Error    == [err |-> "other", objs |-> {}]

(* A selector matches labels that include it; an absent one matches none.  *)
Matches(o, d) == \E sel \in o.selector, lbls \in d.labels: sel \subseteq lbls

IsControlledBy(obj, owner) == \E ref \in obj.owners: ref.controller /\ ref.uid = owner.uid
IsOwnedBy(obj, owner) == \E ref \in obj.owners: ref.uid = owner.uid

isConnected(obj, owner) ==
    CASE conn.level = "Controller" -> IsControlledBy(obj, owner)
      [] conn.level = "Owner"      -> IsOwnedBy(obj, owner)
      [] OTHER                     -> TRUE

(* Namespaces: where the objects of a source are looked for.  The names    *)
(* that a labelSelector yields are dropped, and with "any" in a namespace  *)
(* selector there is nowhere to look.                                      *)
Namespaces(o) ==
    CASE conn.namespace = "own"  -> {o.ns}
      [] conn.namespace = "path" -> o.nsPath
      [] conn.namespace = "selector" /\ o.nsSelector # {} ->
            LET sel == CHOOSE s \in o.nsSelector: TRUE
            IN  IF sel.names # {} THEN sel.names
                ELSE IF sel.any THEN {} ELSE {o.ns}
      [] OTHER -> {AllNamespaces}

-----------------------------------------------------------------------------
(* A slip this code invites, in selectSources below.                       *)
SelectorSources(d) ==       \* the source's namespaces are not looked at
    OK({s \in ListObjects("Src", InScope("Src",
                   IF conn.namespace = "own" THEN d.ns ELSE AllNamespaces)):
            Matches(s, d) /\ isConnected(d, s)})

-----------------------------------------------------------------------------
(* Forward. *)
selectTargets(s) ==
    OK({d \in UNION {ListObjects("Dst", InScope("Dst", ns)): ns \in Namespaces(s)}:
            Matches(s, d) /\ isConnected(d, s)})

(* One namespace without the object loses those of the others. *)
nameTargets(s) ==
    LET got == [ns \in Namespaces(s) |-> GetObject("Dst", InScope("Dst", ns), Rename[s.name])]
    IN  IF \E ns \in DOMAIN got: got[ns] = {} THEN NotFound
        ELSE OK({d \in UNION {got[ns]: ns \in DOMAIN got}: isConnected(d, s)})

(* Owners are looked up by name; the first that is gone ends the search.   *)
findOwners(s) ==
    LET refs == {r \in s.owners: r.kind = "Dst"}
        used == IF conn.level = "Controller" THEN {r \in refs: r.controller} ELSE refs
        got  == [r \in used |-> GetObject("Dst", InScope("Dst", s.ns), r.name)]
    IN  IF refs # {} /\ conn.level \notin {"Owner", "Controller"} THEN Error
        ELSE IF \E r \in used: got[r] = {} THEN NotFound
        ELSE OK(UNION {got[r]: r \in used})

(* The references that may name a target. *)
refsOf(s) == {r \in s.refs: r.kind \in {"", "Dst"}}

(* The target of a reference that is gone is skipped. *)
refTargets(s) ==
    LET refs == refsOf(s)
        NsOf(r) == IF r.ns # "" THEN r.ns ELSE s.ns
    IN  IF "Dst" \in scoped /\ \E r \in refs: NsOf(r) = "" THEN Error
        ELSE OK(UNION {{d \in GetObject("Dst", InScope("Dst", NsOf(r)), r.name):
                            isConnected(d, s)}: r \in refs})

(* Backward. *)
Home(d) == IF conn.namespace = "own" THEN d.ns ELSE AllNamespaces

selectSources(d) ==
    OK({s \in ListObjects("Src", InScope("Src", Home(d))):
            /\ conn.namespace \notin {"nil", "own"} =>
                  d.ns \in Namespaces(s) \/ Namespaces(s) = {AllNamespaces}
            /\ Matches(s, d)
            /\ isConnected(d, s)})

nameSources(d) ==
    LET names == {n \in DOMAIN Rename: Rename[n] = d.name}
        got == UNION {GetObject("Src", InScope("Src", Home(d)), n): n \in names}
    IN  IF names = {} THEN Error
        ELSE IF got = {} THEN NotFound
        ELSE OK({s \in got: isConnected(d, s)})

findChildren(d) ==
    IF conn.level \notin {"Owner", "Controller"} THEN Error
    ELSE OK({s \in ListObjects("Src", InScope("Src", d.ns)): isConnected(s, d)})

(* A reference without a namespace means the source's own, an error when   *)
(* that has none (unless one that matches is listed before it); one with a *)
(* namespace is taken whatever namespace it names.                         *)
refSources(d) ==
    LET sources == ListObjects("Src", InScope("Src", Home(d)))
        Bare(r) == r.ns = "" /\ "Dst" \in scoped
    IN  IF \E s \in sources: s.ns = "" /\ \E r \in refsOf(s): Bare(r) THEN Error
        ELSE OK({s \in sources:
                    /\ \E r \in refsOf(s): r.name = d.name /\ (Bare(r) => s.ns = d.ns)
                    /\ isConnected(d, s)})

ResourcesFor(o, forward) ==
    IF forward
    THEN CASE conn.type = "MatchSelector" -> selectTargets(o)
           [] conn.type = "MatchName"     -> nameTargets(o)
           [] conn.type = "OwnedBy"       -> findOwners(o)
           [] conn.type = "MatchRef"      -> refTargets(o)
    ELSE CASE conn.type = "MatchSelector" -> selectSources(o)
           [] conn.type = "MatchName"     -> nameSources(o)
           [] conn.type = "OwnedBy"       -> findChildren(o)
           [] conn.type = "MatchRef"      -> refSources(o)

-----------------------------------------------------------------------------
(* List from an object along a path, as Locate builds it: each edge is     *)
(* taken forward from its source and backward from its target.             *)
FindInit ==
    /\ scoped \in SUBSET {"Src", "Dst"}
    /\ conn \in Connections
    /\ world \in Clusters(conn.type, scoped)
    /\ origin \in world
    /\ path = IF origin.kind = "Src" THEN <<"forward", "backward">>
              ELSE <<"backward", "forward">>
    /\ in = {origin}
    /\ outcome = "running"

(* One edge of List: NotFound counts as no object, another error ends it.  *)
Follow ==
    /\ outcome = "running"
    /\ path # <<>>
    /\ LET got == [o \in in |-> ResourcesFor(o, Head(path) = "forward")]
       IN  IF \E o \in in: got[o].err = "other"
           THEN outcome' = "error" /\ in' = {}
           ELSE /\ in' = UNION {got[o].objs: o \in in}
                /\ outcome' = IF Len(path) = 1 THEN "found" ELSE "running"
    /\ path' = Tail(path)
    /\ UNCHANGED <<world, scoped, conn, origin>>

FindSpec == FindInit /\ [][Follow]_findVars

-----------------------------------------------------------------------------
(* Where the two directions are written to agree.  Not so: a name that is  *)
(* looked up with no regard for the source's namespaces; the namespaces    *)
(* that a source of cluster-scoped targets names; an owner replaced by one *)
(* of the same name; a reference into another namespace.                    *)
TwoWay ==
    CASE conn.type = "MatchName" ->
            conn.namespace = "own" \/ (conn.namespace = "nil" /\ "Src" \notin scoped)
      [] conn.type = "MatchSelector" ->
            "Dst" \in scoped \/ conn.namespace \in {"nil", "own"}
      [] conn.type = "OwnedBy" ->
            \A s, d \in world: \A r \in s.owners:
                (d.kind = "Dst" /\ r.name = d.name) => r.uid = d.uid
      [] conn.type = "MatchRef" ->
            \A s \in world: \A r \in s.refs:
                /\ origin.kind = "Dst" => r.ns \in {"", origin.ns}
                /\ conn.namespace = "own" => r.ns \in {"", s.ns}

(* Going along a connection and back leads to the object it started from,  *)
(* whichever end that is: an object that ui-server shows as connected to   *)
(* another shows the other in turn.                                        *)
ComesBack ==
    (Len(path) = 1 /\ TwoWay) =>
        \A o \in in:
            LET back == ResourcesFor(o, Head(path) = "forward")
            IN  back.err = "none" => origin \in back.objs

(* What the comment on Namespaces says of its answer, "len([]string) == 0  *)
(* && err == nil => all namespaces": a source with an empty list finds the *)
(* targets its selector matches, in whichever namespace they are.          *)
EmptyMeansAll ==
    (/\ Len(path) = 1
     /\ origin.kind = "Src"
     /\ conn.type = "MatchSelector" /\ "Dst" \in scoped
     /\ Namespaces(origin) = {})
    => {d \in world: d.kind = "Dst" /\ Matches(origin, d) /\ isConnected(d, origin)} \subseteq in
=============================================================================
