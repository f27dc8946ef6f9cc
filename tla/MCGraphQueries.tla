--------------------------- MODULE MCGraphQueries ---------------------------
(* Searches: four objects of three kinds; as in the shipped descriptors,   *)
(* no object links to one of its own kind.  Finder: one or two sources and *)
(* two targets, by name and namespace, with what the connection reads.     *)
EXTENDS GraphQueries

CONSTANTS db, svc, pod1, pod2, offshoot, exposed_by

MCGK ==
    [x \in OIDs |-> CASE x = db -> "Database"
                      [] x = svc -> "Service"
                      [] OTHER -> "Pod"]

CrossKind == {p \in SUBSET OIDs : Cardinality(p) = 2 /\ Cardinality({MCGK[x] : x \in p}) = 2}

(* The database and its service share a name. *)
MCRef == [x \in OIDs |-> CASE x = pod1 -> "p1" [] x = pod2 -> "p2" [] OTHER -> "db"]
MCKindRank == [k \in {"Database", "Pod", "Service"} |-> CASE k = "Database" -> 1 [] k = "Pod" -> 2 [] OTHER -> 3]
MCViolations ==
    {[kind |-> MCGK[x], ref |-> MCRef[x]] : x \in OIDs} \cup {[kind |-> "Secret", ref |-> "db"]}

MCRename == [n \in {"a", "b"} |-> IF n = "a" THEN "b" ELSE "c"]

Obj(kind, ns, name, uid) ==
    [kind |-> kind, ns |-> ns, name |-> name, uid |-> uid, labels |-> {{}}, owners |-> {},
     selector |-> {}, nsPath |-> {}, nsSelector |-> {}, refs |-> {}]

Plain(kind, scope, names) ==
    {Obj(kind, ns, name, <<kind, name>>) :
        ns \in (IF kind \in scope THEN {"n1", "n2"} ELSE {""}), name \in names}

(* What distinguishes sources and targets, per type of connection. *)
Sources(type, scope) ==
    CASE type = "MatchSelector" ->
            {[o EXCEPT !.selector = s, !.nsPath = p, !.nsSelector = q] :
                o \in Plain("Src", scope, {"a"}), s \in {{}, {{"x"}}}, p \in {{}, {"n2"}},
                q \in {{}, {[any |-> TRUE, names |-> {}]}, {[any |-> FALSE, names |-> {}]},
                       {[any |-> FALSE, names |-> {"n1", "n2"}]}}}
      [] type = "MatchName" ->
            {[o EXCEPT !.nsSelector = q] : o \in Plain("Src", scope, {"a", "b"}),
                q \in {{}, {[any |-> FALSE, names |-> {"n1", "n2"}]}}}
      [] type = "OwnedBy" ->
            {[o EXCEPT !.owners = w] : o \in Plain("Src", scope, {"a", "b"}),
                w \in SUBSET {[kind |-> "Dst", name |-> "b", uid |-> <<"Dst", "b">>, controller |-> TRUE],
                              [kind |-> "Dst", name |-> "c", uid |-> <<"Dst", "c">>, controller |-> FALSE]}}
      [] type = "MatchRef" ->
            {[o EXCEPT !.refs = r] : o \in Plain("Src", scope, {"a"}),
                r \in SUBSET {[kind |-> "", ns |-> "", name |-> "b"],
                              [kind |-> "Dst", ns |-> "n2", name |-> "b"],
                              [kind |-> "Pod", ns |-> "", name |-> "c"]}}
Targets(type, scope) ==
    CASE type = "MatchSelector" ->
            {[o EXCEPT !.labels = l, !.owners = w] : o \in Plain("Dst", scope, {"b"}), l \in {{}, {{"x"}}},
                w \in {{}, {[kind |-> "Src", name |-> "a", uid |-> <<"Src", "a">>, controller |-> TRUE]}}}
      [] type = "OwnedBy" ->
            Plain("Dst", scope, {"b", "c"}) \cup {[o EXCEPT !.uid = <<"Dst", "new">>] : o \in Plain("Dst", scope, {"b"})}
      [] OTHER -> Plain("Dst", scope, {"b", "c"})

MCConnections ==
    [type : {"MatchSelector"}, level : {"", "Owner"},
     namespace : {"nil", "own", "path", "selector", "labelSelector"}]
    \cup [type : {"MatchName"}, level : {""},
     namespace : {"nil", "own", "path", "selector", "labelSelector"}]
    \cup [type : {"OwnedBy"}, level : {"", "Owner", "Controller"}, namespace : {"nil"}]
    \cup [type : {"MatchRef"}, level : {""}, namespace : {"nil", "own"}]

UpToTwo(S) ==
    {T \in {{x, y} : x \in S, y \in S} :
        \A x, y \in T : (x.ns = y.ns /\ x.name = y.name) => x = y}
MCClusters(type, scope) ==
    {T \cup U : T \in (IF type = "MatchRef" THEN UpToTwo(Sources(type, scope))
                  ELSE {{x} : x \in Sources(type, scope)}), U \in UpToTwo(Targets(type, scope))}
=============================================================================
