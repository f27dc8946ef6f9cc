---------------------------- MODULE PolicyReport ----------------------------
(***************************************************************************)
(* The PolicyReport storage (pkg/registry/policy/reports/storage.go): of   *)
(* the violations that Gatekeeper lists per constraint, those of the       *)
(* cluster, of a namespace, or of the objects that a ResourceGraph         *)
(* response (GraphSearch) connects to the object asked about.  Violations  *)
(* are matched to the response by the index of their kind in its list of   *)
(* resources, and by namespace and name.                                   *)
(***************************************************************************)
EXTENDS GraphSearch, Naturals

CONSTANTS
    Ref,         \* Ref[x]: namespace and name of x, which kinds may share
    KindRank,    \* KindRank[k]: the place of k in the order of GroupKind.List
    Violations   \* the violations there can be: [kind, ref]

ASSUME RefAssumption == DOMAIN Ref = OIDs
ASSUME KindRankAssumption ==
    /\ KindRank \in [KindsOf(OIDs) -> Nat]
    /\ \A k, l \in KindsOf(OIDs) : KindRank[k] = KindRank[l] => k = l

(* sort.Search of the Go library: the least index in 0 .. n at which f     *)
(* holds, provided f stays true from there on.                             *)
SortSearch(n, f) ==
    LET go[w \in (0 .. n) \X (0 .. n)] ==
            LET h == (w[1] + w[2]) \div 2
            IN  IF w[1] >= w[2] THEN w[1]
                ELSE IF f[h] THEN go[<<w[1], h>>] ELSE go[<<h + 1, w[2]>>]
    IN  go[<<0, n>>]

(* Index of a kind in the response's resources, which are in the order of  *)
(* their kinds, counted from 0.                                            *)
ResourceID(kind) == Cardinality({k \in EndKinds : KindRank[k] < KindRank[kind]})

KindsIn(vs) == {v.kind : v \in vs}

(* A slip this code invites: index 0 is taken for "not there". *)
preprocessNonZero(vs) ==
    [k \in {kind \in KindsIn(vs) \cap EndKinds : ResourceID(kind) > 0} |-> ResourceID(k)]

(* gvkToResourceIDMap: the violated kinds that the response has. *)
preprocess(vs) == [k \in KindsIn(vs) \cap EndKinds |-> ResourceID(k)]

(* sort.Ints of ids without repetition. *)
SortInts(S) ==
    CHOOSE s \in [1 .. Cardinality(S) -> S] : \A i, j \in DOMAIN s : i < j => s[i] < s[j]

(* The needed ids in order; each end of a connection is searched among     *)
(* them with a predicate that holds at one index only.                     *)
IsNeeded(id, needed) ==
    LET at == [i \in 0 .. Len(needed) - 1 |-> needed[i + 1] = id]
        i == SortSearch(Len(needed), at)
    IN  i < Len(needed) /\ at[i]

buildMapFromConnections(needed) ==
    [id \in 0 .. needed[Len(needed)] |->
        {Ref[x] : x \in {y \in UNION {c[1] : c \in connections} :
                            ResourceID(GK[y]) = id /\ IsNeeded(id, needed)}}]

(* A kind that the response has not is looked up as index 0. *)
evaluateForSingleConstraint(vs) ==
    LET ids == preprocess(vs)
        idToMeta == buildMapFromConnections(SortInts({ids[k] : k \in DOMAIN ids}))
    IN  IF ids = << >> THEN {}
        ELSE {v \in vs : v.ref \in idToMeta[IF v.kind \in DOMAIN ids THEN ids[v.kind] ELSE 0]}

-----------------------------------------------------------------------------
Of(v, S) == \E x \in S : GK[x] = v.kind /\ Ref[x] = v.ref

(* A report about an object lists only violations of what the search has   *)
(* connected to it, by namespace and name; and where a constraint is       *)
(* violated by objects of one kind of the graph only, it lists those of    *)
(* all of the object's offshoots, and of no object of another kind that    *)
(* happens to have the name.  With several kinds it promises less: the     *)
(* search above finds some of the needed ids, and never the first of two   *)
(* or more; and a kind outside of the graph takes the names of index 0.    *)
ViolationsReported ==
    (request = "ResourceGraph" /\ phase = "done") =>
        \A vs \in SUBSET Violations :
            LET reported == evaluateForSingleConstraint(vs)
                ends == UNION {c[1] : c \in connections}
            IN  /\ \A v \in reported : \E x \in ends : Ref[x] = v.ref
                /\ (KindsIn(vs) \subseteq EndKinds /\ Cardinality(KindsIn(vs)) = 1) =>
                      /\ \A v \in reported : Of(v, ends)
                      /\ OffshootsOf # {oid} =>
                            {v \in vs : Of(v, OffshootsOf)} \subseteq reported
=============================================================================
