------------------------- MODULE ObjectFinderProofs -------------------------
(***************************************************************************)
(* A proof about ObjectFinder, for every cluster and every connection.     *)
(***************************************************************************)
EXTENDS ObjectFinder, TLAPS

WorldOK == Proper(world, scoped)

(* What List has found after the first edge of its path. *)
FirstEdge(fwd) == in \subseteq ResourcesFor(origin, fwd).objs

FindInv ==
    /\ WorldOK
    /\ origin \in world
    /\ conn.type \in {"MatchSelector", "MatchName", "OwnedBy", "MatchRef"}
    /\ \/ in = {origin} /\ origin.kind = "Src" /\ path = <<"forward", "backward">>
       \/ in = {origin} /\ origin.kind = "Dst" /\ path = <<"backward", "forward">>
       \/ FirstEdge(TRUE) /\ origin.kind = "Src" /\ path = <<"backward">>
       \/ FirstEdge(FALSE) /\ origin.kind = "Dst" /\ path = <<"forward">>
       \/ path = <<>>
-----------------------------------------------------------------------------
(* Each way and back, for the four types of connection *)
LEMMA OKFacts ==
    /\ \A S : OK(S).objs = S /\ OK(S).err = "none"
    /\ NotFound.objs = {} /\ NotFound.err # "none"
    /\ Error.objs = {} /\ Error.err # "none"
BY DEF OK, NotFound, Error

(* Where a source looks: everywhere, or in namespaces that have a name. *)
LEMMA NamespacesFacts ==
    ASSUME WorldOK, NEW s \in world
    PROVE  /\ "" \in Namespaces(s) => Namespaces(s) = {""}
           /\ conn.namespace = "own" => Namespaces(s) = {s.ns}
           /\ conn.namespace = "nil" => Namespaces(s) = {""}
<1>1. CASE conn.namespace = "own"
  <2>1. Namespaces(s) = {s.ns}
    BY <1>1 DEF Namespaces
  <2> QED
    BY <1>1, <2>1
<1>2. CASE conn.namespace = "path"
  <2>1. Namespaces(s) = s.nsPath
    BY <1>2 DEF Namespaces
  <2>2. \A p, q \in s.nsPath : p = q
    BY DEF WorldOK, Proper
  <2>3. "" \in s.nsPath => s.nsPath = {""}
    BY <2>2
  <2> QED
    BY <1>2, <2>1, <2>3
<1>3. CASE conn.namespace = "selector" /\ s.nsSelector # {}
  <2> DEFINE sel == CHOOSE z \in s.nsSelector : TRUE
  <2>1. sel \in s.nsSelector
    BY <1>3
  <2>2. "" \notin sel.names
    BY <2>1 DEF WorldOK, Proper
  <2>3. Namespaces(s) = IF sel.names # {} THEN sel.names ELSE IF sel.any THEN {} ELSE {s.ns}
    BY <1>3 DEF Namespaces
  <2> HIDE DEF sel
  <2> QED
    BY <1>3, <2>2, <2>3
<1>4. CASE /\ conn.namespace \notin {"own", "path"}
           /\ ~ (conn.namespace = "selector" /\ s.nsSelector # {})
  <2>1. Namespaces(s) = {""}
    BY <1>4 DEF Namespaces, AllNamespaces
  <2> QED
    BY <1>4, <2>1
<1> QED
  BY <1>1, <1>2, <1>3, <1>4

LEMMA SelectThere ==
    ASSUME WorldOK, conn.type = "MatchSelector", TwoWay,
           NEW s \in world, s.kind = "Src", NEW d \in selectTargets(s).objs
    PROVE  s \in selectSources(d).objs
<1>1. PICK ns \in Namespaces(s) : d \in ListObjects("Dst", InScope("Dst", ns))
  BY OKFacts DEF selectTargets
<1>2. Matches(s, d) /\ isConnected(d, s)
  BY OKFacts DEF selectTargets
<1>3. d \in world /\ d.kind = "Dst" /\ ("Dst" \in scoped => ns \in {"", d.ns})
  BY <1>1 DEF ListObjects, InScope, AllNamespaces
<1>4. "Dst" \in scoped \/ conn.namespace \in {"nil", "own"}
  BY DEF TwoWay
<1>5. s \in ListObjects("Src", InScope("Src", Home(d)))
  <2>1. CASE conn.namespace = "own" /\ "Src" \in scoped
    <3>1. Namespaces(s) = {s.ns} /\ s.ns # "" /\ Home(d) = d.ns /\ (d.ns # "" <=> "Dst" \in scoped)
      BY <1>3, <2>1, NamespacesFacts DEF WorldOK, Proper, Home
    <3> QED
      BY <1>1, <1>3, <3>1 DEF ListObjects, InScope, AllNamespaces
  <2>2. CASE conn.namespace # "own" \/ "Src" \notin scoped
    BY <2>2 DEF ListObjects, InScope, AllNamespaces, Home
  <2> QED
    BY <2>1, <2>2
<1>6. conn.namespace \notin {"nil", "own"} =>
        d.ns \in Namespaces(s) \/ Namespaces(s) = {AllNamespaces}
  BY <1>1, <1>3, <1>4, NamespacesFacts DEF AllNamespaces
<1> QED
  BY <1>2, <1>5, <1>6, OKFacts DEF selectSources

LEMMA SelectBack ==
    ASSUME WorldOK, conn.type = "MatchSelector", TwoWay,
           NEW d \in world, d.kind = "Dst", NEW s \in selectSources(d).objs
    PROVE  d \in selectTargets(s).objs
<1>1. s \in ListObjects("Src", InScope("Src", Home(d))) /\ Matches(s, d) /\ isConnected(d, s)
  BY OKFacts DEF selectSources
<1>2. conn.namespace \notin {"nil", "own"} =>
        d.ns \in Namespaces(s) \/ Namespaces(s) = {AllNamespaces}
  BY OKFacts DEF selectSources
<1>3. s \in world /\ s.kind = "Src"
  BY <1>1 DEF ListObjects
<1>4. "Dst" \in scoped \/ conn.namespace \in {"nil", "own"}
  BY DEF TwoWay
<1>5. \E ns \in Namespaces(s) : d \in ListObjects("Dst", InScope("Dst", ns))
  <2>1. CASE conn.namespace = "own"
    <3>1. Namespaces(s) = {s.ns} /\ Home(d) = d.ns
      BY <1>3, <2>1, NamespacesFacts DEF Home
    <3>2. (s.ns # "" <=> "Src" \in scoped) /\ (d.ns # "" <=> "Dst" \in scoped)
      BY <1>3 DEF WorldOK, Proper
    <3>3. d \in ListObjects("Dst", InScope("Dst", s.ns))
      BY <1>1, <3>1, <3>2 DEF ListObjects, InScope, AllNamespaces
    <3> QED
      BY <3>1, <3>3
  <2>2. CASE conn.namespace = "nil"
    <3>1. Namespaces(s) = {""}
      BY <1>3, <2>2, NamespacesFacts
    <3>2. d \in ListObjects("Dst", InScope("Dst", ""))
      BY DEF ListObjects, InScope, AllNamespaces
    <3> QED
      BY <3>1, <3>2
  <2>3. CASE conn.namespace \notin {"nil", "own"}
    <3>1. d.ns \in Namespaces(s) \/ "" \in Namespaces(s)
      BY <1>2, <2>3 DEF AllNamespaces
    <3>2. d \in ListObjects("Dst", InScope("Dst", d.ns)) /\ d \in ListObjects("Dst", InScope("Dst", ""))
      BY DEF ListObjects, InScope, AllNamespaces
    <3> QED
      BY <3>1, <3>2
  <2> QED
    BY <2>1, <2>2, <2>3
<1> QED
  BY <1>1, <1>5, OKFacts DEF selectTargets

LEMMA NameThere ==
    ASSUME WorldOK, conn.type = "MatchName", TwoWay,
           NEW s \in world, s.kind = "Src", NEW d \in nameTargets(s).objs,
           nameSources(d).err = "none"
    PROVE  s \in nameSources(d).objs
<1> DEFINE got == [ns \in Namespaces(s) |-> GetObject("Dst", InScope("Dst", ns), Rename[s.name])]
           names == {n \in DOMAIN Rename : Rename[n] = d.name}
           back == UNION {GetObject("Src", InScope("Src", Home(d)), n) : n \in names}
<1>1. nameTargets(s) = OK({e \in UNION {got[ns] : ns \in DOMAIN got} : isConnected(e, s)})
  BY OKFacts DEF nameTargets
<1>2. d \in UNION {got[ns] : ns \in DOMAIN got} /\ isConnected(d, s)
  BY <1>1, OKFacts
<1>3. PICK ns \in Namespaces(s) : d \in GetObject("Dst", InScope("Dst", ns), Rename[s.name])
  BY <1>2
<1>4. d \in world /\ d.kind = "Dst" /\ d.name = Rename[s.name] /\ d.ns = InScope("Dst", ns)
  BY <1>3 DEF GetObject
<1>5. nameSources(d) = OK({e \in back : isConnected(d, e)}) /\ back # {}
  BY OKFacts DEF nameSources
<1>6. conn.namespace = "own" \/ (conn.namespace = "nil" /\ "Src" \notin scoped)
  BY DEF TwoWay
<1>7. s.name \in names
  BY <1>4 DEF WorldOK, Proper
<1>8. (s.ns # "" <=> "Src" \in scoped) /\ (d.ns # "" <=> "Dst" \in scoped)
  BY <1>4 DEF WorldOK, Proper
<1>9. s.ns = InScope("Src", Home(d))
  <2>1. CASE "Src" \notin scoped
    BY <1>8, <2>1 DEF InScope
  <2>2. CASE "Src" \in scoped
    <3>1. ns = s.ns /\ Home(d) = d.ns /\ InScope("Src", Home(d)) = d.ns
      BY <1>3, <1>6, <2>2, NamespacesFacts DEF Home, InScope
    <3>2. d.ns # ""
      <4>1. PICK e \in world : e.kind = "Src" /\ e.ns = d.ns
        BY <1>5, <3>1 DEF GetObject
      <4> QED
        BY <2>2, <4>1 DEF WorldOK, Proper
    <3> QED
      BY <1>4, <1>8, <3>1, <3>2 DEF InScope
  <2> QED
    BY <2>1, <2>2
<1>10. s \in back
  BY <1>7, <1>9 DEF GetObject
<1> QED
  BY <1>2, <1>5, <1>10, OKFacts

LEMMA NameBack ==
    ASSUME WorldOK, conn.type = "MatchName", TwoWay,
           NEW d \in world, d.kind = "Dst", NEW s \in nameSources(d).objs,
           nameTargets(s).err = "none"
    PROVE  d \in nameTargets(s).objs
<1> DEFINE got == [ns \in Namespaces(s) |-> GetObject("Dst", InScope("Dst", ns), Rename[s.name])]
           names == {n \in DOMAIN Rename : Rename[n] = d.name}
           back == UNION {GetObject("Src", InScope("Src", Home(d)), n) : n \in names}
<1>1. nameSources(d) = OK({e \in back : isConnected(d, e)})
  BY OKFacts DEF nameSources
<1>2. s \in back /\ isConnected(d, s)
  BY <1>1, OKFacts
<1>3. PICK n \in names : s \in GetObject("Src", InScope("Src", Home(d)), n)
  BY <1>2
<1>4. /\ s \in world /\ s.kind = "Src" /\ Rename[s.name] = d.name
      /\ s.ns = InScope("Src", Home(d))
  BY <1>3 DEF GetObject
<1>5. /\ \A ns \in Namespaces(s) : GetObject("Dst", InScope("Dst", ns), d.name) # {}
      /\ nameTargets(s) = OK({e \in UNION {got[ns] : ns \in DOMAIN got} : isConnected(e, s)})
  BY <1>4, OKFacts DEF nameTargets
<1>6. conn.namespace = "own" \/ (conn.namespace = "nil" /\ "Src" \notin scoped)
  BY DEF TwoWay
<1>7. (s.ns # "" <=> "Src" \in scoped) /\ (d.ns # "" <=> "Dst" \in scoped)
  BY <1>4 DEF WorldOK, Proper
<1>8. s.ns \in Namespaces(s)
  BY <1>4, <1>6, <1>7, NamespacesFacts
<1>9. d.ns = InScope("Dst", s.ns)
  <2>1. CASE "Dst" \notin scoped
    BY <1>7, <2>1 DEF InScope
  <2>2. CASE "Dst" \in scoped
    <3>1. PICK e \in world : e.kind = "Dst" /\ e.ns = s.ns
      BY <1>5, <1>8, <2>2 DEF GetObject, InScope
    <3>2. s.ns # ""
      BY <2>2, <3>1 DEF WorldOK, Proper
    <3> QED
      BY <1>4, <1>6, <1>7, <2>2, <3>2 DEF InScope, Home
  <2> QED
    BY <2>1, <2>2
<1>10. d \in got[s.ns]
  BY <1>4, <1>8, <1>9 DEF GetObject
<1>11. d \in UNION {got[ns] : ns \in DOMAIN got}
  BY <1>8, <1>10
<1> QED
  BY <1>2, <1>5, <1>11, OKFacts

LEMMA OwnerThere ==
    ASSUME WorldOK, conn.type = "OwnedBy", TwoWay,
           NEW s \in world, s.kind = "Src", NEW d \in findOwners(s).objs,
           findChildren(d).err = "none"
    PROVE  s \in findChildren(d).objs
<1> DEFINE refs == {r \in s.owners : r.kind = "Dst"}
           used == IF conn.level = "Controller" THEN {r \in refs : r.controller} ELSE refs
           got  == [r \in used |-> GetObject("Dst", InScope("Dst", s.ns), r.name)]
<1>1. findOwners(s) = OK(UNION {got[r] : r \in used})
  BY OKFacts DEF findOwners
<1>2. PICK r \in used : d \in GetObject("Dst", InScope("Dst", s.ns), r.name)
  <2> HIDE DEF got, used
  <2>1. d \in UNION {got[r] : r \in used}
    BY <1>1, OKFacts
  <2> USE DEF got, used
  <2> QED
    BY <2>1
<1>3. /\ d \in world /\ d.kind = "Dst" /\ d.name = r.name /\ d.ns = InScope("Dst", s.ns)
      /\ r \in s.owners /\ (conn.level = "Controller" => r.controller)
  BY <1>2 DEF GetObject
<1>4. r.uid = d.uid
  BY <1>3 DEF TwoWay
<1>5. /\ conn.level \in {"Owner", "Controller"}
      /\ findChildren(d) = OK({e \in ListObjects("Src", InScope("Src", d.ns)) : isConnected(e, d)})
  BY OKFacts DEF findChildren
<1>6. isConnected(s, d)
  BY <1>3, <1>4, <1>5 DEF isConnected, IsControlledBy, IsOwnedBy
<1>7. s \in ListObjects("Src", InScope("Src", d.ns))
  BY <1>3 DEF ListObjects, InScope, AllNamespaces
<1> QED
  BY <1>5, <1>6, <1>7, OKFacts

LEMMA OwnerBack ==
    ASSUME WorldOK, conn.type = "OwnedBy", TwoWay,
           NEW d \in world, d.kind = "Dst", NEW s \in findChildren(d).objs,
           findOwners(s).err = "none"
    PROVE  d \in findOwners(s).objs
<1> DEFINE refs == {r \in s.owners : r.kind = "Dst"}
           used == IF conn.level = "Controller" THEN {r \in refs : r.controller} ELSE refs
           got  == [r \in used |-> GetObject("Dst", InScope("Dst", s.ns), r.name)]
<1>1. /\ conn.level \in {"Owner", "Controller"}
      /\ s \in ListObjects("Src", InScope("Src", d.ns)) /\ isConnected(s, d)
  BY OKFacts DEF findChildren
<1>2. s \in world /\ s.kind = "Src" /\ ("Src" \in scoped => d.ns \in {"", s.ns})
  BY <1>1 DEF ListObjects, InScope, AllNamespaces
<1>3. PICK r \in s.owners : r.uid = d.uid /\ (conn.level = "Controller" => r.controller)
  BY <1>1 DEF isConnected, IsControlledBy, IsOwnedBy
<1>4. r.kind = "Dst" /\ r.name = d.name
  BY <1>2, <1>3 DEF WorldOK, Proper
<1>5. r \in used
  BY <1>3, <1>4
<1>6. /\ \A u \in used : got[u] # {}
      /\ findOwners(s) = OK(UNION {got[u] : u \in used})
  BY OKFacts DEF findOwners
<1>7. got[r] = GetObject("Dst", InScope("Dst", s.ns), d.name)
  BY <1>4, <1>5
<1>8. (s.ns # "" <=> "Src" \in scoped) /\ (d.ns # "" <=> "Dst" \in scoped)
  BY <1>2 DEF WorldOK, Proper
<1>9. d.ns = InScope("Dst", s.ns)
  <2>1. CASE "Dst" \notin scoped
    BY <1>8, <2>1 DEF InScope
  <2>2. CASE "Dst" \in scoped
    <3>1. PICK e \in world : e.kind = "Dst" /\ e.ns = s.ns
      BY <1>5, <1>6, <1>7, <2>2 DEF GetObject, InScope
    <3>2. s.ns # ""
      BY <2>2, <3>1 DEF WorldOK, Proper
    <3> QED
      BY <1>2, <1>8, <2>2, <3>2 DEF InScope
  <2> QED
    BY <2>1, <2>2
<1>10. d \in got[r]
  BY <1>7, <1>9 DEF GetObject
<1> QED
  BY <1>5, <1>6, <1>10, OKFacts

LEMMA RefThere ==
    ASSUME WorldOK, conn.type = "MatchRef", TwoWay,
           NEW s \in world, s.kind = "Src", NEW d \in refTargets(s).objs,
           refSources(d).err = "none"
    PROVE  s \in refSources(d).objs
<1> DEFINE NsOf(r) == IF r.ns # "" THEN r.ns ELSE s.ns
           sources == ListObjects("Src", InScope("Src", Home(d)))
           Bare(r) == r.ns = "" /\ "Dst" \in scoped
<1>1. refTargets(s) = OK(UNION {{e \in GetObject("Dst", InScope("Dst", NsOf(r)), r.name) :
                                    isConnected(e, s)} : r \in refsOf(s)})
  BY OKFacts DEF refTargets
<1>2. PICK r \in refsOf(s) :
        d \in GetObject("Dst", InScope("Dst", NsOf(r)), r.name) /\ isConnected(d, s)
  <2>1. d \in UNION {{e \in GetObject("Dst", InScope("Dst", NsOf(r)), r.name) :
                        isConnected(e, s)} : r \in refsOf(s)}
    BY <1>1, OKFacts
  <2> QED
    BY <2>1
<1>3. d \in world /\ d.kind = "Dst" /\ d.name = r.name /\ d.ns = InScope("Dst", NsOf(r))
  BY <1>2 DEF GetObject
<1>4. r \in s.refs
  BY DEF refsOf
<1>5. conn.namespace = "own" => r.ns \in {"", s.ns}
  BY <1>4 DEF TwoWay
<1>6. s \in sources
  BY <1>3, <1>5 DEF ListObjects, InScope, AllNamespaces, Home
<1>7. Bare(r) => s.ns = d.ns
  BY <1>3 DEF InScope
<1>8. refSources(d) = OK({e \in sources :
                            /\ \E u \in refsOf(e) : u.name = d.name /\ (Bare(u) => e.ns = d.ns)
                            /\ isConnected(d, e)})
  BY OKFacts DEF refSources
<1>9. \E u \in refsOf(s) : u.name = d.name /\ (Bare(u) => s.ns = d.ns)
  BY <1>3, <1>7
<1> HIDE DEF Bare, sources
<1> QED
  BY <1>2, <1>6, <1>8, <1>9, OKFacts

LEMMA RefBack ==
    ASSUME WorldOK, conn.type = "MatchRef", TwoWay, origin.kind = "Dst", origin \in world,
           NEW s \in refSources(origin).objs,
           refTargets(s).err = "none"
    PROVE  origin \in refTargets(s).objs
<1> DEFINE d == origin
           NsOf(r) == IF r.ns # "" THEN r.ns ELSE s.ns
           sources == ListObjects("Src", InScope("Src", Home(d)))
           Bare(r) == r.ns = "" /\ "Dst" \in scoped
<1>1. refSources(d) = OK({e \in sources :
                            /\ \E u \in refsOf(e) : u.name = d.name /\ (Bare(u) => e.ns = d.ns)
                            /\ isConnected(d, e)})
  BY OKFacts DEF refSources
<1>2. s \in sources /\ isConnected(d, s)
  BY <1>1, OKFacts
<1>3. PICK r \in refsOf(s) : r.name = d.name /\ (Bare(r) => s.ns = d.ns)
  BY <1>1, OKFacts
<1>4. r \in s.refs /\ s \in world
  BY <1>2 DEF refsOf, ListObjects
<1>5. r.ns \in {"", d.ns}
  BY <1>4 DEF TwoWay
<1>6. d.ns = InScope("Dst", NsOf(r))
  BY <1>3, <1>5 DEF InScope, WorldOK, Proper
<1>7. d \in GetObject("Dst", InScope("Dst", NsOf(r)), r.name)
  BY <1>3, <1>6 DEF GetObject
<1>8. refTargets(s) = OK(UNION {{e \in GetObject("Dst", InScope("Dst", NsOf(u)), u.name) :
                                    isConnected(e, s)} : u \in refsOf(s)})
  BY OKFacts DEF refTargets
<1>9. d \in UNION {{e \in GetObject("Dst", InScope("Dst", NsOf(u)), u.name) :
                      isConnected(e, s)} : u \in refsOf(s)}
  <2>1. d \in {e \in GetObject("Dst", InScope("Dst", NsOf(r)), r.name) : isConnected(e, s)}
    BY <1>2, <1>7
  <2> HIDE DEF NsOf, d
  <2> QED
    BY <2>1
<1> QED
  BY <1>8, <1>9, OKFacts
-----------------------------------------------------------------------------
LEMMA InitFind == FindInit => FindInv
<1> SUFFICES ASSUME FindInit PROVE FindInv
  OBVIOUS
<1>1. conn \in Connections /\ scoped \in SUBSET {"Src", "Dst"} /\ world \in Clusters(conn.type, scoped)
      /\ origin \in world
  BY DEF FindInit
<1>2. WorldOK
  BY <1>1, ClustersAssumption DEF WorldOK
<1>3. conn.type \in {"MatchSelector", "MatchName", "OwnedBy", "MatchRef"}
  BY <1>1, ConnectionsAssumption
<1>4. origin.kind \in {"Src", "Dst"}
  BY <1>1, <1>2 DEF WorldOK, Proper
<1> QED
  BY <1>1, <1>2, <1>3, <1>4 DEF FindInit, FindInv

(* The error of a step leaves nothing found. *)
LEMMA FollowFirst ==
    ASSUME FindInv, Follow, in = {origin}, NEW fwd \in BOOLEAN, (Head(path) = "forward") = fwd
    PROVE  FirstEdge(fwd)'
<1> DEFINE got == [o \in in |-> ResourcesFor(o, fwd)]
<1>1. in' = {} \/ in' = UNION {got[o].objs : o \in in}
  BY DEF Follow
<1>2. UNION {got[o].objs : o \in in} = ResourcesFor(origin, fwd).objs
  OBVIOUS
<1>3. UNCHANGED <<world, scoped, conn, origin>>
  BY DEF Follow
<1>4. ResourcesFor(origin, fwd)' = ResourcesFor(origin, fwd)
  BY <1>3 DEF ResourcesFor, selectTargets, nameTargets, findOwners, refTargets, selectSources,
     nameSources, findChildren, refSources, ListObjects, GetObject, InScope, OK, NotFound, Error,
     Matches, IsControlledBy, IsOwnedBy, isConnected, Namespaces, refsOf, Home, AllNamespaces
<1> QED
  BY <1>1, <1>2, <1>4 DEF FirstEdge

LEMMA FollowFind == FindInv /\ [Follow]_findVars => FindInv'
<1> SUFFICES ASSUME FindInv, [Follow]_findVars PROVE FindInv'
  OBVIOUS
<1>1. UNCHANGED <<world, scoped, conn, origin>>
  BY DEF Follow, findVars
<1>2. /\ WorldOK' /\ origin' \in world'
      /\ conn'.type \in {"MatchSelector", "MatchName", "OwnedBy", "MatchRef"}
  BY <1>1 DEF FindInv, WorldOK, Proper
<1>3. CASE Follow
  <2>1. path # <<>> /\ path' = Tail(path)
    BY <1>3 DEF Follow
  <2>2. CASE in = {origin} /\ origin.kind = "Src" /\ path = <<"forward", "backward">>
    <3>1. path' = <<"backward">> /\ Head(path) = "forward"
      BY <2>1, <2>2
    <3>2. FirstEdge(TRUE)'
      BY <1>3, <2>2, <3>1, FollowFirst
    <3> QED
      BY <1>1, <1>2, <2>2, <3>1, <3>2 DEF FindInv
  <2>3. CASE in = {origin} /\ origin.kind = "Dst" /\ path = <<"backward", "forward">>
    <3>1. path' = <<"forward">> /\ Head(path) = "backward"
      BY <2>1, <2>3
    <3>2. FirstEdge(FALSE)'
      BY <1>3, <2>3, <3>1, FollowFirst
    <3> QED
      BY <1>1, <1>2, <2>3, <3>1, <3>2 DEF FindInv
  <2>4. CASE path = <<"backward">> \/ path = <<"forward">>
    <3>1. path' = <<>>
      BY <2>1, <2>4
    <3> QED
      BY <1>2, <3>1 DEF FindInv
  <2> QED
    BY <2>1, <2>2, <2>3, <2>4 DEF FindInv
<1>4. CASE UNCHANGED findVars
  <2>1. UNCHANGED <<path, in>>
    BY <1>4 DEF findVars
  <2>2. \A fwd : FirstEdge(fwd)' <=> FirstEdge(fwd)
    BY <1>1, <2>1 DEF FirstEdge, ResourcesFor, selectTargets, nameTargets, findOwners, refTargets,
       selectSources, nameSources, findChildren, refSources, ListObjects, GetObject, InScope, OK,
       NotFound, Error, Matches, IsControlledBy, IsOwnedBy, isConnected, Namespaces, refsOf, Home,
       AllNamespaces
  <2> QED
    BY <1>1, <1>2, <2>1, <2>2 DEF FindInv
<1> QED
  BY <1>3, <1>4
-----------------------------------------------------------------------------
LEMMA BackToOrigin == FindInv => ComesBack
<1> SUFFICES ASSUME FindInv, Len(path) = 1, TwoWay, NEW o \in in,
                    ResourcesFor(o, Head(path) = "forward").err = "none"
             PROVE  origin \in ResourcesFor(o, Head(path) = "forward").objs
  BY DEF ComesBack
<1>1. WorldOK /\ origin \in world
  BY DEF FindInv
<1>2. conn.type \in {"MatchSelector", "MatchName", "OwnedBy", "MatchRef"}
  BY DEF FindInv
<1>3. \/ FirstEdge(TRUE) /\ origin.kind = "Src" /\ (Head(path) = "forward") = FALSE
      \/ FirstEdge(FALSE) /\ origin.kind = "Dst" /\ (Head(path) = "forward") = TRUE
  <2>1. path # <<"forward", "backward">> /\ path # <<"backward", "forward">> /\ path # <<>>
    <3>1. Len(<<"forward", "backward">>) = 2 /\ Len(<<"backward", "forward">>) = 2 /\ Len(<<>>) = 0
      OBVIOUS
    <3>2. 2 # 1 /\ 0 # 1
      OBVIOUS
    <3> QED
      BY <3>1, <3>2, Zenon
  <2>2. CASE FirstEdge(TRUE) /\ origin.kind = "Src" /\ path = <<"backward">>
    <3>1. Head(path) = "backward"
      BY <2>2
    <3> QED
      BY <2>2, <3>1
  <2>3. CASE FirstEdge(FALSE) /\ origin.kind = "Dst" /\ path = <<"forward">>
    <3>1. Head(path) = "forward"
      BY <2>3
    <3> QED
      BY <2>3, <3>1
  <2> QED
    BY <2>1, <2>2, <2>3 DEF FindInv
<1>4. CASE FirstEdge(TRUE) /\ origin.kind = "Src" /\ (Head(path) = "forward") = FALSE
  <2>1. o \in ResourcesFor(origin, TRUE).objs
    BY <1>4 DEF FirstEdge
  <2>2. ResourcesFor(o, FALSE).err = "none"
    BY <1>4
  <2>3. CASE conn.type = "MatchSelector"
    BY <1>1, <1>4, <2>1, <2>2, <2>3, SelectThere DEF ResourcesFor
  <2>4. CASE conn.type = "MatchName"
    BY <1>1, <1>4, <2>1, <2>2, <2>4, NameThere DEF ResourcesFor
  <2>5. CASE conn.type = "OwnedBy"
    BY <1>1, <1>4, <2>1, <2>2, <2>5, OwnerThere DEF ResourcesFor
  <2>6. CASE conn.type = "MatchRef"
    BY <1>1, <1>4, <2>1, <2>2, <2>6, RefThere DEF ResourcesFor
  <2> QED
    BY <1>2, <2>3, <2>4, <2>5, <2>6
<1>5. CASE FirstEdge(FALSE) /\ origin.kind = "Dst" /\ (Head(path) = "forward") = TRUE
  <2>1. o \in ResourcesFor(origin, FALSE).objs
    BY <1>5 DEF FirstEdge
  <2>2. ResourcesFor(o, TRUE).err = "none"
    BY <1>5
  <2>3. CASE conn.type = "MatchSelector"
    BY <1>1, <1>5, <2>1, <2>2, <2>3, SelectBack DEF ResourcesFor
  <2>4. CASE conn.type = "MatchName"
    BY <1>1, <1>5, <2>1, <2>2, <2>4, NameBack DEF ResourcesFor
  <2>5. CASE conn.type = "OwnedBy"
    BY <1>1, <1>5, <2>1, <2>2, <2>5, OwnerBack DEF ResourcesFor
  <2>6. CASE conn.type = "MatchRef"
    BY <1>1, <1>5, <2>1, <2>2, <2>6, RefBack DEF ResourcesFor
  <2> QED
    BY <1>2, <2>3, <2>4, <2>5, <2>6
<1> QED
  BY <1>3, <1>4, <1>5

(* Along a connection and back, the finder comes to the object it started  *)
(* from, in every cluster and for every connection of which TwoWay holds.  *)
THEOREM FinderComesBack == FindSpec => []ComesBack
<1>1. FindInit => FindInv
  BY InitFind
<1>2. FindInv /\ [Follow]_findVars => FindInv'
  BY FollowFind
<1> QED
  BY <1>1, <1>2, BackToOrigin, PTL DEF FindSpec
=============================================================================
