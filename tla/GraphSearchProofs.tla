------------------------- MODULE GraphSearchProofs -------------------------
(***************************************************************************)
(* Proofs about GraphSearch and PolicyReport, for every finite set of      *)
(* objects, every graph on them, every request and every order of the maps.*)
(***************************************************************************)
EXTENDS PolicyReport, FiniteSetTheorems, WellFoundedInduction, TLAPS

Queued == ToSet(idsToProcess)

(* The objects that the search in hand of resourceGraph starts from. *)
Seeds == IF phase = "offshoots" THEN {oid} ELSE offshoots

Steps == [x \in OIDs |-> Followed(x)]

-----------------------------------------------------------------------------
(* Links: nothing is queued or found that is not connected, the object     *)
(* itself comes first, and of the kinds a processed object is linked to    *)
(* one is processed or queued.                                             *)
Connected == LeastClosed(SeedBound, LinkedBy(edgeLabel))

LinksSound ==
    /\ phase \in {"offshoots", "links", "done"}
    /\ phase = "offshoots" =>
          /\ edgeLabel \notin DirectLabels
          /\ Queued \cup result \subseteq OffshootsOf
    /\ phase # "offshoots" => Queued \cup result \subseteq Connected
    /\ phase = "done" => oid \notin result /\ idsToProcess = <<>>

LinksKinds ==
    /\ processedGK = KindsOf(processed)
    /\ phase # "offshoots" =>
          \A x \in processed :
              KindsOf(Linked(edgeLabel, x)) \subseteq KindsOf(processed) \cup KindsOf(Queued)

OidFirst ==
    phase # "offshoots" =>
        \/ processed = {} /\ idsToProcess # <<>> /\ Head(idsToProcess) = oid
        \/ NeighboursFound

(* What is returned is searched too, and what is searched is returned      *)
(* unless the search started from it.                                      *)
LinksWhole ==
    phase # "offshoots" =>
        /\ result \cup {oid} \subseteq processed \cup Queued
        /\ processed \cup Queued \subseteq result \cup SeedBound

LinksInv == request = "Links" => LinksSound /\ LinksKinds /\ OidFirst /\ LinksWhole

(* resourceGraph: a search visits what its steps reach from its seeds, and *)
(* records the edges of what it has processed.                             *)
InSearch ==
    /\ Seeds \subseteq processed \cup Queued
    /\ processed \cup Queued \subseteq LeastClosed(Seeds, Steps)
    /\ \A x \in processed :
          /\ Followed(x) \subseteq processed \cup Queued
          /\ \A y \in Followed(x) : <<{x, y}, edgeLabel>> \in connections

(* The labels searched before the one in hand are complete. *)
EarlierWhole ==
    \A lbl \in Labels \ (DirectLabels \cup {edgeLabel}) :
        Recorded(lbl) # {} => EdgesOf(lbl, OffshootsOf) \subseteq connections

Asked == OwnEdges \cup UNION {EdgesOf(lbl, OffshootsOf) : lbl \in Labels \ DirectLabels}

GraphInv ==
    request = "ResourceGraph" =>
        /\ phase \in {"offshoots", "labels", "done", "failed"}
        /\ phase = "offshoots" =>
              /\ edgeLabel = Offshoot /\ skipGKs = {}
              /\ InSearch
              /\ connections \subseteq OwnEdges
        /\ phase # "offshoots" =>
              /\ offshoots = OffshootsOf /\ skipGKs = KindsOf(offshoots)
              /\ edgeLabel \notin DirectLabels => InSearch
              /\ edgeLabel \in DirectLabels => idsToProcess = <<>>
              /\ OwnEdges \subseteq connections
              /\ connections \subseteq Asked
              /\ EarlierWhole

SearchInv == TypeOK /\ LinksInv /\ GraphInv
-----------------------------------------------------------------------------
(* Queues *)

(* A set written down in any order is a sequence of its elements, all of   *)
(* them.                                                                   *)
LEMMA AnyOrderFacts ==
    ASSUME NEW S \in SUBSET OIDs, NEW s \in AnyOrder(S)
    PROVE  s \in Seq(OIDs) /\ ToSet(s) = S
<1> DEFINE n == Cardinality(S)
           D == 1 .. n
<1>1. IsFiniteSet(S) /\ n \in Nat
  BY OIDsAssumption, FS_Subset, FS_CardinalityType
<1>2. s \in [D -> S] /\ \A i, j \in D : i # j => s[i] # s[j]
  BY DEF AnyOrder, SetToSeqs
<1>3. IsFiniteSet(D) /\ Cardinality(D) = n
  <2>1. 1 \in Int /\ n \in Int
    BY <1>1
  <2>2. IsFiniteSet(1 .. n) /\ Cardinality(1 .. n) = IF 1 > n THEN 0 ELSE n - 1 + 1
    BY <2>1, FS_Interval, Zenon
  <2> QED
    BY <1>1, <2>2
<1>4. s \in Seq(OIDs)
  BY <1>1, <1>2
<1>5. ToSet(s) \subseteq S
  BY <1>2 DEF ToSet
<1>6. ASSUME NEW e \in S, e \notin ToSet(s) PROVE FALSE
  <2> DEFINE T == S \ {e}
  <2>1. IsFiniteSet(T) /\ Cardinality(T) = n - 1
    BY <1>1, FS_RemoveElement
  <2>2. s \in [D -> T]
    BY <1>2, <1>6 DEF ToSet
  <2>3. Cardinality(T) < Cardinality(D)
    BY <1>1, <1>3, <2>1
  <2> HIDE DEF D, T, n
  <2>4. \E x, y \in D : x # y /\ s[x] = s[y]
    BY <1>3, <2>1, <2>2, <2>3, FS_PigeonHole
  <2> QED
    BY <1>2, <2>4
<1> QED
  BY <1>4, <1>5, <1>6

LEMMA ConcatSet ==
    ASSUME NEW t \in Seq(OIDs), NEW more \in Seq(OIDs)
    PROVE  ToSet(t \o more) = ToSet(t) \cup ToSet(more)
<1>1. DOMAIN t = 1 .. Len(t) /\ DOMAIN more = 1 .. Len(more)
      /\ DOMAIN (t \o more) = 1 .. Len(t) + Len(more)
      /\ Len(t) \in Nat /\ Len(more) \in Nat
  OBVIOUS
<1>2. \A i \in 1 .. Len(t) : (t \o more)[i] = t[i]
  OBVIOUS
<1>3. \A i \in 1 .. Len(more) : (t \o more)[Len(t) + i] = more[i]
  OBVIOUS
<1>4. ASSUME NEW i \in DOMAIN (t \o more) PROVE (t \o more)[i] \in ToSet(t) \cup ToSet(more)
  <2>1. CASE i <= Len(t)
    BY <1>1, <1>2, <2>1 DEF ToSet
  <2>2. CASE ~ (i <= Len(t))
    <3>1. i - Len(t) \in DOMAIN more /\ (t \o more)[i] = more[i - Len(t)]
      BY <1>1, <1>3, <2>2
    <3> QED
      BY <3>1 DEF ToSet
  <2> QED
    BY <2>1, <2>2
<1>5. ASSUME NEW i \in DOMAIN t PROVE t[i] \in ToSet(t \o more)
  <2>1. i \in DOMAIN (t \o more) /\ (t \o more)[i] = t[i]
    BY <1>1, <1>2
  <2> QED
    BY <2>1 DEF ToSet
<1>6. ASSUME NEW i \in DOMAIN more PROVE more[i] \in ToSet(t \o more)
  <2>1. Len(t) + i \in DOMAIN (t \o more) /\ (t \o more)[Len(t) + i] = more[i]
    BY <1>1, <1>3
  <2> QED
    BY <2>1 DEF ToSet
<1> QED
  BY <1>4, <1>5, <1>6 DEF ToSet

LEMMA QueueFacts ==
    ASSUME NEW s \in Seq(OIDs), s # <<>>, NEW more \in Seq(OIDs)
    PROVE  /\ Head(s) \in OIDs
           /\ Tail(s) \o more \in Seq(OIDs)
           /\ ToSet(s) = {Head(s)} \cup ToSet(Tail(s))
           /\ ToSet(Tail(s) \o more) = ToSet(Tail(s)) \cup ToSet(more)
<1>1. Tail(s) \in Seq(OIDs) /\ Head(s) \in OIDs
  OBVIOUS
<1>2. Len(s) \in Nat /\ Len(s) # 0 /\ Len(Tail(s)) = Len(s) - 1
  OBVIOUS
<1>3. \A i \in 1 .. Len(s) - 1 : Tail(s)[i] = s[i + 1]
  OBVIOUS
<1>4. ToSet(s) = {Head(s)} \cup ToSet(Tail(s))
  <2>1. DOMAIN s = 1 .. Len(s) /\ DOMAIN Tail(s) = 1 .. Len(s) - 1 /\ Head(s) = s[1]
    BY <1>1, <1>2
  <2>2. ASSUME NEW i \in DOMAIN s PROVE s[i] \in {Head(s)} \cup ToSet(Tail(s))
    <3>1. CASE i = 1
      BY <2>1, <3>1
    <3>2. CASE i # 1
      <4>1. i - 1 \in DOMAIN Tail(s) /\ Tail(s)[i - 1] = s[i]
        BY <1>2, <1>3, <2>1, <3>2
      <4> QED
        BY <4>1 DEF ToSet
    <3> QED
      BY <3>1, <3>2
  <2>3. ASSUME NEW i \in DOMAIN Tail(s) PROVE Tail(s)[i] \in ToSet(s)
    <3>1. i + 1 \in DOMAIN s /\ Tail(s)[i] = s[i + 1]
      BY <1>2, <1>3, <2>1
    <3> QED
      BY <3>1 DEF ToSet
  <2>4. Head(s) \in ToSet(s)
    BY <1>2, <2>1 DEF ToSet
  <2> QED
    BY <2>2, <2>3, <2>4 DEF ToSet
<1>6. Tail(s) \o more \in Seq(OIDs)
  BY <1>1
<1>7. ToSet(Tail(s) \o more) = ToSet(Tail(s)) \cup ToSet(more)
  BY <1>1, ConcatSet
<1> QED
  BY <1>1, <1>4, <1>6, <1>7, Zenon
-----------------------------------------------------------------------------
(* Least closed sets *)
LEMMA LeastClosedFacts ==
    ASSUME NEW seeds \in SUBSET OIDs, NEW step \in [OIDs -> SUBSET OIDs]
    PROVE  /\ LeastClosed(seeds, step) \subseteq OIDs
           /\ seeds \subseteq LeastClosed(seeds, step)
           /\ \A x \in LeastClosed(seeds, step) : step[x] \subseteq LeastClosed(seeds, step)
           /\ \A C \in SUBSET OIDs :
                (seeds \subseteq C /\ \A y \in C : step[y] \subseteq C)
                => LeastClosed(seeds, step) \subseteq C
<1>1. LeastClosed(seeds, step) \subseteq OIDs /\ seeds \subseteq LeastClosed(seeds, step)
  BY DEF LeastClosed
<1>2. ASSUME NEW x \in LeastClosed(seeds, step), NEW y \in step[x]
      PROVE  y \in LeastClosed(seeds, step)
  <2>1. x \in OIDs /\ y \in OIDs
    BY <1>1, <1>2
  <2>2. ASSUME NEW C \in SUBSET OIDs, seeds \subseteq C, \A z \in C : step[z] \subseteq C
        PROVE  y \in C
    <3>1. x \in C
      BY <1>2, <2>2 DEF LeastClosed
    <3> QED
      BY <1>2, <2>2, <3>1
  <2> QED
    BY <2>1, <2>2 DEF LeastClosed
<1>3. \A C \in SUBSET OIDs :
        (seeds \subseteq C /\ \A y \in C : step[y] \subseteq C)
        => LeastClosed(seeds, step) \subseteq C
  BY DEF LeastClosed
<1> QED
  BY <1>1, <1>2, <1>3

LEMMA StepTypes ==
    /\ \A lbl \in Labels : LinkedBy(lbl) \in [OIDs -> SUBSET OIDs]
    /\ \A lbl \in Labels, off \in SUBSET OIDs : Extra(lbl, off) \in [OIDs -> SUBSET OIDs]
    /\ Steps \in [OIDs -> SUBSET OIDs]
BY DEF LinkedBy, Linked, Extra, Steps, Followed, Neighbours
-----------------------------------------------------------------------------
(* What does not depend on the step of a search. *)
LEMMA SameGraph ==
    ASSUME UNCHANGED <<g, oid>>
    PROVE  /\ OffshootsOf' = OffshootsOf
           /\ OwnEdges' = OwnEdges
           /\ \A lbl : LinkedBy(lbl)' = LinkedBy(lbl)
           /\ \A lbl, x : Linked(lbl, x)' = Linked(lbl, x)
           /\ \A lbl, off : EdgesOf(lbl, off)' = EdgesOf(lbl, off)
           /\ Asked' = Asked
<1>1. \A lbl, x : Linked(lbl, x)' = Linked(lbl, x)
  BY DEF Linked
<1>2. \A lbl : LinkedBy(lbl)' = LinkedBy(lbl)
  BY DEF LinkedBy, Linked
<1>3. OffshootsOf' = OffshootsOf
  BY <1>2 DEF OffshootsOf, LeastClosed, LinkedBy, Linked
<1>4. OwnEdges' = OwnEdges
  BY <1>3 DEF OwnEdges
<1>5. \A lbl, off : EdgesOf(lbl, off)' = EdgesOf(lbl, off)
  BY DEF EdgesOf, Extra, LeastClosed, Linked, KindsOf
<1>6. Asked' = Asked
  BY <1>3, <1>4, <1>5 DEF Asked
<1> QED
  BY <1>1, <1>2, <1>3, <1>4, <1>5, <1>6

LEMMA NoSelfLinks ==
    ASSUME TypeOK, NEW lbl \in Labels, NEW x
    PROVE  x \notin Linked(lbl, x)
<1> SUFFICES ASSUME {x, x} \in g[lbl] PROVE FALSE
  BY DEF Linked
<1>1. {x, x} \in MayLink
  BY DEF TypeOK, LinkSets
<1>2. PICK a, b \in OIDs : a # b /\ {x, x} = {a, b}
  BY <1>1, MayLinkAssumption
<1>3. a \in {x, x} /\ b \in {x, x}
  BY <1>2
<1> QED
  BY <1>2, <1>3

LEMMA OffshootsFacts ==
    ASSUME TypeOK
    PROVE  /\ OffshootsOf \subseteq OIDs /\ oid \in OffshootsOf
           /\ \A x \in OffshootsOf : Linked(Offshoot, x) \subseteq OffshootsOf
<1>1. LinkedBy(Offshoot) \in [OIDs -> SUBSET OIDs]
      /\ \A x \in OIDs : LinkedBy(Offshoot)[x] = Linked(Offshoot, x)
  BY StepTypes, LabelAssumption DEF LinkedBy
<1>2. {oid} \in SUBSET OIDs
  BY DEF TypeOK
<1> QED
  BY <1>1, <1>2, LeastClosedFacts DEF OffshootsOf

LEMMA ConnectedFacts ==
    ASSUME TypeOK
    PROVE  /\ Connected \subseteq OIDs /\ oid \in Connected
           /\ SeedBound \subseteq Connected
           /\ \A x \in Connected : Linked(edgeLabel, x) \subseteq Connected
<1>1. LinkedBy(edgeLabel) \in [OIDs -> SUBSET OIDs]
      /\ \A x \in OIDs : LinkedBy(edgeLabel)[x] = Linked(edgeLabel, x)
  BY StepTypes DEF LinkedBy, TypeOK
<1>2. SeedBound \in SUBSET OIDs /\ oid \in SeedBound
  BY OffshootsFacts DEF SeedBound, TypeOK
<1> QED
  BY <1>1, <1>2, LeastClosedFacts DEF Connected

-----------------------------------------------------------------------------
(* Initial states *)
LEMMA InitTypes == Init => TypeOK
<1> SUFFICES ASSUME Init PROVE TypeOK
  OBVIOUS
<1>1. include \in Seq(Labels)
  <2>1. CASE AskLinks
    BY <2>1 DEF AskLinks
  <2>2. CASE AskResourceGraph
    BY <2>2, BoundAssumption DEF AskResourceGraph, SeqOf
  <2> QED
    BY <2>1, <2>2 DEF Init
<1>2. request \in {"Links", "ResourceGraph"} /\ phase \in Phases /\ edgeLabel \in Labels
  BY LabelAssumption DEF Init, AskLinks, AskResourceGraph, Phases
<1>3. idsToProcess \in Seq(OIDs)
  BY DEF Init
<1> QED
  BY <1>1, <1>2, <1>3 DEF Init, TypeOK

LEMMA InitSearch == Init => SearchInv
<1> SUFFICES ASSUME Init PROVE SearchInv
  OBVIOUS
<1>1. TypeOK
  BY InitTypes
<1>2. Queued = {oid} /\ processed = {} /\ result = {} /\ connections = {}
  BY DEF Init, Queued, ToSet
<1>3. ASSUME request = "Links" PROVE LinksSound /\ LinksKinds /\ OidFirst /\ LinksWhole
  <2>1. phase = IF edgeLabel \in DirectLabels THEN "links" ELSE "offshoots"
    BY <1>3 DEF Init, AskLinks, AskResourceGraph
  <2>2. LinksSound
    BY <1>1, <1>2, <2>1, OffshootsFacts, ConnectedFacts DEF LinksSound
  <2>3. LinksKinds
    BY <1>2 DEF LinksKinds, Init, KindsOf
  <2>4. idsToProcess # <<>> /\ Head(idsToProcess) = oid
    BY DEF Init
  <2>5. LinksWhole
    BY <1>2, <2>1 DEF LinksWhole, SeedBound
  <2> QED
    BY <1>2, <2>2, <2>3, <2>4, <2>5 DEF OidFirst
<1>4. ASSUME request = "ResourceGraph" PROVE GraphInv
  <2>1. phase = "offshoots" /\ edgeLabel = Offshoot /\ skipGKs = {}
    BY <1>4 DEF Init, AskLinks, AskResourceGraph
  <2>2. oid \in LeastClosed(Seeds, Steps)
    BY <1>1, <2>1, StepTypes, LeastClosedFacts DEF Seeds, TypeOK
  <2>3. InSearch
    BY <1>2, <2>1, <2>2 DEF InSearch, Seeds
  <2> QED
    BY <1>2, <2>1, <2>3 DEF GraphInv
<1> QED
  BY <1>1, <1>3, <1>4 DEF SearchInv, LinksInv, GraphInv
-----------------------------------------------------------------------------
(* Links *)
LEMMA VisitInv ==
    ASSUME SearchInv, Visit PROVE SearchInv'
<1> DEFINE x == Head(idsToProcess)
           rest == ToSet(Tail(idsToProcess))
           edges == Found(x)
<1>1. /\ request = "Links" /\ phase \in {"offshoots", "links"} /\ idsToProcess # <<>>
      /\ UNCHANGED <<g, request, oid, phase, edgeLabel, include, offshoots, skipGKs, connections>>
      /\ processed' = processed \cup {x}
      /\ processedGK' = processedGK \cup {GK[x]}
      /\ result' = result \cup edges
  BY DEF Visit, Searching, asked, graphVars, SearchInv, LinksInv, LinksSound
<1>2. TypeOK /\ LinksSound /\ LinksKinds /\ OidFirst /\ LinksWhole
  BY <1>1 DEF SearchInv, LinksInv
<1>3. Label \in Labels /\ edges \in SUBSET OIDs /\ edges \subseteq Linked(Label, x)
  BY <1>2, LabelAssumption DEF Label, Found, Neighbours, Linked, TypeOK
<1>4. PICK more \in AnyOrder(edges) : idsToProcess' = Tail(idsToProcess) \o more
  BY DEF Visit
<1>5. more \in Seq(OIDs) /\ ToSet(more) = edges
  BY <1>3, <1>4, AnyOrderFacts
<1>6. /\ x \in OIDs
      /\ idsToProcess' \in Seq(OIDs)
      /\ Queued = {x} \cup rest
      /\ Queued' = rest \cup edges
  BY <1>1, <1>2, <1>4, <1>5, QueueFacts DEF Queued, TypeOK
<1> HIDE DEF x, rest, edges
<1>7. TypeOK'
  BY <1>1, <1>2, <1>3, <1>6 DEF TypeOK, KindsOf, Phases
<1>8. LinksSound'
  <2>1. CASE phase = "offshoots"
    <3>1. edges \subseteq OffshootsOf
      BY <1>2, <1>3, <1>6, <2>1, OffshootsFacts DEF LinksSound, Label
    <3>2. (Queued \cup result)' \subseteq OffshootsOf
      BY <1>1, <1>2, <1>6, <2>1, <3>1 DEF LinksSound
    <3> QED
      BY <1>1, <1>2, <2>1, <3>2, SameGraph DEF LinksSound
  <2>2. CASE phase = "links"
    <3>1. edges \subseteq Connected
      BY <1>2, <1>3, <1>6, <2>2, ConnectedFacts DEF LinksSound, Label
    <3>2. Connected' = Connected
      BY <1>1, SameGraph DEF Connected, LeastClosed, SeedBound
    <3> QED
      BY <1>1, <1>2, <1>6, <2>2, <3>1, <3>2 DEF LinksSound
  <2> QED
    BY <1>1, <2>1, <2>2
<1>9. LinksKinds'
  <2>1. processedGK' = KindsOf(processed)'
    BY <1>1, <1>2 DEF LinksKinds, KindsOf
  <2>2. ASSUME phase # "offshoots", NEW z \in processed', NEW y \in Linked(edgeLabel, z)
        PROVE  GK[y] \in (KindsOf(processed) \cup KindsOf(Queued))'
    <3>1. CASE z \in processed
      <4>1. GK[y] \in KindsOf(processed) \cup KindsOf(Queued)
        BY <1>2, <2>2, <3>1 DEF LinksKinds, KindsOf
      <4> QED
        BY <1>1, <1>6, <4>1 DEF KindsOf
    <3>2. CASE z = x
      <4>1. y \in edges \/ y \in processed \cup {x} \/ GK[y] \in processedGK
        BY <1>1, <2>2, <3>2 DEF edges, Found, Neighbours, Linked, Label
      <4> QED
        BY <1>1, <1>2, <1>6, <4>1 DEF KindsOf, LinksKinds
    <3> QED
      BY <1>1, <3>1, <3>2
  <2>3. \A z : Linked(edgeLabel, z)' = Linked(edgeLabel, z)
    BY <1>1 DEF Linked
  <2>4. phase # "offshoots" => \A z \in processed' :
          KindsOf(Linked(edgeLabel, z)) \subseteq (KindsOf(processed) \cup KindsOf(Queued))'
    BY <2>2 DEF KindsOf
  <2> QED
    BY <1>1, <2>1, <2>3, <2>4 DEF LinksKinds, KindsOf
<1>10. OidFirst'
  <2> SUFFICES ASSUME phase = "links" PROVE NeighboursFound'
    BY <1>1 DEF OidFirst
  <2>1. Linked(edgeLabel, oid)' = Linked(edgeLabel, oid)
    BY <1>1 DEF Linked
  <2>2. CASE NeighboursFound
    BY <1>1, <2>1, <2>2 DEF NeighboursFound
  <2>3. CASE processed = {} /\ Head(idsToProcess) = oid
    <3>1. processedGK = {} /\ x = oid
      BY <1>2, <2>3 DEF LinksKinds, KindsOf, x
    <3>2. \A y \in Linked(edgeLabel, oid) : y \in OIDs /\ y # oid
      BY <1>2, NoSelfLinks DEF TypeOK, Linked
    <3>3. Linked(edgeLabel, oid) \subseteq edges
      BY <2>3, <3>1, <3>2 DEF edges, Found, Neighbours, Linked, Label
    <3> QED
      BY <1>1, <2>1, <3>3 DEF NeighboursFound
  <2> QED
    BY <1>2, <2>2, <2>3 DEF OidFirst
<1>11. LinksWhole'
  <2>1. SeedBound' = SeedBound
    BY <1>1, SameGraph DEF SeedBound
  <2> QED
    BY <1>1, <1>2, <1>6, <2>1 DEF LinksWhole
<1> QED
  BY <1>1, <1>7, <1>8, <1>9, <1>10, <1>11 DEF SearchInv, LinksInv, GraphInv

LEMMA StartLinksInv ==
    ASSUME SearchInv, StartLinks PROVE SearchInv'
<1>1. /\ request = "Links" /\ phase = "offshoots" /\ phase' = "links"
      /\ UNCHANGED <<g, request, oid, edgeLabel, include, offshoots, skipGKs, connections>>
      /\ processed' = {} /\ processedGK' = {} /\ result' = {}
  BY DEF StartLinks, Searching, asked, graphVars
<1>2. TypeOK /\ LinksSound
  BY <1>1 DEF SearchInv, LinksInv
<1>3. PICK seeds \in AnyOrder(result \ {oid}) : idsToProcess' = <<oid>> \o seeds
  BY DEF StartLinks
<1>4. seeds \in Seq(OIDs) /\ ToSet(seeds) = result \ {oid} /\ oid \in OIDs
  BY <1>2, <1>3, AnyOrderFacts DEF TypeOK
<1>5. /\ idsToProcess' \in Seq(OIDs) /\ idsToProcess' # <<>> /\ Head(idsToProcess') = oid
  BY <1>3, <1>4
<1>6. Queued' = {oid} \cup (result \ {oid})
  <2>1. <<oid>> \in Seq(OIDs) /\ ToSet(<<oid>>) = {oid}
    BY <1>4 DEF ToSet
  <2> QED
    BY <1>3, <1>4, <2>1, ConcatSet DEF Queued
<1>7. TypeOK'
  BY <1>1, <1>2, <1>5 DEF TypeOK, Phases
<1>8. Queued' \subseteq SeedBound /\ SeedBound' = SeedBound
  BY <1>1, <1>2, <1>6, OffshootsFacts, SameGraph DEF SeedBound, LinksSound
<1>9. LinksSound'
  <2>1. Connected' = Connected
    BY <1>1, SameGraph DEF Connected, LeastClosed, SeedBound
  <2> QED
    BY <1>1, <1>2, <1>8, <2>1, ConnectedFacts DEF LinksSound
<1>10. LinksKinds' /\ OidFirst'
  BY <1>1, <1>5 DEF LinksKinds, OidFirst, KindsOf
<1>11. LinksWhole'
  BY <1>1, <1>6, <1>8 DEF LinksWhole
<1> QED
  BY <1>1, <1>7, <1>9, <1>10, <1>11 DEF SearchInv, LinksInv, GraphInv

LEMMA ReturnInv ==
    ASSUME SearchInv, Return PROVE SearchInv'
<1>1. /\ phase = "links" /\ phase' = "done" /\ idsToProcess = <<>> /\ result' = result \ {oid}
      /\ UNCHANGED <<g, request, oid, edgeLabel, idsToProcess, processed, processedGK,
                     include, offshoots, skipGKs, connections>>
  BY DEF Return, asked, graphVars
<1>2. request = "Links"
  BY <1>1 DEF SearchInv, TypeOK, GraphInv
<1>3. TypeOK /\ LinksSound /\ LinksKinds /\ OidFirst /\ LinksWhole
  BY <1>2 DEF SearchInv, LinksInv
<1>4. TypeOK'
  BY <1>1, <1>3 DEF TypeOK, Phases
<1>5. Connected' = Connected /\ Queued' = Queued
  BY <1>1, SameGraph DEF Connected, LeastClosed, SeedBound, Queued
<1>6. LinksSound'
  BY <1>1, <1>3, <1>5 DEF LinksSound
<1>7. \A x : Linked(edgeLabel, x)' = Linked(edgeLabel, x)
  BY <1>1 DEF Linked
<1>8. LinksKinds'
  BY <1>1, <1>3, <1>5, <1>7 DEF LinksKinds, KindsOf
<1>9. OidFirst'
  <2>1. oid \notin Linked(edgeLabel, oid)
    BY <1>3, NoSelfLinks DEF TypeOK
  <2>2. NeighboursFound
    BY <1>1, <1>3 DEF OidFirst
  <2> QED
    BY <1>1, <1>7, <2>1, <2>2 DEF OidFirst, NeighboursFound
<1>10. LinksWhole'
  <2>1. SeedBound' = SeedBound /\ oid \in SeedBound
    BY <1>1, <1>3, SameGraph, OffshootsFacts DEF SeedBound, TypeOK
  <2> QED
    BY <1>1, <1>3, <1>5, <2>1 DEF LinksWhole
<1> QED
  BY <1>1, <1>2, <1>4, <1>6, <1>8, <1>9, <1>10 DEF SearchInv, LinksInv, GraphInv
-----------------------------------------------------------------------------
(* resourceGraph *)

(* In the first search the steps are the offshoot links; in the others     *)
(* they are those of Extra.                                                *)
LEMMA StepsAre ==
    ASSUME TypeOK, GraphInv, request = "ResourceGraph"
    PROVE  /\ phase = "offshoots" => Steps = LinkedBy(Offshoot) /\ LeastClosed(Seeds, Steps) = OffshootsOf
           /\ phase # "offshoots" => Steps = Extra(edgeLabel, OffshootsOf) /\ Seeds = OffshootsOf
           /\ Seeds \subseteq OIDs
<1>1. ASSUME phase = "offshoots"
      PROVE Steps = LinkedBy(Offshoot) /\ LeastClosed(Seeds, Steps) = OffshootsOf
  <2>1. Steps = LinkedBy(Offshoot)
    BY <1>1 DEF Steps, LinkedBy, Followed, Neighbours, Linked, GraphInv
  <2> QED
    BY <1>1, <2>1 DEF OffshootsOf, Seeds
<1>2. ASSUME phase # "offshoots" PROVE Steps = Extra(edgeLabel, OffshootsOf) /\ Seeds = OffshootsOf
  BY <1>2 DEF Steps, Extra, Followed, Neighbours, Linked, GraphInv, Seeds
<1> QED
  BY <1>1, <1>2 DEF Seeds, TypeOK

(* A search at its end has processed what its steps reach. *)
LEMMA SearchEnd ==
    ASSUME TypeOK, InSearch, idsToProcess = <<>>, Seeds \subseteq OIDs
    PROVE  processed = LeastClosed(Seeds, Steps)
<1>1. Queued = {}
  BY DEF Queued, ToSet
<1>2. /\ Seeds \subseteq processed /\ processed \subseteq LeastClosed(Seeds, Steps)
      /\ \A x \in processed : Followed(x) \subseteq processed
  BY <1>1 DEF InSearch
<1>3. processed \in SUBSET OIDs /\ \A x \in OIDs : Steps[x] = Followed(x)
  BY DEF TypeOK, Steps
<1>4. Seeds \in SUBSET OIDs /\ Steps \in [OIDs -> SUBSET OIDs]
  BY StepTypes
<1>5. LeastClosed(Seeds, Steps) \subseteq processed
  BY <1>2, <1>3, <1>4, LeastClosedFacts
<1> QED
  BY <1>2, <1>5

LEMMA SearchRecorded ==
    ASSUME TypeOK, GraphInv, request = "ResourceGraph", phase # "offshoots",
           idsToProcess = <<>>, edgeLabel \notin DirectLabels
    PROVE  EdgesOf(edgeLabel, OffshootsOf) \subseteq connections
<1>1. InSearch
  BY DEF GraphInv
<1>2. Steps = Extra(edgeLabel, OffshootsOf) /\ Seeds = OffshootsOf /\ Seeds \subseteq OIDs
  BY StepsAre
<1>3. processed = LeastClosed(OffshootsOf, Extra(edgeLabel, OffshootsOf))
  BY <1>1, <1>2, SearchEnd
<1>4. \A x \in processed : Extra(edgeLabel, OffshootsOf)[x] = Followed(x)
  BY <1>2 DEF Steps, TypeOK
<1> QED
  BY <1>1, <1>3, <1>4 DEF InSearch, EdgesOf

LEMMA ConnectVisitInv ==
    ASSUME SearchInv, ConnectVisit PROVE SearchInv'
<1> DEFINE x == Head(idsToProcess)
           rest == ToSet(Tail(idsToProcess))
           new == Followed(x) \ (processed \cup {x})
<1>1. /\ request = "ResourceGraph" /\ phase \in {"offshoots", "links", "labels"}
      /\ idsToProcess # <<>>
      /\ UNCHANGED <<g, request, oid, phase, edgeLabel, processedGK, result,
                     include, offshoots, skipGKs>>
      /\ processed' = processed \cup {x}
      /\ connections' = connections \cup {<<{x, id}, edgeLabel>> : id \in Followed(x)}
  BY DEF ConnectVisit, Searching, asked, linksVars
<1>2. TypeOK /\ GraphInv /\ phase \in {"offshoots", "labels"}
  BY <1>1 DEF SearchInv, GraphInv
<1>3. InSearch /\ (phase # "offshoots" => edgeLabel \notin DirectLabels)
  BY <1>1, <1>2 DEF GraphInv
<1>4. Followed(x) \in SUBSET OIDs
  BY DEF Followed, Neighbours
<1>5. PICK more \in AnyOrder(new) : idsToProcess' = Tail(idsToProcess) \o more
  BY DEF ConnectVisit
<1>6. more \in Seq(OIDs) /\ ToSet(more) = new
  BY <1>4, <1>5, AnyOrderFacts
<1>7. /\ x \in OIDs
      /\ idsToProcess' \in Seq(OIDs)
      /\ Queued = {x} \cup rest
      /\ Queued' = rest \cup new
  BY <1>1, <1>2, <1>5, <1>6, QueueFacts DEF Queued, TypeOK
<1> HIDE DEF x, rest
<1>8. (processed \cup Queued)' = (processed \cup Queued) \cup Followed(x)
  BY <1>1, <1>7
<1>9. TypeOK'
  <2>1. \A y \in Followed(x) : {x, y} \in MayLink
    BY <1>2 DEF Followed, Neighbours, TypeOK, LinkSets
  <2>2. connections' \subseteq MayLink \X Labels
    BY <1>1, <1>2, <2>1 DEF TypeOK
  <2> QED
    BY <1>1, <1>2, <1>7, <2>2 DEF TypeOK
<1>10. Steps' = Steps /\ Seeds' = Seeds /\ \A z : Followed(z)' = Followed(z)
  BY <1>1 DEF Steps, Seeds, Followed, Neighbours
<1>11. LeastClosed(Seeds, Steps)' = LeastClosed(Seeds, Steps)
  BY <1>10 DEF LeastClosed
<1>12. x \in LeastClosed(Seeds, Steps) /\ Followed(x) \subseteq LeastClosed(Seeds, Steps)
  <2>1. x \in LeastClosed(Seeds, Steps)
    BY <1>3, <1>7 DEF InSearch
  <2>2. Seeds \in SUBSET OIDs /\ Steps \in [OIDs -> SUBSET OIDs] /\ Steps[x] = Followed(x)
    BY <1>1, <1>2, <1>7, StepsAre, StepTypes DEF Steps
  <2> QED
    BY <2>1, <2>2, LeastClosedFacts
<1>13. InSearch'
  <2>1. Seeds' \subseteq (processed \cup Queued)'
    BY <1>3, <1>8, <1>10 DEF InSearch
  <2>2. (processed \cup Queued)' \subseteq LeastClosed(Seeds, Steps)'
    BY <1>3, <1>8, <1>11, <1>12 DEF InSearch
  <2>3. ASSUME NEW z \in processed'
        PROVE  /\ Followed(z)' \subseteq (processed \cup Queued)'
               /\ \A y \in Followed(z)' : <<{z, y}, edgeLabel'>> \in connections'
    BY <1>1, <1>3, <1>8, <1>10 DEF InSearch
  <2> QED
    BY <2>1, <2>2, <2>3 DEF InSearch
<1>14. CASE phase = "offshoots"
  <2>1. x \in OffshootsOf /\ Followed(x) \subseteq OffshootsOf
    BY <1>1, <1>2, <1>12, <1>14, StepsAre
  <2>2. edgeLabel = Offshoot
    BY <1>1, <1>2, <1>14 DEF GraphInv
  <2>3. {<<{x, id}, edgeLabel>> : id \in Followed(x)} \subseteq OwnEdges
    BY <2>1, <2>2 DEF OwnEdges, Followed, Neighbours
  <2>4. connections' \subseteq OwnEdges'
    BY <1>1, <1>2, <1>14, <2>3, SameGraph DEF GraphInv
  <2>5. GraphInv'
    BY <1>1, <1>2, <1>13, <1>14, <2>4 DEF GraphInv
  <2> QED
    BY <1>1, <1>9, <2>5 DEF SearchInv, LinksInv
<1>15. CASE phase # "offshoots"
  <2>1. Steps = Extra(edgeLabel, OffshootsOf) /\ Seeds = OffshootsOf
    BY <1>1, <1>2, <1>15, StepsAre
  <2>2. Steps[x] = Followed(x)
    BY <1>7 DEF Steps
  <2>3. {<<{x, id}, edgeLabel>> : id \in Followed(x)} \subseteq EdgesOf(edgeLabel, OffshootsOf)
    BY <1>12, <2>1, <2>2 DEF EdgesOf
  <2>4. edgeLabel \in Labels \ DirectLabels
    BY <1>2, <1>3, <1>15 DEF TypeOK
  <2>5. connections' \subseteq Asked
    BY <1>1, <1>2, <1>15, <2>3, <2>4 DEF GraphInv, Asked
  <2>6. Asked' = Asked /\ OffshootsOf' = OffshootsOf /\ OwnEdges' = OwnEdges
    BY <1>1, SameGraph
  <2>7. EarlierWhole'
    <3>1. EarlierWhole
      BY <1>1, <1>2, <1>15 DEF GraphInv
    <3>2. ASSUME NEW lbl \in Labels, lbl # edgeLabel
          PROVE  Recorded(lbl)' = Recorded(lbl) /\ EdgesOf(lbl, OffshootsOf)' = EdgesOf(lbl, OffshootsOf)
      BY <1>1, <2>6, <3>2 DEF Recorded, EdgesOf, Extra, LeastClosed, Linked, KindsOf
    <3> QED
      BY <1>1, <3>1, <3>2 DEF EarlierWhole
  <2>8. GraphInv'
    BY <1>1, <1>2, <1>3, <1>13, <1>15, <2>5, <2>6, <2>7 DEF GraphInv, KindsOf
  <2> QED
    BY <1>1, <1>9, <2>8 DEF SearchInv, LinksInv
<1> QED
  BY <1>14, <1>15

LEMMA OffshootsFoundInv ==
    ASSUME SearchInv, OffshootsFound PROVE SearchInv'
<1>1. /\ request = "ResourceGraph" /\ phase = "offshoots" /\ phase' = "labels"
      /\ idsToProcess = <<>>
      /\ offshoots' = processed /\ skipGKs' = KindsOf(processed)
      /\ UNCHANGED <<g, request, oid, edgeLabel, idsToProcess, processed, processedGK, result,
                     include, connections>>
  BY DEF OffshootsFound, Searching, asked, linksVars
<1>2. TypeOK /\ GraphInv
  BY DEF SearchInv
<1>3. edgeLabel = Offshoot /\ skipGKs = {} /\ InSearch /\ connections \subseteq OwnEdges
  BY <1>1, <1>2 DEF GraphInv
<1>4. processed = OffshootsOf
  BY <1>1, <1>2, <1>3, StepsAre, SearchEnd
<1>5. OwnEdges \subseteq connections
  <2> SUFFICES ASSUME NEW p \in g[Offshoot], p \subseteq OffshootsOf
               PROVE  <<p, Offshoot>> \in connections
    BY DEF OwnEdges
  <2>1. PICK a, b \in OIDs : a # b /\ p = {a, b}
    BY <1>2, MayLinkAssumption, LabelAssumption DEF TypeOK, LinkSets
  <2>2. a \in processed /\ b \in Followed(a)
    BY <1>3, <1>4, <2>1 DEF Followed, Neighbours
  <2> QED
    BY <1>3, <2>1, <2>2 DEF InSearch
<1>6. TypeOK'
  BY <1>1, <1>2 DEF TypeOK, Phases, KindsOf
<1>7. /\ OffshootsOf' = OffshootsOf /\ OwnEdges' = OwnEdges /\ Asked' = Asked
  BY <1>1, SameGraph
<1>8. EarlierWhole'
  <2>1. connections \subseteq {<<p, Offshoot>> : p \in g[Offshoot]}
    BY <1>3 DEF OwnEdges
  <2> QED
    BY <1>1, <2>1, LabelAssumption DEF EarlierWhole, Recorded
<1>9. GraphInv'
  BY <1>1, <1>3, <1>4, <1>5, <1>7, <1>8, LabelAssumption DEF GraphInv, Asked, KindsOf
<1> QED
  BY <1>1, <1>6, <1>9 DEF SearchInv, LinksInv

LEMMA NextLabelInv ==
    ASSUME SearchInv, NextLabel PROVE SearchInv'
<1>1. /\ phase = "labels" /\ idsToProcess = <<>> /\ processed' = {}
      /\ UNCHANGED <<g, request, oid, phase, processedGK, result, offshoots, skipGKs, connections>>
  BY DEF NextLabel, asked, linksVars
<1>2. TypeOK /\ GraphInv /\ request = "ResourceGraph"
  BY <1>1 DEF SearchInv, TypeOK, LinksInv, LinksSound
<1>3. PICK k \in DOMAIN include :
        /\ include[k] \notin DirectLabels
        /\ edgeLabel' = include[k]
        /\ include' = SubSeq(include, k + 1, Len(include))
  BY DEF NextLabel
<1>4. include \in Seq(Labels) /\ k \in 1 .. Len(include) /\ Len(include) \in Nat
  BY <1>2, <1>3 DEF TypeOK
<1>5. edgeLabel' \in Labels \ DirectLabels /\ include' \in Seq(Labels)
  BY <1>3, <1>4
<1>6. PICK seeds \in AnyOrder(offshoots) : idsToProcess' = seeds
  BY DEF NextLabel
<1>7. idsToProcess' \in Seq(OIDs) /\ Queued' = offshoots
  BY <1>2, <1>6, AnyOrderFacts DEF TypeOK, Queued
<1>8. TypeOK'
  BY <1>1, <1>2, <1>5, <1>7 DEF TypeOK
<1>9. offshoots = OffshootsOf /\ OffshootsOf \subseteq OIDs
  BY <1>1, <1>2, OffshootsFacts DEF GraphInv
<1>10. Seeds' = offshoots
  BY <1>1 DEF Seeds
<1>11. offshoots \subseteq LeastClosed(Seeds, Steps)'
  <2>1. Steps' \in [OIDs -> SUBSET OIDs]
    BY DEF Steps, Followed, Neighbours
  <2>2. LeastClosed(Seeds, Steps)' = LeastClosed(Seeds', Steps')
    BY DEF LeastClosed
  <2> QED
    BY <1>9, <1>10, <2>1, <2>2, LeastClosedFacts
<1>12. InSearch'
  BY <1>1, <1>7, <1>10, <1>11 DEF InSearch
<1>13. /\ OffshootsOf' = OffshootsOf /\ OwnEdges' = OwnEdges /\ Asked' = Asked
  BY <1>1, SameGraph
<1>14. EarlierWhole'
  <2>1. EarlierWhole
    BY <1>1, <1>2 DEF GraphInv
  <2>2. ASSUME NEW lbl \in Labels
        PROVE  /\ Recorded(lbl)' = Recorded(lbl)
               /\ EdgesOf(lbl, OffshootsOf)' = EdgesOf(lbl, OffshootsOf)
    BY <1>1, <1>13 DEF Recorded, EdgesOf, Extra, LeastClosed, Linked, KindsOf
  <2>3. edgeLabel \notin DirectLabels => EdgesOf(edgeLabel, OffshootsOf) \subseteq connections
    BY <1>1, <1>2, SearchRecorded
  <2> QED
    BY <1>1, <2>1, <2>2, <2>3 DEF EarlierWhole
<1>15. GraphInv'
  BY <1>1, <1>2, <1>5, <1>12, <1>13, <1>14 DEF GraphInv, KindsOf
<1> QED
  BY <1>1, <1>2, <1>8, <1>15 DEF SearchInv, LinksInv

LEMMA RespondInv ==
    ASSUME SearchInv, Respond PROVE SearchInv'
<1>1. /\ phase = "labels" /\ phase' \in {"done", "failed"}
      /\ UNCHANGED <<g, request, oid, edgeLabel, idsToProcess, processed, processedGK, result,
                     include, offshoots, skipGKs, connections>>
  BY DEF Respond, asked, linksVars, graphVars
<1>2. TypeOK /\ GraphInv /\ request = "ResourceGraph"
  BY <1>1 DEF SearchInv, TypeOK, LinksInv, LinksSound
<1>3. TypeOK'
  BY <1>1, <1>2 DEF TypeOK, Phases
<1>4. InSearch' <=> InSearch
  BY <1>1 DEF InSearch, Seeds, Steps, Queued, LeastClosed, Followed, Neighbours
<1>5. /\ OffshootsOf' = OffshootsOf /\ OwnEdges' = OwnEdges /\ Asked' = Asked
  BY <1>1, SameGraph
<1>6. EarlierWhole' <=> EarlierWhole
  BY <1>1, <1>5 DEF EarlierWhole, Recorded, EdgesOf, Extra, LeastClosed, Linked, KindsOf
<1>7. GraphInv'
  BY <1>1, <1>2, <1>4, <1>5, <1>6 DEF GraphInv, KindsOf
<1> QED
  BY <1>1, <1>2, <1>3, <1>7 DEF SearchInv, LinksInv

LEMMA StutterInv ==
    ASSUME SearchInv, UNCHANGED vars PROVE SearchInv'
<1>1. UNCHANGED <<g, request, oid, phase, edgeLabel, idsToProcess, processed, processedGK, result,
                  include, offshoots, skipGKs, connections>>
  BY DEF vars, asked, linksVars, graphVars
<1>2. /\ OffshootsOf' = OffshootsOf /\ OwnEdges' = OwnEdges /\ Asked' = Asked
      /\ \A lbl, x : Linked(lbl, x)' = Linked(lbl, x)
  BY <1>1, SameGraph
<1>3. Connected' = Connected /\ Queued' = Queued /\ SeedBound' = SeedBound
  BY <1>1, <1>2 DEF Connected, LeastClosed, SeedBound, LinkedBy, Queued
<1>4. InSearch' <=> InSearch
  BY <1>1 DEF InSearch, Seeds, Steps, Queued, LeastClosed, Followed, Neighbours
<1>5. TypeOK'
  BY <1>1 DEF SearchInv, TypeOK
<1>6. LinksInv'
  BY <1>1, <1>2, <1>3 DEF SearchInv, LinksInv, LinksSound, LinksKinds, OidFirst, LinksWhole, NeighboursFound,
                           KindsOf
<1>7. EarlierWhole' <=> EarlierWhole
  BY <1>1, <1>2 DEF EarlierWhole, Recorded, EdgesOf, Extra, LeastClosed, Linked, KindsOf
<1>8. GraphInv'
  BY <1>1, <1>2, <1>4, <1>7 DEF SearchInv, GraphInv, KindsOf
<1> QED
  BY <1>5, <1>6, <1>8 DEF SearchInv

LEMMA SearchInvariant == Spec => []SearchInv
<1>1. SearchInv /\ [Next]_vars => SearchInv'
  BY VisitInv, StartLinksInv, ReturnInv, ConnectVisitInv, OffshootsFoundInv, NextLabelInv,
     RespondInv, StutterInv DEF Next
<1> QED
  BY <1>1, InitSearch, PTL DEF Spec
-----------------------------------------------------------------------------
(* The state of a search keeps its types: nothing but objects is queued,   *)
(* and every connection is a pair that a descriptor can link.              *)
THEOREM SearchTypes == Spec => []TypeOK
<1>1. SearchInv => TypeOK
  BY DEF SearchInv
<1> QED
  BY <1>1, SearchInvariant, PTL

(* Links never returns the object itself, nor an object that no chain of   *)
(* links connects to it, in every graph and for every label.               *)
THEOREM LinksOnlyConnected == Spec => []OnlyConnected
<1>1. SearchInv => OnlyConnected
  BY DEF SearchInv, LinksInv, LinksSound, OnlyConnected, LinksDone, Connected
<1> QED
  BY <1>1, SearchInvariant, PTL

(* The kind filter of connectedOIDs hides no object linked to the one asked*)
(* about, and no kind altogether that this object or one of the answer is  *)
(* linked to, apart from the kinds that the search started from.           *)
THEOREM LinksFindKinds == Spec => [](LinksDone => NeighboursFound /\ KindsFound)
<1>1. SearchInv => (LinksDone => NeighboursFound /\ KindsFound)
  <2> SUFFICES ASSUME SearchInv, LinksDone PROVE NeighboursFound /\ KindsFound
    OBVIOUS
  <2>1. LinksSound /\ LinksKinds /\ OidFirst /\ LinksWhole /\ phase = "done"
    BY DEF SearchInv, LinksInv, LinksDone
  <2>2. Queued = {} /\ idsToProcess = <<>>
    BY <2>1 DEF LinksSound, Queued, ToSet
  <2>3. NeighboursFound
    BY <2>1, <2>2 DEF OidFirst
  <2>4. ASSUME NEW x \in result \cup {oid}
        PROVE  KindsOf(Linked(edgeLabel, x)) \subseteq KindsOf(result) \cup KindsOf(SeedBound)
    <3>1. KindsOf(Linked(edgeLabel, x)) \subseteq KindsOf(processed)
      BY <2>1, <2>2 DEF LinksKinds, LinksWhole, KindsOf
    <3>2. KindsOf(processed) \subseteq KindsOf(result) \cup KindsOf(SeedBound)
      BY <2>1, <2>2 DEF LinksWhole, KindsOf
    <3> QED
      BY <3>1, <3>2
  <2> QED
    BY <2>3, <2>4 DEF KindsFound
<1> QED
  BY <1>1, SearchInvariant, PTL

-----------------------------------------------------------------------------
(* Links along a direct label, where each kind has one distance d.  The    *)
(* queue is in the order of the distances, apart from entries that repeat  *)
(* an object or have been processed: what is queued and not processed has  *)
(* one of two neighbouring distances, no object nearer than those is left, *)
(* and the kind filter has hidden nothing.                                 *)
Pending == Queued \ processed

InOrder(d) ==
    \A i, j \in DOMAIN idsToProcess :
        (/\ i < j
         /\ {idsToProcess[i], idsToProcess[j]} \cap processed = {}
         /\ d[idsToProcess[j]] < d[idsToProcess[i]])
        => \E h \in DOMAIN idsToProcess : h < i /\ idsToProcess[h] = idsToProcess[j]

Nearest(d) ==
    /\ InOrder(d)
    /\ \A x, y \in Pending : d[x] <= d[y] + 1
    /\ \A x \in processed, y \in Pending : d[x] <= d[y]
    /\ \A x \in Reached \ processed : \E y \in Pending : d[y] <= d[x]

NothingHidden ==
    /\ processed \cup Queued \subseteq Reached
    /\ processed \cup Queued \subseteq result \cup {oid}
    /\ oid \in processed \cup Queued
    /\ \A x \in processed : Linked(edgeLabel, x) \subseteq processed \cup Queued

ChainInv ==
    (request = "Links" /\ edgeLabel \in DirectLabels) =>
        /\ phase = "links" =>
              \A d \in [Reached -> Nat] : Layers(d) => Nearest(d) /\ NothingHidden
        /\ phase = "done" => ChainsFound

LEMMA ReachedFacts ==
    ASSUME TypeOK
    PROVE  /\ Reached \subseteq OIDs /\ oid \in Reached
           /\ \A x \in Reached : Linked(edgeLabel, x) \subseteq Reached
           /\ \A C \in SUBSET OIDs :
                 (oid \in C /\ \A x \in C : Linked(edgeLabel, x) \subseteq C) => Reached \subseteq C
<1>1. LinkedBy(edgeLabel) \in [OIDs -> SUBSET OIDs]
      /\ \A x \in OIDs : LinkedBy(edgeLabel)[x] = Linked(edgeLabel, x)
  BY StepTypes DEF LinkedBy, TypeOK
<1>2. {oid} \in SUBSET OIDs
  BY DEF TypeOK
<1>3. /\ Reached \subseteq OIDs /\ {oid} \subseteq Reached
      /\ \A x \in Reached : LinkedBy(edgeLabel)[x] \subseteq Reached
      /\ \A C \in SUBSET OIDs :
            ({oid} \subseteq C /\ \A x \in C : LinkedBy(edgeLabel)[x] \subseteq C) => Reached \subseteq C
  BY <1>1, <1>2, LeastClosedFacts DEF Reached
<1> QED
  BY <1>1, <1>3

LEMMA LinkedBothWays ==
    ASSUME NEW x \in OIDs, NEW y \in Linked(edgeLabel, x) PROVE x \in Linked(edgeLabel, y)
<1>1. {x, y} = {y, x}
  OBVIOUS
<1> QED
  BY <1>1 DEF Linked

(* The queue after a visit, entry by entry. *)
LEMMA EntriesAfter ==
    ASSUME NEW s \in Seq(OIDs), s # <<>>, NEW more \in Seq(OIDs)
    PROVE  LET t == Tail(s) \o more
               n == Len(s) - 1
           IN  /\ n \in Nat
               /\ DOMAIN s = 1 .. n + 1
               /\ DOMAIN t = 1 .. n + Len(more) /\ Len(more) \in Nat
               /\ Head(s) = s[1]
               /\ \A i \in 1 .. n : t[i] = s[i + 1]
               /\ \A i \in DOMAIN t : i > n => t[i] \in ToSet(more)
<1> DEFINE t == Tail(s) \o more
           n == Len(s) - 1
<1>1. n \in Nat /\ Tail(s) \in Seq(OIDs) /\ Len(Tail(s)) = n /\ Len(more) \in Nat
  OBVIOUS
<1>2. DOMAIN s = 1 .. n + 1 /\ DOMAIN t = 1 .. n + Len(more) /\ Head(s) = s[1]
  BY <1>1
<1>3. \A i \in 1 .. n : t[i] = s[i + 1]
  BY <1>1
<1>4. ASSUME NEW i \in DOMAIN t, i > n PROVE t[i] \in ToSet(more)
  <2>1. i - n \in DOMAIN more /\ t[i] = more[i - n]
    BY <1>1, <1>2, <1>4
  <2> QED
    BY <2>1 DEF ToSet
<1> QED
  BY <1>1, <1>2, <1>3, <1>4

LEMMA ChainVisit ==
    ASSUME SearchInv, NothingHidden, phase = "links", edgeLabel \in DirectLabels, Visit,
           NEW d \in [Reached -> Nat], Layers(d), Nearest(d)
    PROVE  Nearest(d)' /\ NothingHidden'
<1> DEFINE x == Head(idsToProcess)
           rest == ToSet(Tail(idsToProcess))
           edges == Found(x)
<1>1. /\ idsToProcess # <<>>
      /\ UNCHANGED <<g, oid, edgeLabel>>
      /\ processed' = processed \cup {x}
      /\ result' = result \cup edges
  BY DEF Visit, asked
<1>2. TypeOK /\ processedGK = KindsOf(processed)
  BY DEF SearchInv, LinksInv, LinksKinds, Visit, Searching
<1>3. edges = {y \in Linked(edgeLabel, x) : y \notin processed \cup {x} /\ GK[y] \notin KindsOf(processed)}
  BY <1>2 DEF Found, Neighbours, Linked, Label
<1>4. edges \in SUBSET OIDs
  BY <1>3 DEF Linked
<1>5. PICK more \in AnyOrder(edges) : idsToProcess' = Tail(idsToProcess) \o more
  BY DEF Visit
<1>6. more \in Seq(OIDs) /\ ToSet(more) = edges
  BY <1>4, <1>5, AnyOrderFacts
<1>7. /\ x \in OIDs
      /\ Queued = {x} \cup rest
      /\ Queued' = rest \cup edges
  BY <1>1, <1>2, <1>5, <1>6, QueueFacts DEF Queued, TypeOK
<1> DEFINE n == Len(idsToProcess) - 1
<1>8. /\ n \in Nat
      /\ DOMAIN idsToProcess = 1 .. n + 1
      /\ DOMAIN idsToProcess' = 1 .. n + Len(more) /\ Len(more) \in Nat
      /\ x = idsToProcess[1]
      /\ \A i \in 1 .. n : idsToProcess'[i] = idsToProcess[i + 1]
      /\ \A i \in DOMAIN idsToProcess' : i > n => idsToProcess'[i] \in edges
  BY <1>1, <1>2, <1>5, <1>6, EntriesAfter DEF TypeOK
<1>9. rest = {idsToProcess'[i] : i \in 1 .. n}
  <2>1. Tail(idsToProcess) \in Seq(OIDs) /\ Len(Tail(idsToProcess)) = n
    BY <1>1, <1>2 DEF TypeOK
  <2>2. DOMAIN Tail(idsToProcess) = 1 .. n
    BY <2>1
  <2>3. \A i \in 1 .. n : Tail(idsToProcess)[i] = idsToProcess'[i]
    BY <1>5, <1>6, <2>1, <1>8
  <2> QED
    BY <2>2, <2>3 DEF ToSet
<1>10. /\ Reached' = Reached
       /\ \A z : Linked(edgeLabel, z)' = Linked(edgeLabel, z)
  BY <1>1, SameGraph DEF Reached, LeastClosed
<1> HIDE DEF x, rest, edges, n
<1>11. x \in Reached /\ edges \subseteq Reached /\ Reached \subseteq OIDs
  BY <1>2, <1>3, <1>7, ReachedFacts DEF NothingHidden
<1>12. \A y \in Reached : d[y] \in Nat
  OBVIOUS
(* With a new object at the head, what is no farther is known. *)
<1>13. ASSUME x \notin processed
       PROVE  /\ \A y \in Pending : d[x] <= d[y]
              /\ \A y \in Reached : d[y] < d[x] => y \in processed
              /\ \A y \in Reached : d[y] <= d[x] => y \in processed \cup Queued
  <2>1. ASSUME NEW y \in Pending PROVE d[x] <= d[y]
    <3>1. PICK j \in DOMAIN idsToProcess : idsToProcess[j] = y
      BY <2>1 DEF Pending, Queued, ToSet
    <3>2. CASE j = 1
      BY <1>8, <1>11, <1>12, <3>1, <3>2
    <3>3. CASE j # 1
      <4>1. 1 \in DOMAIN idsToProcess /\ 1 < j /\ {idsToProcess[1], idsToProcess[j]} \cap processed = {}
        BY <1>8, <1>13, <2>1, <3>1, <3>3 DEF Pending
      <4>2. ~ \E h \in DOMAIN idsToProcess : h < 1 /\ idsToProcess[h] = idsToProcess[j]
        BY <1>8
      <4>3. ~ (d[y] < d[x])
        BY <1>8, <3>1, <4>1, <4>2 DEF Nearest, InOrder
      <4>4. y \in Reached
        BY <2>1 DEF Pending, NothingHidden
      <4> QED
        BY <1>11, <1>12, <4>3, <4>4
    <3> QED
      BY <3>2, <3>3
  <2>2. ASSUME NEW y \in Reached, d[y] < d[x], y \notin processed PROVE FALSE
    <3>1. PICK z \in Pending : d[z] <= d[y]
      BY <2>2 DEF Nearest
    <3>2. z \in Reached
      BY <3>1 DEF Pending, NothingHidden
    <3> QED
      BY <1>11, <1>12, <2>1, <2>2, <3>1, <3>2
  <2>3. ASSUME NEW y \in Reached, d[y] <= d[x] PROVE y \in processed \cup Queued
    <3>1. CASE y = oid
      BY <3>1 DEF NothingHidden
    <3>2. CASE y # oid
      <4>1. PICK z \in Linked(edgeLabel, y) : d[y] = d[z] + 1
        BY <2>3, <3>2 DEF Layers, IsDistance
      <4>2. z \in Reached
        BY <1>2, <4>1, ReachedFacts
      <4>3. z \in processed
        BY <1>11, <1>12, <2>2, <2>3, <4>1, <4>2
      <4>4. y \in Linked(edgeLabel, z)
        BY <1>11, <4>1, LinkedBothWays
      <4> QED
        BY <4>3, <4>4 DEF NothingHidden
    <3> QED
      BY <3>1, <3>2
  <2> QED
    BY <2>1, <2>2, <2>3
<1>14. ASSUME NEW y \in Linked(edgeLabel, x) PROVE y \in processed \cup Queued \cup edges
  <2>1. CASE x \in processed
    BY <1>14, <2>1 DEF NothingHidden
  <2>2. CASE x \notin processed /\ y \notin edges
    <3>1. y \in processed \cup {x} \/ GK[y] \in KindsOf(processed)
      BY <1>3, <1>14, <2>2
    <3>2. ASSUME NEW z \in processed, GK[z] = GK[y] PROVE y \in processed \cup Queued
      <4>1. y \in Reached /\ z \in Reached /\ x \in Pending
        BY <1>2, <1>7, <1>11, <1>14, <2>2, <3>2, ReachedFacts DEF NothingHidden, Pending
      <4>2. d[y] = d[z] /\ d[z] <= d[x]
        BY <3>2, <4>1 DEF Layers, Nearest
      <4> QED
        BY <1>13, <2>2, <4>1, <4>2
    <3> QED
      BY <1>7, <3>1, <3>2 DEF KindsOf
  <2> QED
    BY <2>1, <2>2
(* A found object that is not queued is a step farther than the head. *)
<1>15. ASSUME NEW y \in edges, y \notin rest PROVE x \notin processed /\ d[y] = d[x] + 1
  <2>1. y \in Linked(edgeLabel, x) /\ y \notin processed \cup {x} /\ y \in Reached
    BY <1>3, <1>11, <1>15
  <2>2. x \notin processed
    BY <1>7, <1>15, <2>1 DEF NothingHidden
  <2>3. d[y] <= d[x] + 1
    BY <1>11, <2>1 DEF Layers, IsDistance
  <2>4. ~ (d[y] <= d[x])
    BY <1>7, <1>13, <1>15, <2>1, <2>2
  <2> QED
    BY <1>11, <1>12, <2>1, <2>2, <2>3, <2>4
<1>16. NothingHidden'
  <2>1. (processed \cup Queued)' = processed \cup Queued \cup edges
    BY <1>1, <1>7
  <2>2. \A z \in processed' : Linked(edgeLabel, z) \subseteq processed \cup Queued \cup edges
    BY <1>1, <1>14 DEF NothingHidden
  <2> QED
    BY <1>1, <1>10, <1>11, <2>1, <2>2 DEF NothingHidden
<1>17. Pending' = (Pending \ {x}) \cup (edges \ rest)
  <2>1. edges \cap (processed \cup {x}) = {}
    BY <1>3
  <2> QED
    BY <1>1, <1>7, <2>1 DEF Pending
<1>18. Pending' \subseteq Reached /\ Pending \subseteq Reached /\ processed \subseteq Reached
  BY <1>10, <1>16 DEF NothingHidden, Pending
<1>19. \A y, z \in Pending' : d[y] <= d[z] + 1
  <2>1. CASE x \in processed
    BY <1>15, <1>17, <2>1 DEF Nearest
  <2>2. CASE x \notin processed
    <3>1. x \in Pending
      BY <1>7, <2>2 DEF Pending
    <3>2. \A y \in Pending' : d[x] <= d[y] /\ d[y] <= d[x] + 1
      BY <1>11, <1>12, <1>13, <1>15, <1>17, <2>2, <3>1 DEF Nearest
    <3> QED
      BY <1>11, <1>12, <1>18, <3>2
  <2> QED
    BY <2>1, <2>2
<1>20. \A z \in processed', y \in Pending' : d[z] <= d[y]
  <2>1. CASE x \in processed
    BY <1>1, <1>15, <1>17, <2>1 DEF Nearest
  <2>2. CASE x \notin processed
    <3>1. x \in Pending
      BY <1>7, <2>2 DEF Pending
    <3>2. \A y \in Pending' : d[x] <= d[y]
      BY <1>11, <1>12, <1>13, <1>15, <1>17, <2>2, <3>1
    <3>3. \A z \in processed' : d[z] <= d[x]
      BY <1>1, <1>11, <1>12, <3>1 DEF Nearest
    <3>4. processed' \subseteq Reached
      BY <1>1, <1>11, <1>18
    <3> QED
      BY <1>11, <1>12, <1>18, <3>2, <3>3, <3>4
  <2> QED
    BY <2>1, <2>2
<1>21. ASSUME NEW w \in Reached \ processed' PROVE \E y \in Pending' : d[y] <= d[w]
  <2>1. PICK z \in Pending : d[z] <= d[w]
    BY <1>1, <1>21 DEF Nearest
  <2>2. CASE z # x
    BY <1>17, <2>1, <2>2
  <2>3. CASE z = x
    <3>1. x \notin processed
      BY <2>1, <2>3 DEF Pending
    <3>2. CASE d[w] <= d[x]
      <4>1. w \in Pending'
        BY <1>1, <1>13, <1>17, <1>21, <3>1, <3>2 DEF Pending
      <4> QED
        BY <1>12, <1>21, <4>1
    <3>3. CASE d[w] > d[x]
      <4>1. Pending' # {}
        <5> SUFFICES ASSUME Pending' = {} PROVE FALSE
          OBVIOUS
        <5>1. Queued' \subseteq processed'
          BY DEF Pending
        <5>2. /\ processed' \in SUBSET OIDs /\ oid \in processed'
              /\ \A y \in processed' : Linked(edgeLabel, y) \subseteq processed'
          BY <1>1, <1>10, <1>11, <1>16, <5>1 DEF NothingHidden
        <5>3. Reached \subseteq processed'
          BY <1>2, <5>2, ReachedFacts
        <5> QED
          BY <1>21, <5>3
      <4>2. PICK y \in Pending' : TRUE
        BY <4>1
      <4>3. d[y] <= d[x] + 1
        BY <1>11, <1>12, <1>15, <1>17, <2>1, <2>3, <4>2 DEF Nearest
      <4> QED
        BY <1>11, <1>12, <1>18, <1>21, <3>3, <4>2, <4>3
    <3> QED
      BY <1>11, <1>12, <1>21, <3>2, <3>3
  <2> QED
    BY <2>2, <2>3
<1>22. InOrder(d)'
  <2> SUFFICES ASSUME NEW i \in DOMAIN idsToProcess', NEW j \in DOMAIN idsToProcess', i < j,
                      {idsToProcess'[i], idsToProcess'[j]} \cap processed' = {},
                      d[idsToProcess'[j]] < d[idsToProcess'[i]]
               PROVE  \E h \in DOMAIN idsToProcess' : h < i /\ idsToProcess'[h] = idsToProcess'[j]
    BY DEF InOrder
  <2> DEFINE a == idsToProcess'[i]
             b == idsToProcess'[j]
  <2>1. i \in Nat /\ j \in Nat /\ i >= 1 /\ j >= 1 /\ Len(more) \in Nat
    BY <1>8
  <2>0. a \in Pending' /\ b \in Pending'
    <3>1. a \in Queued' /\ b \in Queued'
      BY DEF Queued, ToSet
    <3> QED
      BY <3>1 DEF Pending
  <2>2. a \notin processed \cup {x} /\ b \notin processed \cup {x} /\ d[b] < d[a] /\ a # b
    <3>1. a \in Reached /\ b \in Reached
      BY <1>18, <2>0
    <3>2. d[a] \in Nat /\ d[b] \in Nat
      BY <1>12, <3>1
    <3>3. d[b] < d[a]
      OBVIOUS
    <3>4. a # b
      BY <3>2, <3>3
    <3> QED
      BY <1>1, <3>3, <3>4
  <2>3. ASSUME NEW k \in 1 .. n, i <= n, i < k, idsToProcess'[k] = b
        PROVE  \E h \in DOMAIN idsToProcess' : h < i /\ idsToProcess'[h] = b
    <3>1. /\ i + 1 \in DOMAIN idsToProcess /\ k + 1 \in DOMAIN idsToProcess /\ i + 1 < k + 1
          /\ idsToProcess[i + 1] = a /\ idsToProcess[k + 1] = b
      BY <1>8, <2>1, <2>3
    <3>2. PICK h \in DOMAIN idsToProcess : h < i + 1 /\ idsToProcess[h] = b
      BY <2>2, <3>1 DEF Nearest, InOrder
    <3>3. h # 1
      BY <1>8, <2>2, <3>2
    <3>4. h - 1 \in 1 .. n /\ h - 1 < i /\ h \in Nat
      BY <1>8, <2>1, <3>2, <3>3
    <3>5. idsToProcess'[h - 1] = b
      BY <1>8, <3>2, <3>4
    <3>6. h - 1 \in DOMAIN idsToProcess'
      BY <1>8, <3>4
    <3> QED
      BY <3>4, <3>5, <3>6
  <2>4. ASSUME NEW k \in 1 .. n, idsToProcess'[k] = b
        PROVE  \E h \in DOMAIN idsToProcess' : h < i /\ idsToProcess'[h] = b
    <3>0. k \in Nat /\ k \in DOMAIN idsToProcess'
      BY <1>8
    <3>1. CASE k < i
      BY <2>4, <3>0, <3>1
    <3>2. CASE k = i
      BY <2>2, <2>4, <3>2
    <3>3. CASE i < k
      BY <1>8, <2>1, <2>3, <2>4, <3>0, <3>3
    <3> QED
      BY <2>1, <3>0, <3>1, <3>2, <3>3
  <2>5. CASE b \in rest
    BY <1>9, <2>4, <2>5
  <2>6. CASE b \notin rest
    <3>1. j > n
      BY <1>8, <1>9, <2>1, <2>6
    <3>2. b \in edges
      BY <1>8, <3>1
    <3>3. x \notin processed /\ d[b] = d[x] + 1
      BY <2>6, <3>2, <1>15
    <3>4. x \in Pending
      BY <1>7, <3>3 DEF Pending
    <3>5. CASE a \in edges \ rest
      <4>1. d[a] = d[x] + 1
        BY <1>15, <3>5
      <4> QED
        BY <1>11, <1>12, <2>2, <3>3, <4>1
    <3>6. CASE a \in Pending \ {x}
      <4>1. d[a] <= d[x] + 1
        BY <3>4, <3>6 DEF Nearest
      <4>2. d[a] \in Nat /\ d[x] \in Nat
        BY <1>11, <1>12, <1>18, <3>6
      <4> QED
        BY <2>2, <3>3, <4>1, <4>2
    <3> QED
      BY <1>17, <2>0, <3>5, <3>6
  <2> QED
    BY <2>5, <2>6
<1> QED
  BY <1>10, <1>16, <1>19, <1>20, <1>21, <1>22 DEF Nearest

LEMMA InitChain == Init => ChainInv
<1> SUFFICES ASSUME Init, request = "Links", edgeLabel \in DirectLabels PROVE ChainInv
  BY DEF ChainInv
<1>1. phase = "links" /\ TypeOK
  BY InitTypes DEF Init, AskLinks, AskResourceGraph
<1>2. Queued = {oid} /\ processed = {} /\ DOMAIN idsToProcess = 1 .. 1
  BY DEF Init, Queued, ToSet
<1>3. oid \in Reached
  BY <1>1, ReachedFacts
<1>4. NothingHidden
  BY <1>2, <1>3 DEF NothingHidden
<1>5. ASSUME NEW d \in [Reached -> Nat], Layers(d) PROVE Nearest(d)
  <2>1. InOrder(d)
    <3>1. \A i, j \in 1 .. 1 : ~ (i < j)
      OBVIOUS
    <3> QED
      BY <1>2, <3>1 DEF InOrder
  <2>2. Pending = {oid} /\ d[oid] = 0 /\ \A x \in Reached : d[x] \in Nat
    BY <1>2, <1>5 DEF Pending, Layers, IsDistance
  <2> QED
    BY <1>2, <2>1, <2>2 DEF Nearest
<1> QED
  BY <1>1, <1>4, <1>5 DEF ChainInv

LEMMA SameReached ==
    ASSUME UNCHANGED <<g, oid, edgeLabel>>
    PROVE  /\ Reached' = Reached
           /\ \A d : Layers(d)' <=> Layers(d)
           /\ KindLayered' <=> KindLayered
<1>1. Reached' = Reached /\ \A z : Linked(edgeLabel, z)' = Linked(edgeLabel, z)
  BY SameGraph DEF Reached, LeastClosed
<1>2. \A d : Layers(d)' <=> Layers(d)
  BY <1>1 DEF Layers, IsDistance
<1> QED
  BY <1>1, <1>2 DEF KindLayered

(* When the queue is empty every object has been processed. *)
LEMMA ChainReturn ==
    ASSUME SearchInv, ChainInv, request = "Links", edgeLabel \in DirectLabels, Return
    PROVE  ChainsFound'
<1>1. /\ phase = "links" /\ idsToProcess = <<>>
      /\ UNCHANGED <<g, oid, edgeLabel>>
      /\ result' = result \ {oid}
  BY DEF Return, asked
<1>2. TypeOK /\ LinksSound
  BY DEF SearchInv, LinksInv
<1>3. Connected = Reached
  BY DEF Connected, Reached, SeedBound
<1>4. result \subseteq Reached
  BY <1>1, <1>2, <1>3 DEF LinksSound
<1> SUFFICES ASSUME KindLayered PROVE result' = Reached \ {oid}
  BY <1>1, SameReached DEF ChainsFound
<1>5. Reached \in SUBSET OIDs
  BY <1>2, ReachedFacts
<1>6. Cardinality(Reached) \in Nat
  BY <1>5, OIDsAssumption, FS_Subset, FS_CardinalityType
<1>7. PICK d \in [Reached -> 0 .. Cardinality(Reached) - 1] : Layers(d)
  BY DEF KindLayered
<1>8. d \in [Reached -> Nat]
  BY <1>6
<1>9. NothingHidden
  BY <1>1, <1>7, <1>8 DEF ChainInv
<1>10. Queued = {}
  BY <1>1 DEF Queued, ToSet
<1>11. /\ processed \in SUBSET OIDs /\ oid \in processed
       /\ \A x \in processed : Linked(edgeLabel, x) \subseteq processed
  BY <1>2, <1>9, <1>10 DEF NothingHidden, TypeOK
<1>12. Reached \subseteq processed
  BY <1>2, <1>11, ReachedFacts
<1> QED
  BY <1>1, <1>4, <1>9, <1>12 DEF NothingHidden

LEMMA ChainStep == SearchInv /\ ChainInv /\ [Next]_vars => ChainInv'
<1> SUFFICES ASSUME SearchInv, ChainInv, [Next]_vars PROVE ChainInv'
  OBVIOUS
<1>1. CASE Visit
  <2>1. UNCHANGED <<g, oid, edgeLabel, request, phase>> /\ phase # "done"
    BY <1>1 DEF Visit, asked, Searching
  <2>2. ASSUME request = "Links", edgeLabel \in DirectLabels, phase = "links",
               NEW d \in [Reached -> Nat], Layers(d)
        PROVE  Nearest(d)' /\ NothingHidden'
    <3>1. Nearest(d) /\ NothingHidden
      BY <2>2 DEF ChainInv
    <3> QED
      BY <1>1, <2>2, <3>1, ChainVisit
  <2> QED
    BY <2>1, <2>2, SameReached DEF ChainInv
<1>2. CASE StartLinks
  BY <1>2 DEF StartLinks, asked, ChainInv, SearchInv, LinksInv, LinksSound, Searching
<1>3. CASE Return
  <2>1. UNCHANGED <<request, edgeLabel>> /\ phase' = "done"
    BY <1>3 DEF Return, asked
  <2> QED
    BY <1>3, <2>1, ChainReturn DEF ChainInv
<1>4. CASE ConnectVisit \/ OffshootsFound
  BY <1>4 DEF ConnectVisit, OffshootsFound, Searching, asked, ChainInv
<1>5. CASE NextLabel \/ Respond
  <2>1. phase = "labels" /\ request' = request
    BY <1>5 DEF NextLabel, Respond, asked
  <2>2. request # "Links"
    BY <2>1 DEF SearchInv, LinksInv, LinksSound
  <2> QED
    BY <2>1, <2>2 DEF ChainInv
<1>6. CASE UNCHANGED vars
  <2>1. UNCHANGED <<g, request, oid, phase, edgeLabel, idsToProcess, processed, result>>
    BY <1>6 DEF vars, asked, linksVars
  <2>2. /\ Reached' = Reached /\ \A z : Linked(edgeLabel, z)' = Linked(edgeLabel, z)
        /\ \A d : Layers(d)' <=> Layers(d)
        /\ KindLayered' <=> KindLayered
    BY <2>1, SameReached, SameGraph
  <2>3. Queued' = Queued /\ Pending' = Pending
    BY <2>1 DEF Queued, Pending
  <2>4. NothingHidden' <=> NothingHidden
    BY <2>1, <2>2, <2>3 DEF NothingHidden
  <2>5. \A d : Nearest(d)' <=> Nearest(d)
    BY <2>1, <2>2, <2>3 DEF Nearest, InOrder
  <2>6. ChainsFound' <=> ChainsFound
    BY <2>1, <2>2 DEF ChainsFound
  <2> QED
    BY <2>1, <2>2, <2>4, <2>5, <2>6 DEF ChainInv
<1> QED
  BY <1>1, <1>2, <1>3, <1>4, <1>5, <1>6 DEF Next

(* What the kind filter of connectedOIDs cannot hide from Links, whatever  *)
(* the graph and the order of the maps: an object directly linked to the   *)
(* one asked about, a kind altogether that this object or one of the       *)
(* answer is linked to and the search did not start from, and, for a       *)
(* direct label along which every kind has one distance from the object,   *)
(* anything at all.                                                        *)
THEOREM LinksAreComplete == Spec => []LinksComplete
<1>1. ChainInv => (LinksDone /\ edgeLabel \in DirectLabels => ChainsFound)
  BY DEF ChainInv, LinksDone
<1>2. edgeLabel \notin DirectLabels => ChainsFound
  BY DEF ChainsFound
<1>3. ChainInv /\ (LinksDone => NeighboursFound /\ KindsFound) => LinksComplete
  BY <1>1, <1>2 DEF LinksComplete
<1>4. Spec => []ChainInv
  BY InitChain, ChainStep, SearchInvariant, PTL DEF Spec
<1> QED
  BY <1>3, <1>4, LinksFindKinds, PTL

(* The connections of a ResourceGraph response are the offshoot edges      *)
(* around the object and, of each label searched, exactly the edges of its *)
(* search, whatever the order in which the maps were walked.               *)
THEOREM ConnectionsAreExact == Spec => []ConnectionsExact
<1>1. SearchInv => ConnectionsExact
  <2> SUFFICES ASSUME SearchInv, request = "ResourceGraph", phase # "offshoots",
                      idsToProcess = <<>>
               PROVE  /\ Recorded(Offshoot) = OwnEdges
                      /\ \A lbl \in DirectLabels \ {Offshoot} : Recorded(lbl) = {}
                      /\ \A lbl \in Labels \ DirectLabels :
                            (lbl = edgeLabel \/ Recorded(lbl) # {})
                              => Recorded(lbl) = EdgesOf(lbl, OffshootsOf)
    BY DEF ConnectionsExact
  <2>1. TypeOK /\ GraphInv
    BY DEF SearchInv
  <2>2. OwnEdges \subseteq connections /\ connections \subseteq Asked /\ EarlierWhole
    BY <2>1 DEF GraphInv
  <2>3. \A lbl \in Labels : \A c \in EdgesOf(lbl, OffshootsOf) : c[2] = lbl
    BY DEF EdgesOf
  <2>4. \A c \in OwnEdges : c[2] = Offshoot
    BY DEF OwnEdges
  <2>5. Recorded(Offshoot) = OwnEdges
    BY <2>2, <2>3, <2>4, LabelAssumption DEF Recorded, Asked
  <2>6. ASSUME NEW lbl \in DirectLabels \ {Offshoot} PROVE Recorded(lbl) = {}
    BY <2>2, <2>3, <2>4, <2>6 DEF Recorded, Asked
  <2>7. ASSUME NEW lbl \in Labels \ DirectLabels, lbl = edgeLabel \/ Recorded(lbl) # {}
        PROVE  Recorded(lbl) = EdgesOf(lbl, OffshootsOf)
    <3>1. EdgesOf(lbl, OffshootsOf) \subseteq connections
      BY <2>1, <2>2, <2>7, SearchRecorded DEF EarlierWhole
    <3>2. Recorded(lbl) \subseteq EdgesOf(lbl, OffshootsOf)
      BY <2>2, <2>3, <2>4, <2>7, LabelAssumption DEF Recorded, Asked
    <3> QED
      BY <2>3, <3>1, <3>2 DEF Recorded
  <2> QED
    BY <2>5, <2>6, <2>7
<1> QED
  BY <1>1, SearchInvariant, PTL
-----------------------------------------------------------------------------
(* Finite sets of numbers.  A least counterexample stands in for induction. *)

(* A nonempty set of finite sets has a member that contains no other.      *)
LEMMA LeastSubset ==
    ASSUME NEW S, IsFiniteSet(S), NEW Bad \in SUBSET (SUBSET S), Bad # {}
    PROVE  \E T \in Bad : \A U \in Bad : U \subseteq T => U = T
<1>1. FiniteSubsetsOf(S) = SUBSET S
  BY FS_FiniteSubsetsOfFinite
<1>2. IsWellFoundedOn(StrictSubsetOrdering(S), SUBSET S)
  BY <1>1, FS_StrictSubsetOrderingWellFounded
<1>3. \E T \in Bad : \A U \in Bad : ~ (<<U, T>> \in StrictSubsetOrdering(S))
  BY <1>2, WFMin
<1> QED
  BY <1>3 DEF StrictSubsetOrdering

LEMMA MaxExists ==
    ASSUME NEW S, IsFiniteSet(S)
    PROVE  S \subseteq Nat /\ S # {} => \E m \in S : \A y \in S : y <= m
<1> DEFINE Good(T) == \E m \in T : \A y \in T : y <= m
           Bad == {T \in SUBSET S : T \subseteq Nat /\ T # {} /\ ~ Good(T)}
<1> SUFFICES ASSUME Bad # {} PROVE FALSE
  OBVIOUS
<1>1. PICK T \in Bad : \A U \in Bad : U \subseteq T => U = T
  <2>1. Bad \in SUBSET (SUBSET S)
    OBVIOUS
  <2> HIDE DEF Bad
  <2> QED
    BY <2>1, LeastSubset
<1>2. PICK x \in T : TRUE
  BY <1>1
<1>3. T \ {x} \in SUBSET S /\ T \ {x} # T /\ T \ {x} \subseteq T /\ T \subseteq Nat
  BY <1>1, <1>2
<1>4. T \ {x} \notin Bad
  BY <1>1, <1>3
<1>5. CASE T \ {x} = {}
  <2>1. \A y \in T : y <= x
    BY <1>3, <1>5
  <2> QED
    BY <1>1, <1>2, <2>1
<1>6. CASE T \ {x} # {}
  <2>1. PICK m \in T \ {x} : \A y \in T \ {x} : y <= m
    BY <1>3, <1>4, <1>6
  <2>2. m \in Nat /\ x \in Nat /\ m \in T
    BY <1>3, <2>1
  <2>3. CASE x <= m
    <3>1. \A y \in T : y <= m
      BY <2>1, <2>3
    <3> QED
      BY <1>1, <2>2, <3>1
  <2>4. CASE m <= x
    <3>1. \A y \in T : y <= x
      BY <1>3, <2>1, <2>2, <2>4
    <3> QED
      BY <1>1, <1>2, <3>1
  <2> QED
    BY <2>2, <2>3, <2>4
<1> QED
  BY <1>5, <1>6

Sorts(s, S) == s \in [1 .. Cardinality(S) -> S] /\ \A i, j \in DOMAIN s : i < j => s[i] < s[j]

LEMMA SortExists ==
    ASSUME NEW S, IsFiniteSet(S)
    PROVE  S \subseteq Nat => \E s : Sorts(s, S)
<1> DEFINE Bad == {T \in SUBSET S : T \subseteq Nat /\ ~ \E s : Sorts(s, T)}
<1> SUFFICES ASSUME Bad # {} PROVE FALSE
  OBVIOUS
<1>1. PICK T \in Bad : \A U \in Bad : U \subseteq T => U = T
  <2>1. Bad \in SUBSET (SUBSET S)
    OBVIOUS
  <2> HIDE DEF Bad
  <2> QED
    BY <2>1, LeastSubset
<1>2. T \subseteq Nat /\ IsFiniteSet(T) /\ ~ \E s : Sorts(s, T)
  BY <1>1, FS_Subset
<1>3. CASE T = {}
  <2>1. 1 .. Cardinality(T) = {}
    BY <1>3, FS_EmptySet
  <2>2. Sorts([i \in {} |-> 0], T)
    BY <2>1 DEF Sorts
  <2> QED
    BY <1>2, <2>2
<1>4. CASE T # {}
  <2>1. PICK m \in T : \A y \in T : y <= m
    BY <1>2, <1>4, MaxExists
  <2> DEFINE U == T \ {m}
             n == Cardinality(U)
  <2>2. U \in SUBSET S /\ U \notin Bad
    BY <1>1, <2>1
  <2>3. PICK s : Sorts(s, U)
    BY <2>2
  <2>4. IsFiniteSet(U) /\ n \in Nat /\ Cardinality(T) = n + 1
    <3>1. IsFiniteSet(U) /\ Cardinality(U) = Cardinality(T) - 1
      BY <1>2, <2>1, FS_RemoveElement
    <3>2. Cardinality(U) \in Nat /\ Cardinality(T) \in Nat
      BY <1>2, <3>1, FS_CardinalityType
    <3> QED
      BY <3>1, <3>2
  <2>5. s \in [1 .. n -> U] /\ \A i, j \in 1 .. n : i < j => s[i] < s[j]
    BY <2>3 DEF Sorts
  <2> HIDE DEF n
  <2> DEFINE t == [i \in 1 .. n + 1 |-> IF i = n + 1 THEN m ELSE s[i]]
  <2>6. \A i \in 1 .. n : t[i] = s[i] /\ s[i] \in U
    BY <2>4, <2>5
  <2>7. t \in [1 .. n + 1 -> T] /\ t[n + 1] = m
    <3>1. \A i \in 1 .. n + 1 : i # n + 1 => i \in 1 .. n
      BY <2>4
    <3>2. \A i \in 1 .. n + 1 : t[i] \in T
      BY <2>5, <2>1, <3>1
    <3> QED
      BY <2>4, <3>2
  <2>8. ASSUME NEW i \in 1 .. n + 1, NEW j \in 1 .. n + 1, i < j PROVE t[i] < t[j]
    <3>1. i \in 1 .. n
      BY <2>4, <2>8
    <3>2. CASE j = n + 1
      <4>1. s[i] \in Nat /\ m \in Nat /\ s[i] <= m /\ s[i] # m
        BY <1>2, <2>1, <2>6, <3>1
      <4>2. t[i] = s[i] /\ t[j] = m
        BY <2>6, <2>7, <3>1, <3>2
      <4> QED
        BY <4>1, <4>2
    <3>3. CASE j # n + 1
      <4>1. j \in 1 .. n
        BY <2>4, <3>3
      <4> QED
        BY <2>5, <2>6, <2>8, <3>1, <4>1
    <3> QED
      BY <3>2, <3>3
  <2> HIDE DEF t
  <2>9. Sorts(t, T)
    BY <2>4, <2>7, <2>8 DEF Sorts
  <2> QED
    BY <1>2, <2>9
<1> QED
  BY <1>3, <1>4

LEMMA SortFacts ==
    ASSUME NEW S, S \subseteq Nat, IsFiniteSet(S), S # {}
    PROVE  LET s == SortInts(S)
           IN  /\ s \in Seq(S) /\ Len(s) = Cardinality(S)
               /\ Len(s) \in DOMAIN s
               /\ \A y \in S : y <= s[Len(s)]
<1> DEFINE s == SortInts(S)
           n == Cardinality(S)
<1>1. Sorts(s, S)
  <2>1. \E t \in [1 .. n -> S] : \A i, j \in DOMAIN t : i < j => t[i] < t[j]
    BY SortExists DEF Sorts
  <2> QED
    BY <2>1 DEF SortInts, Sorts
<1>2. n \in Nat /\ n # 0
  BY FS_CardinalityType, FS_EmptySet
<1>3. s \in [1 .. n -> S] /\ \A i, j \in 1 .. n : i < j => s[i] < s[j]
  BY <1>1 DEF Sorts
<1> HIDE DEF s, n
<1>4. s \in Seq(S) /\ Len(s) = n /\ n \in DOMAIN s
  BY <1>2, <1>3
<1>5. s \in Injection(1 .. n, S)
  <2>1. ASSUME NEW i \in 1 .. n, NEW j \in 1 .. n, s[i] = s[j] PROVE i = j
    <3>1. s[i] \in S /\ S \subseteq Nat
      BY <1>3
    <3>4. s[i] \in Nat
      BY <3>1
    <3>2. s[i] \in Nat /\ i \in Nat /\ j \in Nat
      BY <1>2, <3>4
    <3>3. ~ (i < j) /\ ~ (j < i)
      BY <1>3, <2>1, <3>2
    <3> QED
      BY <3>2, <3>3
  <2> QED
    BY <1>3, <2>1 DEF Injection, IsInjective
<1>6. s \in Surjection(1 .. n, S)
  <2>1. Cardinality(1 .. n) = n
    BY <1>2, FS_Interval
  <2> QED
    BY <1>5, <2>1, FS_Injection DEF n
<1>7. ASSUME NEW y \in S PROVE y <= s[n]
  <2>1. PICK i \in 1 .. n : s[i] = y
    BY <1>6 DEF Surjection
  <2>2. i \in Nat /\ i <= n /\ n \in 1 .. n
    BY <1>2
  <2>5. s[n] \in Nat /\ y \in Nat
    <3>1. s[n] \in S /\ S \subseteq Nat
      BY <1>3, <2>2
    <3> QED
      BY <3>1
  <2>3. CASE i = n
    BY <2>1, <2>3, <2>5
  <2>4. CASE i < n
    <3>1. s[i] < s[n]
      BY <1>3, <2>2, <2>4
    <3> QED
      BY <2>1, <2>5, <3>1
  <2> QED
    BY <1>2, <2>2, <2>3, <2>4
<1> QED
  BY <1>4, <1>7 DEF s, n
-----------------------------------------------------------------------------
(* The resources of a response *)
Ends == UNION {c[1] : c \in connections}

LEMMA EndsFacts ==
    ASSUME TypeOK
    PROVE  /\ Ends \subseteq OIDs
           /\ EndKinds = KindsOf(Ends)
           /\ EndKinds \subseteq KindsOf(OIDs)
           /\ IsFiniteSet(EndKinds)
<1>1. ASSUME NEW c \in connections PROVE c[1] \subseteq OIDs
  <2>1. c[1] \in MayLink
    BY DEF TypeOK
  <2> QED
    BY <2>1, MayLinkAssumption
<1>2. Ends \subseteq OIDs
  BY <1>1 DEF Ends
<1>3. EndKinds = KindsOf(Ends)
  BY DEF EndKinds, Ends, KindsOf
<1>4. EndKinds \subseteq KindsOf(OIDs)
  BY <1>2, <1>3 DEF KindsOf
<1>5. IsFiniteSet(KindsOf(OIDs))
  <2> DEFINE f == [x \in OIDs |-> GK[x]]
  <2>1. f \in Surjection(OIDs, KindsOf(OIDs))
    BY DEF Surjection, KindsOf
  <2> QED
    BY <2>1, OIDsAssumption, FS_Surjection
<1> QED
  BY <1>2, <1>3, <1>4, <1>5, FS_Subset

LEMMA ResourceIDFacts ==
    ASSUME TypeOK
    PROVE  /\ \A k \in EndKinds : ResourceID(k) \in Nat
           /\ \A k, l \in EndKinds : ResourceID(k) = ResourceID(l) => k = l
<1> DEFINE Before(k) == {h \in EndKinds : KindRank[h] < KindRank[k]}
<1>1. \A k \in EndKinds : KindRank[k] \in Nat
  BY EndsFacts, KindRankAssumption
<1>2. \A k : IsFiniteSet(Before(k)) /\ Cardinality(Before(k)) \in Nat
  BY EndsFacts, FS_Subset, FS_CardinalityType
<1>3. ASSUME NEW k \in EndKinds, NEW l \in EndKinds, KindRank[k] < KindRank[l]
      PROVE  ResourceID(k) # ResourceID(l)
  <2>1. Before(k) \in SUBSET Before(l) /\ k \in Before(l) /\ k \notin Before(k)
    BY <1>1, <1>3
  <2>2. Before(k) # Before(l)
    BY <2>1
  <2> HIDE DEF Before
  <2>3. Cardinality(Before(k)) # Cardinality(Before(l))
    BY <1>2, <2>1, <2>2, FS_Subset
  <2> QED
    BY <2>3 DEF ResourceID, Before
<1>4. ASSUME NEW k \in EndKinds, NEW l \in EndKinds, ResourceID(k) = ResourceID(l) PROVE k = l
  <2>1. ~ (KindRank[k] < KindRank[l]) /\ ~ (KindRank[l] < KindRank[k])
    BY <1>3, <1>4
  <2>2. KindRank[k] = KindRank[l]
    BY <1>1, <2>1
  <2> QED
    BY <2>2, EndsFacts, KindRankAssumption
<1> QED
  BY <1>2, <1>4 DEF ResourceID

(* sort.Search among one id. *)
LEMMA SearchOne ==
    ASSUME NEW f
    PROVE  SortSearch(1, f) = IF f[0] THEN 0 ELSE 1
<1> DEFINE Def(go) == [w \in (0 .. 1) \X (0 .. 1) |->
                          LET h == (w[1] + w[2]) \div 2
                          IN  IF w[1] >= w[2] THEN w[1]
                              ELSE IF f[h] THEN go[<<w[1], h>>] ELSE go[<<h + 1, w[2]>>]]
           one == [w \in (0 .. 1) \X (0 .. 1) |->
                      IF w[1] >= w[2] THEN w[1] ELSE IF f[0] THEN 0 ELSE 1]
           it == CHOOSE go : go = Def(go)
<1>1. one = Def(one)
  <2>1. one[<<0, 0>>] = 0 /\ one[<<1, 1>>] = 1
    OBVIOUS
  <2>2. ASSUME NEW w \in (0 .. 1) \X (0 .. 1) PROVE one[w] = Def(one)[w]
    <3>1. CASE w[1] >= w[2]
      BY <3>1
    <3>2. CASE ~ (w[1] >= w[2])
      <4>1. w[1] = 0 /\ w[2] = 1 /\ (w[1] + w[2]) \div 2 = 0 /\ 0 + 1 = 1
        BY <3>2
      <4> QED
        BY <2>1, <3>2, <4>1
    <3> QED
      BY <3>1, <3>2
  <2> QED
    BY <2>2
<1>2. it = Def(it)
  BY <1>1, Zenon
<1>5. SortSearch(1, f) = it[<<0, 1>>]
  BY Zenon DEF SortSearch
<1> HIDE DEF it
<1>3. it[<<0, 0>>] = 0 /\ it[<<1, 1>>] = 1
  BY <1>2
<1>4. it[<<0, 1>>] = IF f[0] THEN 0 ELSE 1
  <2>1. (0 + 1) \div 2 = 0 /\ 0 + 1 = 1
    OBVIOUS
  <2> QED
    BY <1>2, <1>3, <2>1
<1> QED
  BY <1>4, <1>5, Zenon

(* What a report is made from: the needed ids, and the lookup of a kind,   *)
(* which is within the bounds of idToMeta.                                 *)
LEMMA LookupFacts ==
    ASSUME TypeOK, NEW vs
    PROVE  LET ids == preprocess(vs)
               needed == SortInts({ids[k] : k \in DOMAIN ids})
               At(kind) == IF kind \in DOMAIN ids THEN ids[kind] ELSE 0
           IN  /\ \A kind : DOMAIN ids # {} => At(kind) \in 0 .. needed[Len(needed)]
               /\ \A kind \in KindsIn(vs) \cap EndKinds : At(kind) = ResourceID(kind)
               /\ ids = << >> <=> KindsIn(vs) \cap EndKinds = {}
               /\ \A kind : KindsIn(vs) \cap EndKinds = {kind} =>
                     needed \in Seq(Nat) /\ Len(needed) = 1 /\ needed[1] = ResourceID(kind)
<1> DEFINE ids == preprocess(vs)
           K == KindsIn(vs) \cap EndKinds
           N == {ids[k] : k \in DOMAIN ids}
           needed == SortInts(N)
           At(kind) == IF kind \in DOMAIN ids THEN ids[kind] ELSE 0
<1>1. DOMAIN ids = K /\ \A k \in K : ids[k] = ResourceID(k) /\ ids[k] \in Nat
  BY ResourceIDFacts DEF preprocess
<1>2. ids = << >> <=> K = {}
  <2>1. DOMAIN << >> = {}
    OBVIOUS
  <2>2. ASSUME K = {} PROVE ids = << >>
    BY <2>2 DEF preprocess
  <2> QED
    BY <1>1, <2>1, <2>2
<1>3. IsFiniteSet(N) /\ N \subseteq Nat
  <2>1. IsFiniteSet(K)
    BY EndsFacts, FS_Subset
  <2>2. [k \in K |-> ids[k]] \in Surjection(K, N)
    BY <1>1 DEF Surjection
  <2> QED
    BY <1>1, <2>1, <2>2, FS_Surjection
<1> HIDE DEF ids, needed
<1>4. ASSUME N # {}
      PROVE  /\ needed \in Seq(N) /\ Len(needed) = Cardinality(N)
             /\ needed[Len(needed)] \in Nat
             /\ \A y \in N : y <= needed[Len(needed)]
  <2>1. /\ needed \in Seq(N) /\ Len(needed) = Cardinality(N)
        /\ Len(needed) \in DOMAIN needed
        /\ \A y \in N : y <= needed[Len(needed)]
    BY <1>3, <1>4, SortFacts DEF needed
  <2> HIDE DEF N
  <2>2. needed[Len(needed)] \in N
    BY <2>1
  <2> QED
    BY <1>3, <2>1, <2>2
<1>5. ASSUME NEW kind, DOMAIN ids # {} PROVE At(kind) \in 0 .. needed[Len(needed)]
  <2>1. N # {}
    BY <1>5
  <2>2. CASE kind \in DOMAIN ids
    <3>1. ids[kind] \in N /\ ids[kind] \in Nat /\ At(kind) = ids[kind]
      BY <1>1, <2>2
    <3> QED
      BY <1>4, <2>1, <3>1
  <2>3. CASE kind \notin DOMAIN ids
    BY <1>4, <2>1, <2>3
  <2> QED
    BY <2>2, <2>3
<1>6. \A kind \in K : At(kind) = ResourceID(kind)
  BY <1>1
<1>7. ASSUME NEW kind, K = {kind}
      PROVE  needed \in Seq(Nat) /\ Len(needed) = 1 /\ needed[1] = ResourceID(kind)
  <2>1. N = {ResourceID(kind)} /\ ResourceID(kind) \in Nat
    BY <1>1, <1>7
  <2>2. Cardinality(N) = 1
    BY <2>1, FS_Singleton
  <2>3. needed \in Seq(N) /\ Len(needed) = 1
    BY <1>4, <2>1, <2>2
  <2>4. needed[1] \in N
    <3> HIDE DEF N
    <3> QED
      BY <2>3
  <2>5. needed \in Seq(Nat)
    BY <1>3, <2>3
  <2> QED
    BY <2>1, <2>3, <2>4, <2>5
<1> QED
  BY <1>1, <1>2, <1>5, <1>6, <1>7 DEF ids, needed

LEMMA NeededOne ==
    ASSUME NEW id, NEW needed, Len(needed) = 1, needed[1] = id
    PROVE  IsNeeded(id, needed)
<1> DEFINE at == [i \in 0 .. Len(needed) - 1 |-> needed[i + 1] = id]
<1>1. at[0]
  <2>1. 0 \in 0 .. Len(needed) - 1 /\ 0 + 1 = 1
    OBVIOUS
  <2> QED
    BY <2>1
<1> HIDE DEF at
<1>2. SortSearch(1, at) = 0
  BY <1>1, SearchOne
<1> QED
  BY <1>1, <1>2 DEF IsNeeded, at

(* A report in terms of the ends of the connections. *)
LEMMA ReportFacts ==
    ASSUME TypeOK, NEW vs
    PROVE  /\ \A v \in evaluateForSingleConstraint(vs) : v \in vs /\ \E x \in Ends : Ref[x] = v.ref
           /\ \A kind : (KindsIn(vs) \subseteq EndKinds /\ KindsIn(vs) = {kind}) =>
                 evaluateForSingleConstraint(vs) = {v \in vs : Of(v, Ends)}
<1> DEFINE ids == preprocess(vs)
           needed == SortInts({ids[k] : k \in DOMAIN ids})
           At(kind) == IF kind \in DOMAIN ids THEN ids[kind] ELSE 0
           Refs(id) == {Ref[x] : x \in {y \in Ends : ResourceID(GK[y]) = id /\ IsNeeded(id, needed)}}
           reported == evaluateForSingleConstraint(vs)
<1>1. reported = IF ids = << >> THEN {}
                 ELSE {v \in vs : v.ref \in buildMapFromConnections(needed)[At(v.kind)]}
  BY DEF evaluateForSingleConstraint
<1>2. \A id \in 0 .. needed[Len(needed)] : buildMapFromConnections(needed)[id] = Refs(id)
  BY DEF buildMapFromConnections, Ends
<1>3. DOMAIN ids = KindsIn(vs) \cap EndKinds
  BY DEF preprocess
<1>4. ids = << >> <=> DOMAIN ids = {}
  BY <1>3, LookupFacts
<1>5. DOMAIN ids # {} => \A kind : At(kind) \in 0 .. needed[Len(needed)]
  BY LookupFacts
<1>6. \A kind \in KindsIn(vs) \cap EndKinds : At(kind) = ResourceID(kind)
  BY LookupFacts
<1>7. \A kind : KindsIn(vs) \cap EndKinds = {kind} => Len(needed) = 1 /\ needed[1] = ResourceID(kind)
  BY LookupFacts
<1> HIDE DEF ids, needed, At, reported
<1>8. ids # << >> => reported = {v \in vs : v.ref \in Refs(At(v.kind))}
  BY <1>1, <1>2, <1>4, <1>5
<1>9. ASSUME NEW v \in reported PROVE v \in vs /\ \E x \in Ends : Ref[x] = v.ref
  BY <1>1, <1>8, <1>9
<1>10. ASSUME NEW kind, KindsIn(vs) \subseteq EndKinds, KindsIn(vs) = {kind}
       PROVE  reported = {v \in vs : Of(v, Ends)}
  <2>1. KindsIn(vs) \cap EndKinds = {kind} /\ kind \in EndKinds
    BY <1>10
  <2>2. ids # << >>
    BY <1>3, <1>4, <2>1
  <2>3. Len(needed) = 1 /\ needed[1] = ResourceID(kind) /\ At(kind) = ResourceID(kind)
    BY <1>6, <1>7, <2>1
  <2>4. IsNeeded(ResourceID(kind), needed)
    BY <2>3, NeededOne
  <2>5. \A y \in Ends : ResourceID(GK[y]) = ResourceID(kind) <=> GK[y] = kind
    <3>1. \A y \in Ends : GK[y] \in EndKinds
      BY EndsFacts DEF KindsOf
    <3> QED
      BY <2>1, <3>1, ResourceIDFacts
  <2>6. Refs(ResourceID(kind)) = {Ref[x] : x \in {y \in Ends : GK[y] = kind}}
    BY <2>4, <2>5
  <2>7. \A v \in vs : v.kind = kind
    BY <1>10 DEF KindsIn
  <2> HIDE DEF Refs
  <2> QED
    BY <1>8, <2>2, <2>3, <2>6, <2>7 DEF Of
<1> QED
  BY <1>9, <1>10 DEF reported

(* Every offshoot is an end of an offshoot edge, unless it is alone. *)
LEMMA OffshootsAreEnds ==
    ASSUME TypeOK, OwnEdges \subseteq connections, OffshootsOf # {oid}
    PROVE  OffshootsOf \subseteq Ends
<1>1. /\ OffshootsOf \subseteq OIDs /\ oid \in OffshootsOf
      /\ \A x \in OffshootsOf : Linked(Offshoot, x) \subseteq OffshootsOf
  BY OffshootsFacts
<1>2. \A C \in SUBSET OIDs :
         (oid \in C /\ \A x \in C : Linked(Offshoot, x) \subseteq C) => OffshootsOf \subseteq C
  <2>1. \A x \in OIDs : LinkedBy(Offshoot)[x] = Linked(Offshoot, x)
    BY DEF LinkedBy
  <2> QED
    BY <2>1 DEF OffshootsOf, LeastClosed
<1>3. ASSUME NEW x \in OffshootsOf, Linked(Offshoot, x) # {} PROVE x \in Ends
  <2>1. PICK y \in Linked(Offshoot, x) : TRUE
    BY <1>3
  <2>2. {x, y} \in g[Offshoot] /\ {x, y} \subseteq OffshootsOf
    BY <1>1, <2>1 DEF Linked
  <2>3. <<{x, y}, Offshoot>> \in connections
    BY <2>2 DEF OwnEdges
  <2>4. <<{x, y}, Offshoot>>[1] = {x, y} /\ x \in {x, y}
    OBVIOUS
  <2> QED
    BY <2>3, <2>4 DEF Ends
<1>4. ASSUME NEW x \in OffshootsOf, Linked(Offshoot, x) = {} PROVE FALSE
  <2>1. CASE x = oid
    <3>1. OffshootsOf \subseteq {oid}
      BY <1>1, <1>2, <1>4, <2>1
    <3> QED
      BY <1>1, <3>1
  <2>2. CASE x # oid
    <3> DEFINE C == OffshootsOf \ {x}
    <3>1. ASSUME NEW y \in C PROVE x \notin Linked(Offshoot, y)
      <4>1. {x, y} = {y, x}
        OBVIOUS
      <4>2. x \in Linked(Offshoot, y) => y \in Linked(Offshoot, x)
        BY <1>1, <3>1, <4>1 DEF Linked
      <4> QED
        BY <1>4, <4>2
    <3>2. OffshootsOf \subseteq C
      BY <1>1, <1>2, <2>2, <3>1
    <3> QED
      BY <3>2
  <2> QED
    BY <2>1, <2>2
<1> QED
  BY <1>3, <1>4

(* A report about an object lists only violations of what the search has   *)
(* connected to it; and for a constraint violated by one kind of the graph *)
(* those of exactly its ends, every offshoot of the object among them.     *)
THEOREM ReportsViolations == Spec => []ViolationsReported
<1>1. SearchInv => ViolationsReported
  <2> SUFFICES ASSUME SearchInv, request = "ResourceGraph", phase = "done",
                      NEW vs \in SUBSET Violations
               PROVE  LET reported == evaluateForSingleConstraint(vs)
                          ends == UNION {c[1] : c \in connections}
                      IN  /\ \A v \in reported : \E x \in ends : Ref[x] = v.ref
                          /\ (KindsIn(vs) \subseteq EndKinds /\ Cardinality(KindsIn(vs)) = 1) =>
                                /\ \A v \in reported : Of(v, ends)
                                /\ OffshootsOf # {oid} =>
                                      {v \in vs : Of(v, OffshootsOf)} \subseteq reported
    BY DEF ViolationsReported
  <2>1. TypeOK /\ OwnEdges \subseteq connections
    BY DEF SearchInv, GraphInv
  <2>2. \A v \in evaluateForSingleConstraint(vs) : \E x \in Ends : Ref[x] = v.ref
    BY <2>1, ReportFacts
  <2>3. ASSUME KindsIn(vs) \subseteq EndKinds, Cardinality(KindsIn(vs)) = 1
        PROVE  evaluateForSingleConstraint(vs) = {v \in vs : Of(v, Ends)}
    <3>1. IsFiniteSet(KindsIn(vs))
      BY <2>1, <2>3, EndsFacts, FS_Subset
    <3>2. PICK kind : KindsIn(vs) = {kind}
      BY <2>3, <3>1, FS_Singleton
    <3> QED
      BY <2>1, <2>3, <3>2, ReportFacts
  <2>4. OffshootsOf # {oid} => \A v : Of(v, OffshootsOf) => Of(v, Ends)
    BY <2>1, OffshootsAreEnds DEF Of
  <2> QED
    BY <2>2, <2>3, <2>4 DEF Ends
<1> QED
  BY <1>1, SearchInvariant, PTL
=============================================================================
