------------------------- MODULE ObjectGraphProofs -------------------------
(***************************************************************************)
(* Proofs about ObjectGraph for every set of objects and labels.           *)
(***************************************************************************)
EXTENDS ObjectGraph, TLAPS

(* The inductive invariant.  The entry of src in src's own map is always   *)
(* Mirror or Absent, because Update writes FALSE last; NoOwnedLoop says so *)
(* and OneDeclarer leaves that case out.                                   *)
NoOwnedLoop ==
    \A x \in OIDs, lbl \in Labels : Edges[x][lbl][x] # Owned

IInv == TypeOK /\ EdgesPaired /\ OneDeclarer /\ OwnedIsDeclared /\ NoOwnedLoop

LEMMA TypeStep == TypeOK /\ [Next]_vars => TypeOK'
<1> SUFFICES ASSUME TypeOK, [Next]_vars PROVE TypeOK'
  OBVIOUS
<1>1. ASSUME NEW src \in OIDs, NEW conns \in Conns(src), Update(src, conns)
      PROVE  TypeOK'
  BY <1>1 DEF TypeOK, Update, Conns, Linked, Unlinked
<1>2. ASSUME NEW src \in OIDs, Delete(src)
      PROVE  TypeOK'
  BY <1>2 DEF TypeOK, Delete, NoConns
<1>3. CASE UNCHANGED vars
  BY <1>3 DEF TypeOK, vars
<1> QED
  BY <1>1, <1>2, <1>3 DEF Next

(* The graph stays a total map of entries and IDs a label-indexed family   *)
(* of sets through every Update and Delete.                                *)
THEOREM TypeCorrect == Spec => []TypeOK
<1>1. Init => TypeOK
  BY DEF Init, TypeOK, NoConns
<1> QED
  BY <1>1, TypeStep, PTL DEF Spec

-----------------------------------------------------------------------------
(* The entries of the graph after Update, case by case. *)
LEMMA UpdateEntry ==
    ASSUME TypeOK, NEW src \in OIDs, NEW conns \in Conns(src), Update(src, conns),
           NEW x \in OIDs, NEW lbl \in Labels, NEW y \in OIDs
    PROVE  Edges'[x][lbl][y] =
             IF y = src /\ x \in conns[lbl] THEN Mirror
             ELSE IF x = src /\ y \in conns[lbl] THEN Owned
             ELSE IF \/ x = src /\ Edges[x][lbl][y] = Owned
                     \/ y = src /\ Edges[src][lbl][x] = Owned
             THEN Absent ELSE Edges[x][lbl][y]
  BY DEF TypeOK, Update, Linked, Unlinked

(* The entries of the graph after Delete. *)
LEMMA DeleteEntry ==
    ASSUME TypeOK, NEW src \in OIDs, Delete(src),
           NEW x \in OIDs, NEW lbl \in Labels, NEW y \in OIDs
    PROVE  Edges'[x][lbl][y] =
             IF x = src \/ (y = src /\ Edges[src][lbl][x] # Absent)
             THEN Absent ELSE Edges[x][lbl][y]
  BY DEF TypeOK, Delete

(* The three values of an entry are distinct. *)
LEMMA EntryValues == Absent # Owned /\ Absent # Mirror /\ Owned # Mirror
  BY DEF Absent, Owned, Mirror

LEMMA Inductive == IInv /\ [Next]_vars => IInv'
<1> SUFFICES ASSUME IInv, [Next]_vars PROVE IInv'
  OBVIOUS
<1>t. TypeOK /\ TypeOK'
  BY TypeStep DEF IInv
<1> USE EntryValues
<1>1. ASSUME NEW src \in OIDs, NEW conns \in Conns(src), Update(src, conns)
      PROVE  IInv'
  <2>1. ASSUME NEW x \in OIDs, NEW y \in OIDs, NEW lbl \in Labels
        PROVE  /\ Edges[x][lbl][y] \in {Absent, Owned, Mirror}
               /\ Edges[x][lbl][y] = Absent <=> Edges[y][lbl][x] = Absent
               /\ x # y => (Edges[x][lbl][y] = Owned <=> Edges[y][lbl][x] = Mirror)
               /\ Edges[x][lbl][x] # Owned
    BY <2>1 DEF IInv, TypeOK, EdgesPaired, OneDeclarer, NoOwnedLoop
  <2>2. EdgesPaired'
    BY <1>1, <1>t, <2>1, UpdateEntry DEF EdgesPaired
  <2>3. OneDeclarer'
    BY <1>1, <1>t, <2>1, UpdateEntry DEF OneDeclarer
  <2>4. NoOwnedLoop'
    BY <1>1, <1>t, <2>1, UpdateEntry DEF NoOwnedLoop
  <2>5. ASSUME NEW x \in OIDs, NEW y \in OIDs, NEW lbl \in Labels,
               Edges'[x][lbl][y] = Owned
        PROVE  y \in IDs'[x][lbl]
    <3>1. CASE x = src
      <4>1. y \in conns[lbl]
        BY <1>1, <1>t, <2>1, <2>5, <3>1, UpdateEntry
      <4> QED
        BY <1>1, <1>t, <3>1, <4>1 DEF Update, TypeOK
    <3>2. CASE x # src
      <4>1. Edges[x][lbl][y] = Owned
        BY <1>1, <1>t, <2>1, <2>5, <3>2, UpdateEntry
      <4>2. y \in IDs[x][lbl]
        BY <4>1 DEF IInv, OwnedIsDeclared
      <4> QED
        BY <1>1, <1>t, <3>2, <4>2 DEF Update, TypeOK
    <3> QED
      BY <3>1, <3>2
  <2> QED
    BY <1>t, <2>2, <2>3, <2>4, <2>5 DEF IInv, OwnedIsDeclared
<1>2. ASSUME NEW src \in OIDs, Delete(src)
      PROVE  IInv'
  <2>1. ASSUME NEW x \in OIDs, NEW y \in OIDs, NEW lbl \in Labels
        PROVE  Edges'[x][lbl][y] =
                 IF x = src \/ y = src THEN Absent ELSE Edges[x][lbl][y]
    BY <1>2, <1>t, <2>1, DeleteEntry DEF IInv, EdgesPaired
  <2>2. EdgesPaired' /\ OneDeclarer' /\ NoOwnedLoop'
    BY <2>1 DEF IInv, EdgesPaired, OneDeclarer, NoOwnedLoop
  <2>3. OwnedIsDeclared'
    BY <1>2, <1>t, <2>1 DEF IInv, OwnedIsDeclared, Delete, TypeOK
  <2> QED
    BY <1>t, <2>2, <2>3 DEF IInv
<1>3. CASE UNCHANGED vars
  BY <1>3 DEF IInv, TypeOK, EdgesPaired, OneDeclarer, OwnedIsDeclared,
              NoOwnedLoop, vars
<1> QED
  BY <1>1, <1>2, <1>3 DEF Next

LEMMA Invariant == Spec => []IInv
<1>1. Init => IInv
  BY EntryValues DEF Init, IInv, TypeOK, EdgesPaired, OneDeclarer,
                     OwnedIsDeclared, NoOwnedLoop, NoConns
<1> QED
  BY <1>1, Inductive, PTL DEF Spec

(* Whatever the order of Updates and Deletes, each link has both of its    *)
(* entries, exactly one of them declaring, and is in the last declaration  *)
(* of that side.                                                           *)
THEOREM GraphConsistent == Spec => [](EdgesPaired /\ OneDeclarer /\ OwnedIsDeclared)
<1>1. IInv => EdgesPaired /\ OneDeclarer /\ OwnedIsDeclared
  BY DEF IInv
<1> QED
  BY <1>1, Invariant, PTL

(* Delete(src) leaves no entry naming src on either side.                  *)
THEOREM DeleteIsolatesTheorem == Spec => DeleteIsolates
<1>1. IInv /\ [Next]_vars =>
        [\A src \in OIDs :
            Delete(src) => \A lbl \in Labels, y \in OIDs :
                              /\ Edges'[src][lbl][y] = Absent
                              /\ Edges'[y][lbl][src] = Absent]_vars
  BY DeleteEntry DEF IInv, EdgesPaired
<1> QED
  BY <1>1, Invariant, PTL DEF Spec, DeleteIsolates

(* Update(src, _) keeps every link that another object declared, unless    *)
(* src declares the same link in the other direction.                      *)
THEOREM UpdateIsLocalTheorem == Spec => UpdateIsLocal
<1>1. IInv /\ [Next]_vars =>
        [\A src \in OIDs : \A conns \in Conns(src) :
            Update(src, conns) =>
                \A x, y \in OIDs, lbl \in Labels :
                    (/\ Edges[x][lbl][y] = Owned
                     /\ x # src
                     /\ y = src => x \notin conns[lbl])
                    => Edges'[x][lbl][y] = Owned]_vars
  BY UpdateEntry, EntryValues DEF IInv, OneDeclarer
<1> QED
  BY <1>1, Invariant, PTL DEF Spec, UpdateIsLocal

-----------------------------------------------------------------------------
(* What an object has declared, its descriptor lets it declare.            *)
DeclaredLinkable == \A x \in OIDs : IDs[x] \in Conns(x)

LEMMA DeclaredInvariant == Spec => []DeclaredLinkable
<1>1. Init => DeclaredLinkable
  BY DEF Init, DeclaredLinkable, Conns, NoConns
<1>2. TypeOK /\ DeclaredLinkable /\ [Next]_vars => DeclaredLinkable'
  <2> SUFFICES ASSUME TypeOK, DeclaredLinkable, [Next]_vars PROVE DeclaredLinkable'
    OBVIOUS
  <2>1. ASSUME NEW src \in OIDs, NEW conns \in Conns(src), Update(src, conns)
        PROVE  DeclaredLinkable'
    BY <2>1 DEF DeclaredLinkable, Update, TypeOK, Conns
  <2>2. ASSUME NEW src \in OIDs, Delete(src)
        PROVE  DeclaredLinkable'
    BY <2>2 DEF DeclaredLinkable, Delete, TypeOK, Conns, NoConns
  <2>3. CASE UNCHANGED vars
    BY <2>3 DEF DeclaredLinkable, vars, Conns
  <2> QED
    BY <2>1, <2>2, <2>3 DEF Next
<1> QED
  BY <1>1, <1>2, TypeCorrect, PTL DEF Spec


(* If no label is declared in both directions, the graph that the readers  *)
(* traverse is exactly a set of declared links: Update replaces the links  *)
(* of src, Delete removes every link at src, and nothing else changes.     *)
THEOREM RefinesLinkTable ==
    ASSUME OneWayDescriptors
    PROVE  Spec => ImplementsLinkTable
<1>1. Init => Table!Init
  BY EntryValues DEF Init, Table!Init, OwnedLinks, NoConns, Table!NoConns
<1>2. IInv /\ DeclaredLinkable /\ [Next]_vars => [Table!Next]_<<OwnedLinks, IDs>>
  <2> SUFFICES ASSUME IInv, DeclaredLinkable, [Next]_vars
               PROVE  [Table!Next]_<<OwnedLinks, IDs>>
    OBVIOUS
  <2>t. TypeOK
    BY DEF IInv
  <2>1. ASSUME NEW src \in OIDs, NEW conns \in Conns(src), Update(src, conns)
        PROVE  Table!Next
    <3> DEFINE new == Table!LinksOf(src, conns)
    <3>1. /\ conns \in [Labels -> SUBSET OIDs]
          /\ \A lbl \in Labels : \A to \in conns[lbl] : <<src, lbl, to>> \in Linkable
      BY DEF Conns
    <3>2. ASSUME NEW x \in OIDs, NEW lbl \in Labels, NEW y \in OIDs
          PROVE  Edges'[x][lbl][y] = Owned
                 <=> IF x = src THEN y \in conns[lbl]
                     ELSE Edges[x][lbl][y] = Owned
      <4>1. y = src /\ x = src => x \notin conns[lbl]
        BY <3>2, <2>1 DEF Conns, OneWayDescriptors
      <4>2. x # src /\ y = src /\ Edges[x][lbl][y] = Owned
              => x \notin conns[lbl] /\ Edges[src][lbl][x] # Owned
        <5> SUFFICES ASSUME x # src, y = src, Edges[x][lbl][y] = Owned
                     PROVE  x \notin conns[lbl] /\ Edges[src][lbl][x] # Owned
          OBVIOUS
        <5>1. Edges[src][lbl][x] # Owned
          BY <3>2, EntryValues DEF IInv, OneDeclarer
        <5>2. src \in IDs[x][lbl]
          BY <3>2 DEF IInv, OwnedIsDeclared
        <5>3. <<x, lbl, src>> \in Linkable
          BY <3>2, <5>2 DEF DeclaredLinkable, Conns
        <5>4. <<src, lbl, x>> \notin Linkable
          BY <3>2, <5>3 DEF OneWayDescriptors
        <5> QED
          BY <3>2, <5>1, <5>4 DEF Conns
      <4> QED
        BY <2>1, <2>t, <3>2, <4>1, <4>2, UpdateEntry, EntryValues
    <3>3. ASSUME NEW x \in OIDs, NEW lbl \in Labels, NEW y \in OIDs
          PROVE  <<x, lbl, y>> \in new <=> x = src /\ y \in conns[lbl]
      BY <3>1, <3>3 DEF Table!LinksOf
    <3>4. OwnedLinks' = (OwnedLinks \ Table!From(src)) \cup new
      <4>1. ASSUME NEW e \in OIDs \X Labels \X OIDs
            PROVE  e \in OwnedLinks'
                   <=> e \in (OwnedLinks \ Table!From(src)) \cup new
        <5>1. PICK x \in OIDs, lbl \in Labels, y \in OIDs : e = <<x, lbl, y>>
          BY <4>1
        <5>2. e \in OwnedLinks' <=> Edges'[x][lbl][y] = Owned
          BY <5>1 DEF OwnedLinks
        <5>3. e \in OwnedLinks \ Table!From(src)
                <=> x # src /\ Edges[x][lbl][y] = Owned
          BY <5>1 DEF OwnedLinks, Table!From
        <5>4. e \in new <=> x = src /\ y \in conns[lbl]
          BY <5>1, <3>3
        <5> QED
          BY <5>2, <5>3, <5>4, <3>2
      <4>2. /\ OwnedLinks \subseteq OIDs \X Labels \X OIDs
            /\ OwnedLinks' \subseteq OIDs \X Labels \X OIDs
            /\ new \subseteq OIDs \X Labels \X OIDs
        BY LinkableAssumption DEF OwnedLinks, Table!LinksOf
      <4> HIDE DEF new
      <4> QED
        BY <4>1, <4>2
    <3>5. Table!Declare(src, conns)
      BY <2>1, <3>1, <3>4 DEF Table!Declare, Update
    <3> QED
      BY <3>1, <3>5 DEF Table!Next
  <2>2. ASSUME NEW src \in OIDs, Delete(src)
        PROVE  Table!Next
    <3>1. ASSUME NEW x \in OIDs, NEW lbl \in Labels, NEW y \in OIDs
          PROVE  Edges'[x][lbl][y] = Owned
                 <=> x # src /\ y # src /\ Edges[x][lbl][y] = Owned
      BY <2>2, <2>t, <3>1, DeleteEntry, EntryValues DEF IInv, EdgesPaired
    <3>2. OwnedLinks' = OwnedLinks \ Table!At(src)
      BY <3>1 DEF OwnedLinks, Table!At
    <3> QED
      BY <2>2, <3>2 DEF Table!Next, Table!Forget, Delete, NoConns, Table!NoConns
  <2>3. CASE UNCHANGED vars
    BY <2>3 DEF vars, OwnedLinks
  <2> QED
    BY <2>1, <2>2, <2>3 DEF Next
<1> QED
  BY <1>1, <1>2, Invariant, DeclaredInvariant, PTL
     DEF Spec, ImplementsLinkTable, Table!Spec
=============================================================================
