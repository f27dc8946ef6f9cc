------------------------- MODULE ProjectQuotaProofs -------------------------
(***************************************************************************)
(* Proofs about ProjectQuota for every set of types and namespaces, every  *)
(* spec and every number of changes and failures.                          *)
(***************************************************************************)
EXTENDS ProjectQuota, FiniteSetTheorems, TLAPS

(* The places the worker can be in. *)
Placed ==
    /\ pc = "idle" => ns = None
    /\ pc = "patch" => ns = None /\ nsLeft = {}
    /\ pc # "idle" => quotas # <<>>
    /\ ns = None => index = 0 /\ seen = {}
    /\ ns # None => pc = "calculate" /\ index \in 1 .. Len(quotas) /\ ns \notin nsLeft

(* The quota i has had its turn, or begun it, in the namespace in hand. *)
Begun(i) == i < index \/ (i = index /\ seen # {})

(* What is kept of a namespace: under the key of a kind the amount of that *)
(* kind, which is served, and under the key of a group some amount.        *)
Kept ==
    \A k \in DOMAIN nsUsed :
        /\ nsUsed[k].used \in 0 .. MaxUsage /\ Types # {}
        /\ ns # None /\ k.kind # AnyKind => k.kind \in apiTypes /\ k = Key(k.kind)
        /\ ns # None /\ k.kind = AnyKind =>
              \E i \in DOMAIN quotas : quotas[i].key = k /\ Begun(i)

(* A kind that was added up is kept. *)
KindsKept ==
    ns # None =>
        \A i \in DOMAIN quotas :
            (i < index /\ quotas[i].result = "Success" /\ quotas[i].key.kind # AnyKind)
                => quotas[i].key \in DOMAIN nsUsed

(* The quota i is a namespace ahead of j, where it counts for its kind. *)
Ahead(i, j) ==
    /\ ns # None
    /\ i < index
    /\ ~ (j < index \/ (j = index /\ quotas[i].key.kind \in seen))

PartsFit ==
    \A i, j \in DOMAIN quotas :
        PartAndWhole(quotas, i, j) =>
            quotas[i].used <= quotas[j].used +
                (IF Ahead(i, j) THEN nsUsed[quotas[i].key].used ELSE 0)

(* No object is counted twice. *)
PerNamespace == MaxUsage * Cardinality(Types)
Visited == Namespaces \ (nsLeft \cup {ns})

InHand(i) ==
    IF ns = None \/ i > index THEN 0
    ELSE IF i < index THEN PerNamespace ELSE MaxUsage * Cardinality(seen)

CountedOnce ==
    \A i \in DOMAIN quotas :
        quotas[i].used <= PerNamespace * Cardinality(Visited) + InHand(i)

Inside == TypeOK /\ Placed /\ Kept /\ KindsKept /\ PartsFit /\ CountedOnce

(* The inductive invariant. *)
QuotaInv == Inside /\ PartOfWhole
-----------------------------------------------------------------------------
(* Arithmetic and cardinalities *)

Counted == [key : Keys, result : {"Success", "Error"}, used : Nat]

LEMMA Multiply ==
    ASSUME NEW a \in Nat, NEW n \in Nat
    PROVE  /\ a * n \in Nat
           /\ a * (n + 1) = a * n + a
           /\ \A k \in Nat : k <= n => a * k <= a * n
           /\ \A k \in Nat : k + 1 <= n => a * k + a <= a * n
OBVIOUS

LEMMA Numbers ==
    /\ Cardinality(Types) \in Nat /\ Cardinality(Namespaces) \in Nat
    /\ PerNamespace \in Nat /\ Total \in Nat /\ MaxUsage \in Nat
    /\ Total = PerNamespace * Cardinality(Namespaces)
<1>1. Cardinality(Types) \in Nat /\ Cardinality(Namespaces) \in Nat
  BY FiniteAssumption, FS_CardinalityType
<1>2. PerNamespace \in Nat
  BY <1>1, BoundsAssumption, Multiply DEF PerNamespace
<1>3. Total = PerNamespace * Cardinality(Namespaces)
  BY DEF Total, PerNamespace
<1> QED
  BY <1>1, <1>2, <1>3, BoundsAssumption, Multiply

LEMMA TypesCard ==
    ASSUME NEW S \in SUBSET Types
    PROVE  /\ Cardinality(S) \in Nat
           /\ MaxUsage * Cardinality(S) \in Nat
           /\ MaxUsage * Cardinality(S) <= PerNamespace
<1>1. Cardinality(S) \in Nat /\ Cardinality(S) <= Cardinality(Types)
  BY FiniteAssumption, FS_Subset, FS_CardinalityType
<1> QED
  BY <1>1, Numbers, Multiply DEF PerNamespace

LEMMA TypeAddedCard ==
    ASSUME NEW S \in SUBSET Types, NEW t \in Types \ S
    PROVE  /\ MaxUsage * Cardinality(S \cup {t}) = MaxUsage * Cardinality(S) + MaxUsage
           /\ MaxUsage * Cardinality(S) + MaxUsage <= PerNamespace
<1>1. Cardinality(S) \in Nat /\ Cardinality(S \cup {t}) = Cardinality(S) + 1
  BY FiniteAssumption, FS_Subset, FS_AddElement, TypesCard
<1>2. MaxUsage * Cardinality(S \cup {t}) <= PerNamespace
  BY TypesCard
<1>3. MaxUsage * (Cardinality(S) + 1) = MaxUsage * Cardinality(S) + MaxUsage
  BY <1>1, Numbers, Multiply
<1> QED
  BY <1>1, <1>2, <1>3

LEMMA VisitedCard ==
    ASSUME nsLeft \subseteq Namespaces, ns \in Namespaces \cup {None}
    PROVE  /\ Cardinality(Visited) \in Nat
           /\ Cardinality(Visited) <= Cardinality(Namespaces)
           /\ ns # None => /\ Cardinality(Visited) + 1 <= Cardinality(Namespaces)
                           /\ ns \notin nsLeft =>
                                Cardinality(Namespaces \ nsLeft) = Cardinality(Visited) + 1
<1>1. \A S \in SUBSET Namespaces : IsFiniteSet(S) /\ Cardinality(S) \in Nat
                                 /\ Cardinality(S) <= Cardinality(Namespaces)
  BY FiniteAssumption, FS_Subset, FS_CardinalityType
<1>2. Visited \in SUBSET Namespaces
  BY DEF Visited
<1>3. ASSUME ns # None PROVE Cardinality(Visited) + 1 <= Cardinality(Namespaces)
  <2>1. ns \in Namespaces /\ ns \notin Visited /\ Visited \cup {ns} \in SUBSET Namespaces
    BY <1>3, <1>2 DEF Visited
  <2>2. Cardinality(Visited \cup {ns}) = Cardinality(Visited) + 1
    BY <1>1, <1>2, <2>1, FS_AddElement
  <2> QED
    BY <1>1, <2>1, <2>2
<1>4. ASSUME ns # None, ns \notin nsLeft
      PROVE  Cardinality(Namespaces \ nsLeft) = Cardinality(Visited) + 1
  <2>1. ns \notin Visited /\ Namespaces \ nsLeft = Visited \cup {ns}
    BY <1>4 DEF Visited
  <2> QED
    BY <1>1, <1>2, <2>1, FS_AddElement
<1> QED
  BY <1>1, <1>2, <1>3, <1>4

LEMMA InHandBound ==
    ASSUME seen \subseteq Types, index \in Nat, NEW i \in Nat
    PROVE  InHand(i) \in Nat /\ InHand(i) <= PerNamespace
<1>1. MaxUsage * Cardinality(seen) \in Nat /\ MaxUsage * Cardinality(seen) <= PerNamespace
  BY TypesCard
<1> QED
  BY <1>1, Numbers DEF InHand

SumsTyped ==
    /\ nsLeft \subseteq Namespaces
    /\ ns \in Namespaces \cup {None}
    /\ seen \subseteq Types
    /\ index \in Nat
    /\ quotas \in Seq(Counted)

(* Sums that count every object once are within the bound of the types. *)
LEMMA SumsBounded == SumsTyped /\ CountedOnce => quotas \in Seq(QuotaStatus)
<1> SUFFICES ASSUME SumsTyped, CountedOnce PROVE quotas \in Seq(QuotaStatus)
  OBVIOUS
<1> USE DEF SumsTyped
<1>1. ASSUME NEW i \in DOMAIN quotas PROVE quotas[i] \in QuotaStatus
  <2>1. quotas[i] \in Counted /\ i \in Nat
    OBVIOUS
  <2>2. quotas[i].used <= PerNamespace * Cardinality(Visited) + InHand(i)
    BY DEF CountedOnce
  <2>3. PerNamespace * Cardinality(Visited) + InHand(i) <= Total
    <3>1. CASE ns = None
      <4>1. InHand(i) = 0
        BY <3>1 DEF InHand
      <4>2. PerNamespace * Cardinality(Visited) <= Total /\ PerNamespace * Cardinality(Visited) \in Nat
        BY Numbers, VisitedCard, Multiply
      <4> QED
        BY <4>1, <4>2
    <3>2. CASE ns # None
      <4>1. InHand(i) \in Nat /\ InHand(i) <= PerNamespace
        BY <2>1, InHandBound
      <4>2. Cardinality(Visited) \in Nat /\ Cardinality(Visited) + 1 <= Cardinality(Namespaces)
        BY <3>2, VisitedCard
      <4>3. /\ PerNamespace * Cardinality(Visited) + PerNamespace <= Total
            /\ PerNamespace * Cardinality(Visited) \in Nat
        BY <4>2, Numbers, Multiply
      <4> QED
        BY <4>1, <4>3, Numbers
    <3> QED
      BY <3>1, <3>2
  <2>4. quotas[i].used \in 0 .. Total
    <3>1. PerNamespace * Cardinality(Visited) \in Nat /\ InHand(i) \in Nat
      BY <2>1, Numbers, VisitedCard, Multiply, InHandBound
    <3>2. quotas[i].used \in Nat
      BY <2>1 DEF Counted
    <3> QED
      BY <2>2, <2>3, <3>1, <3>2, Numbers
  <2> QED
    BY <2>1, <2>4 DEF Counted, QuotaStatus
<1> QED
  BY <1>1

LEMMA SumsBoundedNext == (SumsTyped /\ CountedOnce => quotas \in Seq(QuotaStatus))'
BY SumsBounded, PTL
-----------------------------------------------------------------------------
(* A turn of the quota in hand: it becomes r, and either the next quota is *)
(* taken or the type t of its group is done.                               *)

q == quotas[index]

MoreTypes(r, t) ==
    /\ quotas' = [quotas EXCEPT ![index] = r]
    /\ seen' = seen \cup {t}
    /\ UNCHANGED <<index, ns>>

LEMMA Replaced ==
    ASSUME NEW S, NEW s \in Seq(S), NEW k \in 1 .. Len(s), NEW e \in S
    PROVE  /\ [s EXCEPT ![k] = e] \in Seq(S)
           /\ Len([s EXCEPT ![k] = e]) = Len(s)
           /\ [s EXCEPT ![k] = e] # <<>>
           /\ DOMAIN [s EXCEPT ![k] = e] = 1 .. Len(s)
           /\ \A i \in 1 .. Len(s) : [s EXCEPT ![k] = e][i] = IF i = k THEN e ELSE s[i]
<1>1. [s EXCEPT ![k] = e] \in Seq(S) /\ Len([s EXCEPT ![k] = e]) = Len(s)
  OBVIOUS
<1>2. DOMAIN [s EXCEPT ![k] = e] = 1 .. Len(s)
  OBVIOUS
<1>3. \A i \in 1 .. Len(s) : [s EXCEPT ![k] = e][i] = IF i = k THEN e ELSE s[i]
  OBVIOUS
<1>4. [s EXCEPT ![k] = e] # <<>>
  OBVIOUS
<1> QED
  BY <1>1, <1>2, <1>3, <1>4, Zenon

LEMMA InTurn ==
    ASSUME Inside, ns # None
    PROVE  /\ ns \in Namespaces /\ ns \notin nsLeft /\ pc = "calculate"
           /\ index \in Nat /\ Len(quotas) \in Nat /\ index \in 1 .. Len(quotas)
           /\ DOMAIN quotas = 1 .. Len(quotas)
           /\ quotas \in Seq(Counted) /\ q \in Counted
           /\ q.used \in Nat
           /\ q.used <= PerNamespace * Cardinality(Visited) + MaxUsage * Cardinality(seen)
           /\ PerNamespace * Cardinality(Visited) \in Nat
<1>1. /\ ns \in Namespaces /\ ns \notin nsLeft /\ pc = "calculate"
      /\ index \in Nat /\ Len(quotas) \in Nat /\ index \in 1 .. Len(quotas)
      /\ DOMAIN quotas = 1 .. Len(quotas)
  BY DEF Inside, Placed, TypeOK
<1>2. \A i \in DOMAIN quotas : quotas[i] \in Counted
  <2>1. QuotaStatus \subseteq Counted
    BY Numbers DEF QuotaStatus, Counted
  <2> QED
    BY <2>1 DEF Inside, TypeOK
<1>3. quotas \in Seq(Counted)
  BY <1>2 DEF Inside, TypeOK
<1>4. q \in Counted /\ q.used \in Nat
  BY <1>1, <1>2 DEF q, Counted
<1>5. q.used <= PerNamespace * Cardinality(Visited) + InHand(index)
  BY <1>1 DEF Inside, CountedOnce, q
<1>6. InHand(index) = MaxUsage * Cardinality(seen)
  BY <1>1 DEF InHand
<1>7. PerNamespace * Cardinality(Visited) \in Nat
  BY Numbers, VisitedCard, Multiply DEF Inside, TypeOK
<1> QED
  BY <1>1, <1>3, <1>4, <1>5, <1>6, <1>7

LEMMA AdvanceCounts ==
    ASSUME Inside, ns # None, NEW r \in Counted, Advance(r), UNCHANGED <<nsLeft, pc>>,
           r.used <= PerNamespace * Cardinality(Visited) + PerNamespace
    PROVE  /\ quotas' \in Seq(QuotaStatus) /\ Len(quotas') = Len(quotas)
           /\ ns' \in Namespaces \cup {None} /\ index' \in 0 .. Len(quotas') /\ seen' = {}
           /\ Placed' /\ CountedOnce'
<1> DEFINE base == PerNamespace * Cardinality(Visited)
<1>1. /\ ns \in Namespaces /\ ns \notin nsLeft /\ pc = "calculate"
      /\ index \in Nat /\ Len(quotas) \in Nat /\ index \in 1 .. Len(quotas)
      /\ DOMAIN quotas = 1 .. Len(quotas)
      /\ quotas \in Seq(Counted)
      /\ base \in Nat
  BY InTurn
<1>2. /\ quotas' = [quotas EXCEPT ![index] = r] /\ seen' = {}
      /\ \/ index < Len(quotas) /\ index' = index + 1 /\ ns' = ns
         \/ index = Len(quotas) /\ index' = 0 /\ ns' = None
  BY DEF Advance
<1>20. \/ index < Len(quotas) /\ index' = index + 1 /\ ns' = ns
       \/ index = Len(quotas) /\ index' = 0 /\ ns' = None
  BY <1>2, Zenon
<1>21. index \in Nat /\ Len(quotas) \in Nat /\ 1 <= index
  BY <1>1
<1>3. /\ quotas' \in Seq(Counted) /\ Len(quotas') = Len(quotas)
      /\ DOMAIN quotas' = 1 .. Len(quotas)
      /\ \A i \in 1 .. Len(quotas) : quotas'[i] = IF i = index THEN r ELSE quotas[i]
      /\ quotas' # <<>>
  BY <1>1, <1>2, Replaced, Zenon
<1>31. Len(quotas') = Len(quotas)
  BY <1>3, Zenon
<1>32. DOMAIN quotas' = 1 .. Len(quotas)
  BY <1>3, Zenon
<1>33. quotas' # <<>>
  BY <1>3, Zenon
<1>34. quotas' \in Seq(Counted)
  BY <1>3, Zenon
<1>4. Placed'
  <2>1. CASE ns' = None
    BY <1>1, <1>2, <1>33, <2>1 DEF Placed, Inside
  <2>2. CASE ns' # None
    <3>1. ns' = ns /\ index' = index + 1 /\ index' \in 1 .. Len(quotas)
      BY <1>20, <1>21, <2>2
    <3> QED
      BY <1>1, <1>31, <1>33, <2>2, <3>1 DEF Placed
  <2> QED
    BY <2>1, <2>2
<1>5. ASSUME NEW i \in 1 .. Len(quotas), i <= index PROVE quotas'[i].used <= base + PerNamespace
  <2>1. CASE i = index
    BY <2>1, <1>3
  <2>2. CASE i # index
    <3>1. quotas[i].used <= base + InHand(i) /\ InHand(i) = PerNamespace
      BY <1>1, <1>5, <2>2 DEF Inside, CountedOnce, InHand
    <3> QED
      BY <1>3, <2>2, <3>1
  <2> QED
    BY <2>1, <2>2
<1>6. ASSUME NEW i \in 1 .. Len(quotas), i > index PROVE quotas'[i].used <= base + 0
  <2>1. quotas[i].used <= base + InHand(i) /\ InHand(i) = 0
    BY <1>1, <1>6 DEF Inside, CountedOnce, InHand
  <2> QED
    BY <1>1, <1>3, <1>6, <2>1
<1>7. ASSUME ns' = ns PROVE CountedOnce'
  <2>1. index' = index + 1 /\ Visited' = Visited
    BY <1>1, <1>2, <1>7, NamesAssumption DEF Visited
  <2>2. ASSUME NEW i \in 1 .. Len(quotas)
        PROVE  quotas'[i].used <= (PerNamespace * Cardinality(Visited) + InHand(i))'
    <3>1. CASE i <= index
      <4>1. InHand(i)' = PerNamespace
        BY <1>1, <1>7, <2>1, <3>1 DEF InHand
      <4> QED
        BY <1>5, <2>1, <3>1, <4>1
    <3>2. CASE i > index
      <4>1. InHand(i)' = 0
        <5>1. Cardinality({}) = 0
          BY FS_EmptySet
        <5>2. MaxUsage * 0 = 0
          BY Numbers
        <5> QED
          BY <1>2, <1>21, <2>1, <3>2, <5>1, <5>2 DEF InHand
      <4> QED
        BY <1>6, <2>1, <3>2, <4>1
    <3> QED
      BY <1>1, <3>1, <3>2
  <2> QED
    BY <1>32, <2>2 DEF CountedOnce
<1>8. ASSUME ns' # ns PROVE CountedOnce'
  <2>1. index = Len(quotas) /\ ns' = None
    BY <1>2, <1>8
  <2>2. Visited' = Namespaces \ nsLeft
    BY <2>1, NamesAssumption DEF Visited
  <2>3. Cardinality(Visited)' = Cardinality(Visited) + 1 /\ Cardinality(Visited) \in Nat
    BY <1>1, <2>2, VisitedCard, NamesAssumption DEF Inside, TypeOK
  <2>4. PerNamespace * (Cardinality(Visited) + 1) = base + PerNamespace
    BY <2>3, Numbers, Multiply
  <2>5. \A i \in 1 .. Len(quotas) : InHand(i)' = 0 /\ i <= index
    BY <1>1, <2>1 DEF InHand
  <2>6. \A i \in 1 .. Len(quotas) :
          quotas'[i].used <= (PerNamespace * Cardinality(Visited) + InHand(i))'
    BY <1>1, <1>5, <2>3, <2>4, <2>5, Numbers
  <2> QED
    BY <1>32, <2>6 DEF CountedOnce
<1>9. CountedOnce'
  BY <1>7, <1>8
<1>10. ns' \in Namespaces \cup {None} /\ index' \in 0 .. Len(quotas') /\ index' \in Nat
  <2>1. ns' \in Namespaces \cup {None}
    BY <1>1, <1>20
  <2>2. index' \in 0 .. Len(quotas) /\ index' \in Nat
    BY <1>20, <1>21
  <2> QED
    BY <1>31, <2>1, <2>2
<1>11. quotas' \in Seq(QuotaStatus)
  <2>1. nsLeft' \subseteq Namespaces /\ seen' \subseteq Types
    BY <1>2 DEF Inside, TypeOK
  <2> QED
    BY <1>34, <1>9, <1>10, <2>1, SumsBoundedNext DEF SumsTyped
<1> QED
  BY <1>2, <1>31, <1>4, <1>9, <1>10, <1>11

LEMMA MoreTypesCounts ==
    ASSUME Inside, ns # None, NEW r \in Counted, NEW t \in Types \ seen, MoreTypes(r, t),
           UNCHANGED <<nsLeft, pc>>,
           r.used <= PerNamespace * Cardinality(Visited) + (MaxUsage * Cardinality(seen) + MaxUsage)
    PROVE  /\ quotas' \in Seq(QuotaStatus) /\ Len(quotas') = Len(quotas)
           /\ seen' \subseteq Types
           /\ Placed' /\ CountedOnce'
<1>1. /\ ns \in Namespaces /\ ns \notin nsLeft /\ pc = "calculate"
      /\ index \in Nat /\ Len(quotas) \in Nat /\ index \in 1 .. Len(quotas)
      /\ DOMAIN quotas = 1 .. Len(quotas)
      /\ quotas \in Seq(Counted)
  BY InTurn
<1>2. quotas' = [quotas EXCEPT ![index] = r] /\ seen' = seen \cup {t} /\ index' = index /\ ns' = ns
  BY DEF MoreTypes
<1>3. /\ quotas' \in Seq(Counted) /\ Len(quotas') = Len(quotas)
      /\ DOMAIN quotas' = 1 .. Len(quotas)
      /\ \A i \in 1 .. Len(quotas) : quotas'[i] = IF i = index THEN r ELSE quotas[i]
      /\ quotas' # <<>>
  BY <1>1, <1>2, Replaced, Zenon
<1>4. Len(quotas') = Len(quotas)
  BY <1>3, Zenon
<1>5. Placed'
  <2>1. quotas' # <<>>
    BY <1>3, Zenon
  <2> QED
    BY <1>1, <1>2, <1>4, <2>1 DEF Placed
<1>6. Visited' = Visited
  BY <1>2 DEF Visited
<1>7. ASSUME NEW i \in 1 .. Len(quotas)
      PROVE  quotas'[i].used <= (PerNamespace * Cardinality(Visited) + InHand(i))'
  <2>1. CASE i = index
    <3>1. InHand(i)' = MaxUsage * Cardinality(seen) + MaxUsage
      <4>1. MaxUsage * Cardinality(seen \cup {t}) = MaxUsage * Cardinality(seen) + MaxUsage
        BY TypeAddedCard DEF Inside, TypeOK
      <4> QED
        BY <1>1, <1>2, <2>1, <4>1 DEF InHand
    <3> QED
      BY <1>3, <1>6, <2>1, <3>1
  <2>2. CASE i # index
    <3>1. InHand(i)' = InHand(i)
      BY <1>1, <1>2, <2>2 DEF InHand
    <3>2. quotas[i].used <= PerNamespace * Cardinality(Visited) + InHand(i)
      BY <1>1 DEF Inside, CountedOnce
    <3> QED
      BY <1>3, <1>6, <2>2, <3>1, <3>2
  <2> QED
    BY <2>1, <2>2
<1>8. CountedOnce'
  <2>1. DOMAIN quotas' = 1 .. Len(quotas)
    BY <1>3, Zenon
  <2> QED
    BY <1>7, <2>1 DEF CountedOnce
<1>9. seen' \subseteq Types
  BY <1>2 DEF Inside, TypeOK
<1>10. quotas' \in Seq(QuotaStatus)
  <2>1. quotas' \in Seq(Counted)
    BY <1>3, Zenon
  <2>2. nsLeft' \subseteq Namespaces /\ ns' \in Namespaces \cup {None} /\ index' \in Nat
    BY <1>1, <1>2 DEF Inside, TypeOK
  <2> QED
    BY <1>8, <1>9, <2>1, <2>2, SumsBoundedNext DEF SumsTyped
<1> QED
  BY <1>4, <1>5, <1>8, <1>9, <1>10

-----------------------------------------------------------------------------
(* Kinds and their group *)

(* What the turns have in common for the kinds that are kept. *)
KeepsKinds ==
    /\ DOMAIN nsUsed \subseteq DOMAIN nsUsed'
    /\ \A k \in DOMAIN nsUsed : k.kind # AnyKind => nsUsed'[k] = nsUsed[k]

(* The turn of a kind keeps its amount, the turn of a group adds the       *)
(* amount of one of its types, as it is kept.                              *)
KindTurn(r) ==
    q.key.kind # AnyKind /\ r.result = "Success" =>
        /\ q.key \in DOMAIN nsUsed'
        /\ nsUsed'[q.key].used \in Nat
        /\ r.used <= q.used + nsUsed'[q.key].used

Once == \A k \in DOMAIN quotas \ {index} : quotas[k].key # q.key

GroupTurn(r, t) ==
    q.key.kind = AnyKind /\ r.result = "Success" /\ Once
    => /\ q.used <= r.used
       /\ Key(t) \in DOMAIN nsUsed => r.used = q.used + nsUsed[Key(t)].used

Turn(r) ==
    /\ r.key = q.key
    /\ r.result = "Success" => q.result = "Success"
    /\ KeepsKinds

LEMMA OthersFit ==
    ASSUME Inside, ns # None, NEW r \in Counted, Turn(r), quotas' = [quotas EXCEPT ![index] = r],
           NEW i \in DOMAIN quotas, NEW j \in DOMAIN quotas, PartAndWhole(quotas, i, j)'
    PROVE  /\ PartAndWhole(quotas, i, j)
           /\ quotas[i].key.kind # AnyKind
           /\ quotas'[i].key = quotas[i].key
           /\ i # index => quotas'[i] = quotas[i]
           /\ j # index => quotas'[j] = quotas[j]
           /\ i = index => quotas'[i] = r
           /\ j = index => quotas'[j] = r
           /\ quotas[i].used \in Nat /\ quotas[j].used \in Nat
           /\ i < index => /\ quotas[i].key \in DOMAIN nsUsed
                           /\ nsUsed[quotas[i].key].used \in Nat
                           /\ quotas[i].key \in DOMAIN nsUsed'
                           /\ nsUsed'[quotas[i].key] = nsUsed[quotas[i].key]
                           /\ quotas[i].key.kind \in apiTypes
                           /\ quotas[i].key = Key(quotas[i].key.kind)
<1>1. /\ index \in 1 .. Len(quotas) /\ DOMAIN quotas = 1 .. Len(quotas)
      /\ quotas \in Seq(Counted)
  BY InTurn
<1>2. DOMAIN quotas' = DOMAIN quotas
  BY <1>1, Replaced, Zenon
<1>3. \A k \in DOMAIN quotas : quotas'[k] = IF k = index THEN r ELSE quotas[k]
  BY <1>1, Replaced, Zenon
<1>4. \A k \in DOMAIN quotas :
        /\ quotas'[k].key = quotas[k].key
        /\ quotas'[k].result = "Success" => quotas[k].result = "Success"
  BY <1>3 DEF Turn, q
<1>5. /\ i < j
      /\ quotas'[j].key.kind = AnyKind
      /\ quotas'[i].key.group = quotas'[j].key.group
      /\ \A k \in DOMAIN quotas' \ {j} : quotas'[k].key # quotas'[j].key
      /\ quotas'[i].result = "Success" /\ quotas'[j].result = "Success"
  BY DEF PartAndWhole
<1>6. PartAndWhole(quotas, i, j)
  BY <1>2, <1>4, <1>5 DEF PartAndWhole
<1>7. \A k \in DOMAIN quotas : quotas[k].key \in Keys /\ quotas[k].used \in Nat
  <2>1. \A k \in DOMAIN quotas : quotas[k] \in Counted
    BY <1>1
  <2> QED
    BY <2>1 DEF Counted
<1>8. quotas[i].key.kind # AnyKind
  <2>1. quotas[i].key # quotas[j].key /\ i # j
    BY <1>1, <1>6 DEF PartAndWhole
  <2>2. quotas[j].key.kind = AnyKind /\ quotas[i].key.group = quotas[j].key.group
    BY <1>6 DEF PartAndWhole
  <2>3. quotas[i].key \in Keys /\ quotas[j].key \in Keys
    BY <1>7
  <2> QED
    BY <2>1, <2>2, <2>3 DEF Keys
<1>9. ASSUME i < index
      PROVE  /\ quotas[i].key \in DOMAIN nsUsed
             /\ nsUsed[quotas[i].key].used \in Nat
             /\ quotas[i].key \in DOMAIN nsUsed'
             /\ nsUsed'[quotas[i].key] = nsUsed[quotas[i].key]
             /\ quotas[i].key.kind \in apiTypes
             /\ quotas[i].key = Key(quotas[i].key.kind)
  <2>1. quotas[i].key \in DOMAIN nsUsed
    BY <1>6, <1>8, <1>9 DEF Inside, KindsKept, PartAndWhole
  <2>2. /\ nsUsed[quotas[i].key].used \in 0 .. MaxUsage
        /\ quotas[i].key.kind \in apiTypes
        /\ quotas[i].key = Key(quotas[i].key.kind)
    BY <1>8, <2>1 DEF Inside, Kept
  <2> QED
    BY <1>8, <2>1, <2>2 DEF Turn, KeepsKinds
<1> QED
  BY <1>3, <1>4, <1>6, <1>7, <1>8, <1>9

(* The next quota is taken. *)
LEMMA AdvanceFits ==
    ASSUME Inside, ns # None, NEW r \in Counted, Turn(r), KindTurn(r), Advance(r),
           q.key.kind = AnyKind /\ r.result = "Success" /\ Once =>
              \E t \in Types :
                 /\ GroupTurn(r, t)
                 /\ {u \in apiTypes : GroupOf[u] = q.key.group} \subseteq seen \cup {t}
    PROVE  PartsFit'
<1>1. /\ index \in Nat /\ Len(quotas) \in Nat /\ index \in 1 .. Len(quotas)
      /\ DOMAIN quotas = 1 .. Len(quotas)
      /\ quotas \in Seq(Counted) /\ q.used \in Nat
  BY InTurn
<1>2. quotas' = [quotas EXCEPT ![index] = r] /\ seen' = {}
  BY DEF Advance
<1>3. \/ index < Len(quotas) /\ index' = index + 1 /\ ns' = ns
      \/ index = Len(quotas) /\ index' = 0 /\ ns' = None
  BY DEF Advance
<1>4. DOMAIN quotas' = DOMAIN quotas
  BY <1>1, <1>2, Replaced, Zenon
<1>5. ASSUME NEW i \in DOMAIN quotas, NEW j \in DOMAIN quotas, PartAndWhole(quotas, i, j)'
      PROVE  quotas'[i].used <= quotas'[j].used +
               (IF Ahead(i, j) THEN nsUsed[quotas[i].key].used ELSE 0)'
  <2>1. /\ PartAndWhole(quotas, i, j)
        /\ quotas[i].key.kind # AnyKind
        /\ quotas'[i].key = quotas[i].key
        /\ i # index => quotas'[i] = quotas[i]
        /\ j # index => quotas'[j] = quotas[j]
        /\ i = index => quotas'[i] = r
        /\ j = index => quotas'[j] = r
        /\ quotas[i].used \in Nat /\ quotas[j].used \in Nat
        /\ i < index => /\ quotas[i].key \in DOMAIN nsUsed
                        /\ nsUsed[quotas[i].key].used \in Nat
                        /\ nsUsed'[quotas[i].key] = nsUsed[quotas[i].key]
                        /\ quotas[i].key.kind \in apiTypes
                        /\ quotas[i].key = Key(quotas[i].key.kind)
    BY <1>2, <1>5, OthersFit
  <2>2. i \in Nat /\ j \in Nat /\ i < j /\ j <= Len(quotas) /\ 1 <= i /\ index <= Len(quotas)
    BY <1>1, <2>1 DEF PartAndWhole
  <2>3. quotas[i].used <= quotas[j].used +
          (IF Ahead(i, j) THEN nsUsed[quotas[i].key].used ELSE 0)
    BY <2>1 DEF Inside, PartsFit
  <2>4. CASE i # index /\ j # index
    <3>1. Ahead(i, j)' <=> Ahead(i, j)
      BY <1>1, <1>2, <1>3, <2>2, <2>4 DEF Ahead
    <3>2. Ahead(i, j) => i < index
      BY DEF Ahead
    <3> QED
      BY <2>1, <2>3, <2>4, <3>1, <3>2
  <2>5. CASE i = index
    <3>1. ~ Ahead(i, j) /\ Ahead(i, j)'
      <4>1. index < Len(quotas)
        BY <1>1, <2>2, <2>5
      <4>2. index' = index + 1 /\ ns' = ns
        <5>1. index \in Nat /\ Len(quotas) \in Nat
          BY <1>1, Zenon
        <5>2. index # Len(quotas)
          BY <4>1, <5>1
        <5> QED
          BY <1>3, <5>2, Zenon
      <4>3. i < index' /\ ~ (j < index')
        BY <2>2, <2>5, <4>2
      <4>4. ~ (i < index)
        BY <2>2, <2>5
      <4> QED
        BY <1>2, <4>2, <4>3, <4>4 DEF Ahead
    <3>2. r.used <= q.used + nsUsed'[q.key].used /\ nsUsed'[q.key].used \in Nat
      BY <1>5, <2>1, <2>5 DEF KindTurn, PartAndWhole, q
    <3>3. r.used \in Nat
      BY DEF Counted
    <3>4. quotas[i].used <= quotas[j].used
      BY <2>1, <2>3, <3>1
    <3> QED
      BY <2>1, <2>2, <2>5, <3>1, <3>2, <3>3, <3>4 DEF q
  <2>6. CASE j = index
    <3>1. ~ Ahead(i, j)'
      BY <1>1, <1>3, <2>2, <2>6 DEF Ahead
    <3>2. q.key.kind = AnyKind /\ r.result = "Success"
          /\ Once
      BY <1>5, <2>1, <2>6 DEF PartAndWhole, q, Once
    <3>3. PICK t \in Types :
            /\ GroupTurn(r, t)
            /\ {u \in apiTypes : GroupOf[u] = q.key.group} \subseteq seen \cup {t}
      BY <3>2
    <3>4. q.used <= r.used /\ (Key(t) \in DOMAIN nsUsed => r.used = q.used + nsUsed[Key(t)].used)
      BY <3>2, <3>3 DEF GroupTurn
    <3>5. quotas[i].key.kind \in seen \cup {t}
      <4>1. GroupOf[quotas[i].key.kind] = q.key.group
        BY <2>1, <2>2, <2>6 DEF PartAndWhole, Key, q
      <4> QED
        BY <2>1, <2>2, <2>6, <3>3, <4>1
    <3>6. CASE quotas[i].key.kind \in seen
      <4>1. ~ Ahead(i, j)
        BY <2>6, <3>6 DEF Ahead
      <4> QED
        BY <2>1, <2>2, <2>3, <2>6, <3>1, <3>4, <4>1 DEF q, Counted
    <3>7. CASE quotas[i].key.kind = t
      <4>1. r.used = quotas[j].used + nsUsed[quotas[i].key].used
        BY <2>1, <2>2, <2>6, <3>4, <3>7 DEF q
      <4> QED
        BY <2>1, <2>2, <2>3, <2>6, <3>1, <4>1
    <3> QED
      BY <3>5, <3>6, <3>7
  <2> QED
    BY <2>4, <2>5, <2>6
<1> QED
  BY <1>4, <1>5 DEF PartsFit

(* A type of the group is added, and there are others left. *)
LEMMA MoreTypesFits ==
    ASSUME Inside, ns # None, NEW r \in Counted, NEW t \in Types, Turn(r), MoreTypes(r, t),
           q.key.kind = AnyKind, GroupTurn(r, t)
    PROVE  PartsFit'
<1>1. /\ index \in Nat /\ Len(quotas) \in Nat /\ index \in 1 .. Len(quotas)
      /\ DOMAIN quotas = 1 .. Len(quotas)
      /\ quotas \in Seq(Counted) /\ q.used \in Nat
  BY InTurn
<1>2. quotas' = [quotas EXCEPT ![index] = r] /\ seen' = seen \cup {t} /\ index' = index /\ ns' = ns
  BY DEF MoreTypes
<1>3. DOMAIN quotas' = DOMAIN quotas
  BY <1>1, <1>2, Replaced, Zenon
<1>4. ASSUME NEW i \in DOMAIN quotas, NEW j \in DOMAIN quotas, PartAndWhole(quotas, i, j)'
      PROVE  quotas'[i].used <= quotas'[j].used +
               (IF Ahead(i, j) THEN nsUsed[quotas[i].key].used ELSE 0)'
  <2>1. /\ PartAndWhole(quotas, i, j)
        /\ quotas[i].key.kind # AnyKind
        /\ quotas'[i].key = quotas[i].key
        /\ i # index => quotas'[i] = quotas[i]
        /\ j # index => quotas'[j] = quotas[j]
        /\ j = index => quotas'[j] = r
        /\ quotas[i].used \in Nat /\ quotas[j].used \in Nat
        /\ i < index => /\ nsUsed[quotas[i].key].used \in Nat
                        /\ quotas[i].key \in DOMAIN nsUsed
                        /\ nsUsed'[quotas[i].key] = nsUsed[quotas[i].key]
                        /\ quotas[i].key = Key(quotas[i].key.kind)
    BY <1>2, <1>4, OthersFit
  <2>2. i \in Nat /\ j \in Nat /\ i < j
    BY <1>1, <2>1 DEF PartAndWhole
  <2>3. quotas[i].used <= quotas[j].used +
          (IF Ahead(i, j) THEN nsUsed[quotas[i].key].used ELSE 0)
    BY <2>1 DEF Inside, PartsFit
  <2>4. i # index
    BY <2>1 DEF q
  <2>5. Ahead(i, j) => i < index
    BY DEF Ahead
  <2>6. CASE j # index
    <3>1. Ahead(i, j)' <=> Ahead(i, j)
      BY <1>2, <2>6 DEF Ahead
    <3> QED
      BY <2>1, <2>3, <2>4, <2>5, <2>6, <3>1
  <2>7. CASE j = index
    <3>1. q.used <= r.used /\ (Key(t) \in DOMAIN nsUsed => r.used = q.used + nsUsed[Key(t)].used)
      BY <1>3, <1>4, <2>1, <2>7 DEF GroupTurn, PartAndWhole, q, Once
    <3>2. r.used \in Nat
      BY DEF Counted
    <3>3. CASE quotas[i].key.kind = t
      <4>1. r.used = quotas[j].used + nsUsed[quotas[i].key].used
        BY <2>1, <2>2, <2>7, <3>1, <3>3 DEF q
      <4>2. ~ Ahead(i, j)'
        BY <1>2, <2>1, <2>7, <3>3 DEF Ahead
      <4> QED
        BY <2>1, <2>2, <2>3, <2>4, <2>7, <3>2, <4>1, <4>2
    <3>4. CASE quotas[i].key.kind # t
      <4>1. Ahead(i, j)' <=> Ahead(i, j)
        BY <1>2, <2>1, <2>7, <3>4 DEF Ahead
      <4>2. quotas[j].used <= r.used
        BY <2>7, <3>1 DEF q
      <4> QED
        BY <2>1, <2>2, <2>3, <2>4, <2>5, <2>7, <3>2, <4>1, <4>2
    <3> QED
      BY <3>3, <3>4
  <2> QED
    BY <2>6, <2>7
<1> QED
  BY <1>3, <1>4 DEF PartsFit

(* What is kept of the namespace stays, and a new entry is for the kind or *)
(* the group of the quota in hand.                                         *)
NewEntry ==
    \A k \in DOMAIN nsUsed' :
        \/ k \in DOMAIN nsUsed /\ nsUsed'[k] = nsUsed[k]
        \/ /\ k = q.key
           /\ nsUsed'[k].used \in 0 .. MaxUsage /\ Types # {}
           /\ k.kind # AnyKind => k.kind \in apiTypes /\ k = Key(k.kind)

LEMMA TurnKeeps ==
    ASSUME Inside, ns # None, NEW r \in Counted, Turn(r), KindTurn(r), NewEntry,
           apiTypes' = apiTypes,
           Advance(r) \/ (q.key.kind = AnyKind /\ \E t \in Types : MoreTypes(r, t))
    PROVE  Kept' /\ KindsKept'
<1>1. /\ index \in Nat /\ Len(quotas) \in Nat /\ index \in 1 .. Len(quotas)
      /\ DOMAIN quotas = 1 .. Len(quotas)
      /\ quotas \in Seq(Counted)
  BY InTurn
<1>2. quotas' = [quotas EXCEPT ![index] = r]
  BY DEF Advance, MoreTypes
<1>3. DOMAIN quotas' = DOMAIN quotas
  BY <1>1, <1>2, Replaced, Zenon
<1>4. \A k \in DOMAIN quotas : quotas'[k] = IF k = index THEN r ELSE quotas[k]
  BY <1>1, <1>2, Replaced, Zenon
<1>5. \A k \in DOMAIN quotas : quotas'[k].key = quotas[k].key /\ k \in Nat
  BY <1>1, <1>4 DEF Turn, q
<1>6. \/ ns' = None
      \/ ns' = ns /\ index' = index + 1 /\ seen' = {}
      \/ ns' = ns /\ index' = index /\ seen' # {} /\ q.key.kind = AnyKind
  BY DEF Advance, MoreTypes
<1>7. ns' # None => \A i \in DOMAIN quotas : Begun(i) \/ i = index => Begun(i)'
  BY <1>1, <1>5, <1>6 DEF Begun
<1>8. Kept'
  <2> SUFFICES ASSUME NEW k \in DOMAIN nsUsed'
               PROVE  /\ nsUsed'[k].used \in 0 .. MaxUsage /\ Types # {}
                      /\ ns' # None /\ k.kind # AnyKind => k.kind \in apiTypes' /\ k = Key(k.kind)
                      /\ ns' # None /\ k.kind = AnyKind =>
                           \E i \in DOMAIN quotas' : quotas'[i].key = k /\ Begun(i)'
    BY DEF Kept, Key
  <2>1. CASE k \in DOMAIN nsUsed /\ nsUsed'[k] = nsUsed[k]
    BY <1>3, <1>5, <1>7, <2>1 DEF Inside, Kept
  <2>2. CASE /\ k = q.key
             /\ nsUsed'[k].used \in 0 .. MaxUsage /\ Types # {}
             /\ k.kind # AnyKind => k.kind \in apiTypes /\ k = Key(k.kind)
    BY <1>1, <1>3, <1>5, <1>7, <2>2 DEF q
  <2> QED
    BY <2>1, <2>2 DEF NewEntry
<1>9. KindsKept'
  <2> SUFFICES ASSUME ns' # None, NEW i \in DOMAIN quotas, i < index',
                      quotas'[i].result = "Success", quotas'[i].key.kind # AnyKind
               PROVE  quotas'[i].key \in DOMAIN nsUsed'
    BY <1>3 DEF KindsKept
  <2>1. CASE i = index
    BY <1>4, <2>1 DEF KindTurn, Turn
  <2>2. CASE i # index
    <3>1. i < index
      BY <1>1, <1>5, <1>6, <2>2
    <3> QED
      BY <1>4, <2>2, <3>1 DEF Inside, KindsKept, Turn, KeepsKinds
  <2> QED
    BY <2>1, <2>2
<1> QED
  BY <1>8, <1>9
-----------------------------------------------------------------------------
(* The turns of CalculateStatus *)

Entered == \A k \in DOMAIN nsUsed' : k \in Keys /\ nsUsed'[k] \in Result

GroupDone(r) ==
    q.key.kind = AnyKind /\ r.result = "Success" /\ Once =>
        \E t \in Types :
            /\ GroupTurn(r, t)
            /\ {u \in apiTypes : GroupOf[u] = q.key.group} \subseteq seen \cup {t}

Rest == <<cluster, pq, cached, dirty, pc, apiTypes, nsLeft, changes, failures>>

LEMMA AdvanceInv ==
    ASSUME Inside, ns # None, NEW r \in Counted, Turn(r), KindTurn(r), NewEntry, Entered,
           GroupDone(r), Advance(r), UNCHANGED Rest,
           r.used <= PerNamespace * Cardinality(Visited) + PerNamespace
    PROVE  Inside'
<1>1. /\ quotas' \in Seq(QuotaStatus)
      /\ ns' \in Namespaces \cup {None} /\ index' \in 0 .. Len(quotas') /\ seen' = {}
      /\ Placed' /\ CountedOnce'
  BY AdvanceCounts DEF Rest
<1>2. PartsFit'
  BY AdvanceFits DEF GroupDone
<1>3. Kept' /\ KindsKept'
  BY TurnKeeps DEF Rest
<1>4. TypeOK'
  BY <1>1 DEF Inside, TypeOK, Rest, cluster, Entered
<1> QED
  BY <1>1, <1>2, <1>3, <1>4 DEF Inside

LEMMA MoreTypesInv ==
    ASSUME Inside, ns # None, NEW r \in Counted, NEW t \in Types \ seen, Turn(r), NewEntry, Entered,
           q.key.kind = AnyKind, GroupTurn(r, t), MoreTypes(r, t), UNCHANGED Rest,
           r.used <= PerNamespace * Cardinality(Visited) + (MaxUsage * Cardinality(seen) + MaxUsage)
    PROVE  Inside'
<1>1. /\ quotas' \in Seq(QuotaStatus) /\ Len(quotas') = Len(quotas)
      /\ seen' \subseteq Types /\ Placed' /\ CountedOnce'
  BY MoreTypesCounts DEF Rest
<1>2. PartsFit'
  BY MoreTypesFits
<1>3. Kept' /\ KindsKept'
  <2>1. KindTurn(r)
    BY DEF KindTurn
  <2> QED
    BY <2>1, TurnKeeps DEF Rest
<1>4. TypeOK'
  <2>1. index' \in 0 .. Len(quotas')
    BY <1>1 DEF MoreTypes, Inside, TypeOK
  <2> QED
    BY <1>1, <2>1 DEF Inside, TypeOK, Rest, cluster, Entered, MoreTypes
<1> QED
  BY <1>1, <1>2, <1>3, <1>4 DEF Inside

LEMMA UsedQuotaType ==
    ASSUME Inside, ns # None, NEW t \in Types
    PROVE  /\ UsedQuota(ns, t) \in Result
           /\ UsedQuota(ns, t).used \in 0 .. MaxUsage
           /\ MaxUsage <= PerNamespace
<1>1. ns \in Namespaces
  BY InTurn
<1>2. usage[ns][t] \in 0 .. MaxUsage /\ MaxUsage \in Nat
  BY <1>1, Numbers DEF Inside, TypeOK
<1>3. UsedQuota(ns, t).used \in 0 .. MaxUsage /\ UsedQuota(ns, t).result \in {"Success", "Error"}
  BY <1>2 DEF UsedQuota
<1>4. MaxUsage <= PerNamespace
  <2>1. MaxUsage * Cardinality({}) + MaxUsage <= PerNamespace
    BY TypeAddedCard
  <2>2. Cardinality({}) = 0 /\ MaxUsage * 0 = 0
    BY FS_EmptySet, Numbers
  <2> QED
    BY <2>1, <2>2, Numbers
<1>5. PerNamespace <= Total
  <2>1. Cardinality(Visited) \in Nat /\ Cardinality(Visited) + 1 <= Cardinality(Namespaces)
    BY VisitedCard DEF Inside, TypeOK
  <2>2. PerNamespace * Cardinality(Visited) + PerNamespace <= Total
        /\ PerNamespace * Cardinality(Visited) \in Nat
    BY <2>1, Numbers, Multiply
  <2> QED
    BY <2>2, Numbers
<1>6. UsedQuota(ns, t) = [result |-> UsedQuota(ns, t).result, used |-> UsedQuota(ns, t).used]
  BY DEF UsedQuota
<1>7. UsedQuota(ns, t).used \in 0 .. Total
  BY <1>3, <1>4, <1>5, Numbers
<1> QED
  BY <1>3, <1>4, <1>6, <1>7 DEF Result

(* A new entry for the key of the quota in hand. *)
LEMMA KeepEntry ==
    ASSUME Inside, ns # None, NEW u \in Result, u.used \in 0 .. MaxUsage, Types # {},
           q.key \notin DOMAIN nsUsed \/ q.key.kind = AnyKind,
           q.key.kind # AnyKind => q.key.kind \in apiTypes /\ q.key = Key(q.key.kind),
           nsUsed' = Keep(q.key, u)
    PROVE  KeepsKinds /\ NewEntry /\ Entered /\ nsUsed'[q.key] = u /\ q.key \in DOMAIN nsUsed'
<1>1. q.key \in Keys
  BY InTurn DEF Counted
<1>2. /\ DOMAIN nsUsed' = DOMAIN nsUsed \cup {q.key}
      /\ \A k \in DOMAIN nsUsed \cup {q.key} : nsUsed'[k] = IF k = q.key THEN u ELSE nsUsed[k]
  BY DEF Keep
<1>3. KeepsKinds
  BY <1>2 DEF KeepsKinds
<1>4. NewEntry
  BY <1>2 DEF NewEntry
<1>5. Entered
  BY <1>1, <1>2 DEF Entered, Inside, TypeOK
<1> QED
  BY <1>2, <1>3, <1>4, <1>5

LEMMA KeptAsIs ==
    ASSUME Inside, UNCHANGED nsUsed PROVE KeepsKinds /\ NewEntry /\ Entered
BY DEF Inside, TypeOK, KeepsKinds, NewEntry, Entered

(* The quota in hand has not begun its turn: its sum has room for one more *)
(* amount.                                                                 *)
LEMMA AtStart ==
    ASSUME Inside, ns # None, seen = {}, NEW n \in Nat, n <= PerNamespace
    PROVE  q.used + n \in Nat /\ q.used + n <= PerNamespace * Cardinality(Visited) + PerNamespace
<1>1. /\ q.used \in Nat
      /\ q.used <= PerNamespace * Cardinality(Visited) + MaxUsage * Cardinality(seen)
      /\ PerNamespace * Cardinality(Visited) \in Nat
  BY InTurn
<1>2. MaxUsage * Cardinality(seen) = 0
  BY FS_EmptySet, Numbers
<1> QED
  BY <1>1, <1>2, Numbers

LEMMA SkipFailedInv ==
    ASSUME Inside, ns # None, seen = {}, SkipFailed(q), UNCHANGED Rest PROVE Inside'
<1>1. q \in Counted /\ q.used + 0 = q.used
  BY InTurn
<1>2. q.used <= PerNamespace * Cardinality(Visited) + PerNamespace
  BY <1>1, AtStart, Numbers
<1>3. KeepsKinds /\ NewEntry /\ Entered
  BY KeptAsIs DEF SkipFailed
<1>4. Turn(q) /\ KindTurn(q) /\ GroupDone(q)
  BY <1>3 DEF SkipFailed, Turn, KindTurn, GroupDone
<1> QED
  BY <1>1, <1>2, <1>3, <1>4, AdvanceInv DEF SkipFailed

LEMMA NoTypeInv ==
    ASSUME Inside, ns # None, seen = {}, NoType(q), UNCHANGED Rest PROVE Inside'
<1> DEFINE r == [q EXCEPT !.result = "Error"]
<1>1. q \in Counted /\ q.used + 0 = q.used
  BY InTurn
<1>2. r \in Counted /\ r.key = q.key /\ r.result = "Error" /\ r.used = q.used
  BY <1>1 DEF Counted
<1>3. q.used <= PerNamespace * Cardinality(Visited) + PerNamespace
  BY <1>1, AtStart, Numbers
<1>4. KeepsKinds /\ NewEntry /\ Entered /\ Advance(r)
  BY KeptAsIs DEF NoType
<1> HIDE DEF r
<1>5. Turn(r) /\ KindTurn(r) /\ GroupDone(r)
  BY <1>2, <1>4 DEF Turn, KindTurn, GroupDone
<1> QED
  BY <1>2, <1>3, <1>4, <1>5, AdvanceInv

LEMMA AddKindInv ==
    ASSUME Inside, ns # None, seen = {}, AddKind(q), UNCHANGED Rest PROVE Inside'
<1> DEFINE u == UsedQuota(ns, q.key.kind)
           r == [q EXCEPT !.used = @ + u.used]
<1>1. q \in Counted /\ q.used \in Nat
  BY InTurn
<1>2. PICK t \in apiTypes : Key(t) = q.key
  BY DEF AddKind
<1>3. q.key.kind = t /\ t \in Types /\ t # AnyKind
  BY <1>2, NamesAssumption DEF Key, Inside, TypeOK
<1>4. u \in Result /\ u.used \in 0 .. MaxUsage /\ u.used \in Nat /\ u.used <= PerNamespace
  BY <1>3, UsedQuotaType, Numbers
<1>5. q.result # "Error" /\ q.key \notin DOMAIN nsUsed /\ nsUsed' = Keep(q.key, u) /\ Advance(r)
  BY DEF AddKind, KindAdded, Fresh
<1> HIDE DEF u
<1>6. r \in Counted /\ r.key = q.key /\ r.result = q.result /\ r.used = q.used + u.used
  BY <1>1, <1>4 DEF Counted
<1> HIDE DEF r
<1>7. r.used <= PerNamespace * Cardinality(Visited) + PerNamespace
  BY <1>4, <1>6, AtStart
<1>8. KeepsKinds /\ NewEntry /\ Entered /\ nsUsed'[q.key] = u /\ q.key \in DOMAIN nsUsed'
  BY <1>2, <1>3, <1>4, <1>5, KeepEntry
<1>9. Turn(r) /\ GroupDone(r)
  BY <1>3, <1>6, <1>8 DEF Turn, GroupDone
<1>10. KindTurn(r)
  BY <1>1, <1>4, <1>6, <1>8 DEF KindTurn
<1> QED
  BY <1>5, <1>6, <1>7, <1>8, <1>9, <1>10, AdvanceInv

(* A group that is listed once is not reused. *)
LEMMA ReuseInv ==
    ASSUME Inside, ns # None, seen = {}, Reuse(q), UNCHANGED Rest PROVE Inside'
<1> DEFINE u == nsUsed[q.key]
           r == [q EXCEPT !.used = u.used, !.result = u.result]
<1>1. q \in Counted /\ q.used \in Nat /\ q.result \in {"Success", "Error"}
  BY InTurn DEF Counted
<1>2. q.result # "Error" /\ q.key \in DOMAIN nsUsed /\ Advance(r) /\ UNCHANGED nsUsed
  BY DEF Reuse
<1>3. u \in Result /\ u.used \in 0 .. MaxUsage
  BY <1>2 DEF Inside, TypeOK, Kept
<1>4. u.used \in Nat /\ u.result \in {"Success", "Error"}
  BY <1>3, Numbers DEF Result
<1>5. u.used <= PerNamespace
  <2>1. Types # {}
    BY <1>2 DEF Inside, Kept
  <2>2. MaxUsage <= PerNamespace
    BY <2>1, UsedQuotaType
  <2> QED
    BY <1>3, <2>2, Numbers
<1> HIDE DEF u
<1>6. r \in Counted /\ r.key = q.key /\ r.used = u.used
  BY <1>1, <1>4 DEF Counted
<1> HIDE DEF r
<1>7. r.used <= PerNamespace * Cardinality(Visited) + PerNamespace
  <2>1. PerNamespace * Cardinality(Visited) \in Nat
    BY InTurn
  <2> QED
    BY <1>4, <1>5, <1>6, <2>1, Numbers
<1>8. KeepsKinds /\ NewEntry /\ Entered
  BY <1>2, KeptAsIs
<1>9. Turn(r)
  BY <1>1, <1>2, <1>6, <1>8 DEF Turn
<1>10. KindTurn(r)
  BY <1>1, <1>2, <1>4, <1>6 DEF KindTurn, u
<1>11. GroupDone(r)
  <2> SUFFICES ASSUME q.key.kind = AnyKind, Once PROVE FALSE
    BY DEF GroupDone
  <2>1. PICK i \in DOMAIN quotas : quotas[i].key = q.key /\ Begun(i)
    BY <1>2 DEF Inside, Kept
  <2>2. i \in DOMAIN quotas \ {index}
    BY <2>1, InTurn DEF Begun
  <2> QED
    BY <2>1, <2>2 DEF Once
<1> QED
  BY <1>2, <1>6, <1>7, <1>8, <1>9, <1>10, <1>11, AdvanceInv

(* A group takes over what is kept of a kind, and lists the others. *)
LEMMA AddTypeInv ==
    ASSUME Inside, ns # None, NEW t \in Types, AddType(q, t), UNCHANGED Rest PROVE Inside'
<1> DEFINE known == Key(t) \in DOMAIN nsUsed
           u == IF known THEN nsUsed[Key(t)] ELSE UsedQuota(ns, t)
           left == {v \in apiTypes : GroupOf[v] = q.key.group} \ (seen \cup {t})
           r == TypeAdded(q, u)
<1>1. q \in Counted /\ q.used \in Nat /\ q.result \in {"Success", "Error"}
  BY InTurn DEF Counted
<1>2. /\ q.key.kind = AnyKind
      /\ t \in apiTypes \ seen
      /\ nsUsed' = IF known THEN nsUsed ELSE Keep(q.key, u)
      /\ \/ MoreTypes(r, t)
         \/ left = {} /\ Advance(r)
  BY DEF AddType, MoreTypes
<1>3. u \in Result /\ u.used \in 0 .. MaxUsage
  BY UsedQuotaType DEF Inside, TypeOK, Kept
<1>4. known => u = nsUsed[Key(t)]
  OBVIOUS
<1>5. KeepsKinds /\ NewEntry /\ Entered
  <2>1. CASE known
    BY <1>2, <2>1, KeptAsIs
  <2>2. CASE ~ known
    BY <1>2, <1>3, <2>2, KeepEntry
  <2> QED
    BY <2>1, <2>2
<1> HIDE DEF u
<1>6. u.used \in Nat /\ u.used <= MaxUsage /\ u.result \in {"Success", "Error"}
  BY <1>3, Numbers DEF Result
<1>7. /\ r \in Counted /\ r.key = q.key /\ r.used = q.used + u.used
      /\ r.result = "Success" => q.result = "Success"
  <2> DEFINE res == IF u.result = "Error" THEN "Error" ELSE q.result
  <2>1. r = [q EXCEPT !.used = q.used + u.used, !.result = res]
    BY Zenon DEF TypeAdded
  <2>2. res \in {"Success", "Error"} /\ (res = "Success" => q.result = "Success")
    BY <1>1
  <2>3. q.key \in Keys /\ q.used + u.used \in Nat
    BY <1>1, <1>6 DEF Counted
  <2> HIDE DEF r, res
  <2> QED
    BY <1>1, <2>1, <2>2, <2>3 DEF Counted
<1> HIDE DEF r
<1>8. /\ r.used <= PerNamespace * Cardinality(Visited) + (MaxUsage * Cardinality(seen) + MaxUsage)
      /\ r.used <= PerNamespace * Cardinality(Visited) + PerNamespace
  <2>1. /\ q.used <= PerNamespace * Cardinality(Visited) + MaxUsage * Cardinality(seen)
        /\ PerNamespace * Cardinality(Visited) \in Nat
    BY InTurn
  <2>2. MaxUsage * Cardinality(seen) \in Nat /\ MaxUsage * Cardinality(seen) + MaxUsage <= PerNamespace
    BY <1>2, TypesCard, TypeAddedCard DEF Inside, TypeOK
  <2> QED
    BY <1>1, <1>6, <1>7, <2>1, <2>2, Numbers
<1>9. Turn(r) /\ KindTurn(r)
  BY <1>2, <1>5, <1>7 DEF Turn, KindTurn
<1>10. GroupTurn(r, t)
  BY <1>1, <1>4, <1>6, <1>7 DEF GroupTurn
<1>11. CASE MoreTypes(r, t)
  BY <1>2, <1>5, <1>7, <1>8, <1>9, <1>10, <1>11, MoreTypesInv
<1>12. CASE left = {} /\ Advance(r)
  <2>1. {v \in apiTypes : GroupOf[v] = q.key.group} \subseteq seen \cup {t}
    BY <1>12
  <2>2. GroupDone(r)
    BY <1>10, <2>1 DEF GroupDone
  <2> QED
    BY <1>5, <1>7, <1>8, <1>9, <1>12, <2>2, AdvanceInv
<1> QED
  BY <1>2, <1>11, <1>12

LEMMA CalculateInv ==
    ASSUME Inside, Calculate PROVE Inside'
<1>1. /\ ns # None
      /\ \/ seen = {} /\ (SkipFailed(q) \/ Reuse(q) \/ NoType(q) \/ AddKind(q))
         \/ \E t \in Types : AddType(q, t)
      /\ UNCHANGED Rest
  BY DEF Calculate, q, Rest
<1> QED
  BY <1>1, SkipFailedInv, ReuseInv, NoTypeInv, AddKindInv, AddTypeInv
-----------------------------------------------------------------------------
(* The other steps *)

(* A step that leaves the worker where it is. *)
LEMMA WorkerUntouched ==
    ASSUME Inside, UNCHANGED locals, TypeOK', pc' = pc
    PROVE  Inside'
<1>1. UNCHANGED <<quotas, apiTypes, nsLeft, ns, index, seen, nsUsed>>
  BY DEF locals
<1>2. Placed' /\ KindsKept'
  BY <1>1 DEF Inside, Placed, KindsKept
<1>3. Kept'
  BY <1>1 DEF Inside, Kept, Begun, Key
<1>4. PartsFit'
  BY <1>1 DEF Inside, PartsFit, PartAndWhole, Ahead
<1>5. CountedOnce'
  BY <1>1 DEF Inside, CountedOnce, Visited, InHand, PerNamespace
<1> QED
  BY <1>2, <1>3, <1>4, <1>5 DEF Inside

LEMMA EmptyFacts == Empty \in [{} -> {}] /\ DOMAIN Empty = {}
BY DEF Empty

(* The idle worker holds nothing. *)
LEMMA Idle ==
    ASSUME NEW again \in BOOLEAN, Return(again), TypeOK'
    PROVE  Inside'
<1>1. /\ pc' = "idle" /\ quotas' = <<>> /\ nsLeft' = {} /\ ns' = None /\ index' = 0
      /\ seen' = {} /\ DOMAIN nsUsed' = {} /\ DOMAIN quotas' = {}
  BY EmptyFacts DEF Return
<1>2. Placed' /\ KindsKept'
  BY <1>1 DEF Placed, KindsKept
<1>3. Kept' /\ PartsFit' /\ CountedOnce'
  BY <1>1 DEF Kept, PartsFit, CountedOnce
<1> QED
  BY <1>2, <1>3 DEF Inside

LEMMA ReturnTypes ==
    ASSUME TypeOK, NEW again \in BOOLEAN, Return(again)
    PROVE  /\ dirty' \in BOOLEAN /\ pc' = "idle" /\ quotas' = <<>> /\ apiTypes' = {}
           /\ nsLeft' = {} /\ ns' = None /\ index' = 0 /\ seen' = {} /\ DOMAIN nsUsed' = {}
BY EmptyFacts DEF TypeOK, Return

LEMMA Written ==
    ASSUME NEW spec \in Specs
    PROVE  /\ [spec |-> spec, status |-> <<>>] \in [spec : Specs, status : Seq(QuotaStatus)]
           /\ DOMAIN [spec |-> spec, status |-> <<>>].status = {}
           /\ DOMAIN Absent.status = {}
<1>1. <<>> \in Seq(QuotaStatus) /\ DOMAIN <<>> = {}
  OBVIOUS
<1> QED
  BY <1>1 DEF Absent

LEMMA InitInside == Init => QuotaInv
<1> SUFFICES ASSUME Init PROVE Inside /\ PartOfWhole
  BY DEF QuotaInv
<1>1. PICK spec \in Specs : pq = [spec |-> spec, status |-> <<>>] /\ cached = pq
  BY DEF Init
<1>2. pq \in [spec : Specs, status : Seq(QuotaStatus)] /\ DOMAIN pq.status = {}
  BY <1>1, Written
<1>3. /\ pc = "idle" /\ quotas = <<>> /\ apiTypes = {} /\ nsLeft = {} /\ ns = None
      /\ index = 0 /\ seen = {} /\ dirty = TRUE /\ changes = 0 /\ failures = 0
      /\ labelled \subseteq Namespaces
  BY DEF Init
<1>4. DOMAIN nsUsed = {}
  BY EmptyFacts DEF Init
<1>5. usage \in [Namespaces -> [Types -> 0 .. MaxUsage]]
  <2>1. PICK inUse \in InUse :
          usage = [n \in Namespaces |-> [t \in Types |-> IF t \in inUse THEN MaxUsage ELSE 0]]
    BY DEF Init
  <2>2. MaxUsage \in 0 .. MaxUsage /\ 0 \in 0 .. MaxUsage
    BY Numbers
  <2> QED
    BY <2>1, <2>2
<1>6. quotas \in Seq(QuotaStatus) /\ index \in 0 .. Len(quotas) /\ DOMAIN quotas = {}
  BY <1>3
<1>7. TypeOK
  BY <1>1, <1>2, <1>3, <1>4, <1>5, <1>6, BoundsAssumption DEF TypeOK
<1>8. Placed /\ KindsKept
  BY <1>3 DEF Placed, KindsKept
<1>9. Kept /\ PartsFit /\ CountedOnce
  BY <1>4, <1>6 DEF Kept, PartsFit, CountedOnce
<1>10. PartOfWhole
  BY <1>2 DEF PartOfWhole
<1> QED
  BY <1>7, <1>8, <1>9, <1>10 DEF Inside

(* The status begins with a zero for every quota of the spec. *)
LEMMA NewQuotasFacts ==
    ASSUME TypeOK, cached # Absent
    PROVE  /\ NewQuotas \in Seq(QuotaStatus) /\ NewQuotas # <<>>
           /\ \A i \in DOMAIN NewQuotas : NewQuotas[i].used = 0
<1>1. cached.spec \in Seq(Keys) /\ cached.spec # <<>>
  <2>1. cached.spec \in Specs
    BY DEF TypeOK
  <2> QED
    BY <2>1, SpecsAssumption
<1> DEFINE s == cached.spec
<1>2. s \in Seq(Keys) /\ DOMAIN s = 1 .. Len(s) /\ Len(s) \in Nat
  BY <1>1
<1>3. Len(s) # 0
  BY <1>1
<1> HIDE DEF s
<1>4. NewQuotas = [i \in 1 .. Len(s) |-> New(s[i])]
  BY <1>2 DEF NewQuotas, s
<1>5. \A i \in 1 .. Len(s) : New(s[i]) \in QuotaStatus /\ New(s[i]).used = 0
  <2>1. 0 \in 0 .. Total
    BY Numbers
  <2>2. \A i \in 1 .. Len(s) : s[i] \in Keys
    BY <1>2
  <2> QED
    BY <2>1, <2>2 DEF New, QuotaStatus
<1>6. NewQuotas \in [1 .. Len(s) -> QuotaStatus]
  BY <1>4, <1>5
<1>7. NewQuotas \in Seq(QuotaStatus)
  BY <1>2, <1>6
<1>8. DOMAIN NewQuotas = 1 .. Len(s) /\ 1 \in DOMAIN NewQuotas
  BY <1>2, <1>3, <1>4
<1> QED
  BY <1>4, <1>5, <1>7, <1>8

LEMMA BeginInv ==
    ASSUME Inside, Begin PROVE Inside'
<1>1. /\ quotas' \in Seq(QuotaStatus) /\ quotas' # <<>>
      /\ \A i \in DOMAIN quotas' : quotas'[i].used = 0
  BY NewQuotasFacts DEF Inside, Begin
<1>2. /\ pc' = "calculate" /\ ns' = None /\ index' = 0 /\ seen' = {} /\ nsUsed' = nsUsed
      /\ nsLeft' \subseteq Namespaces
  BY SpecsAssumption DEF Inside, Begin, TypeOK, Placed, NamespaceList
<1>3. apiTypes' \subseteq Types /\ failures' \in 0 .. MaxFailures
  BY BoundsAssumption DEF Begin, ListKinds, Failure, Inside, TypeOK
<1>4. TypeOK'
  <2>1. index' \in 0 .. Len(quotas')
    BY <1>1, <1>2
  <2>2. quotas' \in Seq(QuotaStatus)
    BY <1>1, Zenon
  <2>3. dirty' = FALSE /\ UNCHANGED <<usage, labelled, pq, cached, changes>>
    BY DEF Begin, cluster
  <2> QED
    BY <1>2, <1>3, <2>1, <2>2, <2>3 DEF Inside, TypeOK
<1>5. Placed' /\ KindsKept'
  BY <1>1, <1>2 DEF Placed, KindsKept
<1>6. Kept'
  BY <1>2 DEF Kept, Inside
<1>7. PartsFit'
  <2>1. \A i, j : ~ Ahead(i, j)'
    BY <1>2 DEF Ahead
  <2> QED
    BY <1>1, <2>1 DEF PartsFit
<1>8. CountedOnce'
  <2>1. (PerNamespace * Cardinality(Visited))' \in Nat
    <3>1. Visited' \in SUBSET Namespaces
      BY DEF Visited
    <3>2. Cardinality(Visited') \in Nat
      BY <3>1, FiniteAssumption, FS_Subset, FS_CardinalityType
    <3> QED
      BY <3>2, Numbers, Multiply
  <2>2. \A i : InHand(i)' = 0
    BY <1>2 DEF InHand
  <2> QED
    BY <1>1, <2>1, <2>2 DEF CountedOnce
<1> QED
  BY <1>4, <1>5, <1>6, <1>7, <1>8 DEF Inside

LEMMA NextNamespaceInv ==
    ASSUME Inside, NEW n \in Namespaces, NextNamespace(n) PROVE Inside'
<1>1. /\ pc = "calculate" /\ ns = None /\ n \in nsLeft /\ n # None
      /\ ns' = n /\ nsLeft' = nsLeft \ {n} /\ index' = 1 /\ seen' = {}
      /\ UNCHANGED <<quotas, apiTypes, pc>>
      /\ index = 0 /\ seen = {} /\ quotas # <<>>
  BY NamesAssumption DEF NextNamespace, Inside, Placed
<1>2. DOMAIN nsUsed' = {}
  BY EmptyFacts DEF NextNamespace
<1>3. 1 \in 1 .. Len(quotas) /\ 1 \in 0 .. Len(quotas) /\ \A i \in DOMAIN quotas : i \in Nat /\ i >= 1
  BY <1>1 DEF Inside, TypeOK
<1>4. TypeOK'
  <2>1. nsLeft' \subseteq Namespaces /\ ns' \in Namespaces \cup {None}
    BY <1>1 DEF Inside, TypeOK
  <2>2. index' \in 0 .. Len(quotas')
    BY <1>1, <1>3
  <2> QED
    BY <1>1, <1>2, <2>1, <2>2 DEF NextNamespace, Inside, TypeOK, cluster
<1>5. Placed'
  BY <1>1, <1>3 DEF Placed
<1>6. KindsKept'
  BY <1>1, <1>3 DEF KindsKept
<1>7. Kept'
  BY <1>2 DEF Kept
<1>8. PartsFit'
  <2>1. \A i, j \in DOMAIN quotas : ~ Ahead(i, j)' /\ ~ Ahead(i, j)
    BY <1>1, <1>3 DEF Ahead
  <2>2. \A i, j \in DOMAIN quotas : PartAndWhole(quotas, i, j)' <=> PartAndWhole(quotas, i, j)
    BY <1>1 DEF PartAndWhole
  <2> QED
    BY <1>1, <2>1, <2>2 DEF PartsFit, Inside
<1>9. CountedOnce'
  <2>1. Visited' = Visited
    BY <1>1, NamesAssumption DEF Visited
  <2>2. \A i \in DOMAIN quotas : InHand(i)' = 0 /\ InHand(i) = 0
    <3>1. MaxUsage * Cardinality({}) = 0
      BY FS_EmptySet, Numbers
    <3> QED
      BY <1>1, <1>3, <3>1 DEF InHand
  <2> QED
    BY <1>1, <2>1, <2>2 DEF CountedOnce, Inside, PerNamespace
<1> QED
  BY <1>4, <1>5, <1>6, <1>7, <1>8, <1>9 DEF Inside

LEMMA CalculatedInv ==
    ASSUME Inside, Calculated PROVE Inside'
<1>1. /\ UNCHANGED <<quotas, apiTypes, nsLeft, ns, index, seen, nsUsed>>
      /\ pc = "calculate" /\ pc' = "patch" /\ ns = None /\ nsLeft = {}
  BY DEF Calculated, locals
<1>2. TypeOK'
  BY <1>1 DEF Calculated, Inside, TypeOK, cluster
<1>3. Placed' /\ KindsKept'
  BY <1>1 DEF Inside, Placed, KindsKept
<1>4. Kept'
  BY <1>1 DEF Inside, Kept, Begun, Key
<1>5. PartsFit'
  BY <1>1 DEF Inside, PartsFit, PartAndWhole, Ahead
<1>6. CountedOnce'
  BY <1>1 DEF Inside, CountedOnce, Visited, InHand, PerNamespace
<1> QED
  BY <1>2, <1>3, <1>4, <1>5, <1>6 DEF Inside

(* What the patch writes was counted to the end in every namespace. *)
LEMMA PatchStatusInv ==
    ASSUME Inside, PartOfWhole, PatchStatus PROVE Inside' /\ PartOfWhole'
<1>1. pc = "patch" /\ ns = None
  BY DEF PatchStatus, Inside, Placed
<1>2. PICK again \in BOOLEAN : Return(again)
  BY DEF PatchStatus
<1>3. pq' = pq \/ (pq # Absent /\ pq' = [pq EXCEPT !.status = quotas])
  BY DEF PatchStatus
<1>4. /\ pq \in {Absent} \cup [spec : Specs, status : Seq(QuotaStatus)]
      /\ quotas \in Seq(QuotaStatus)
  BY DEF Inside, TypeOK
<1>5. /\ pq' \in {Absent} \cup [spec : Specs, status : Seq(QuotaStatus)]
      /\ pq' = pq \/ pq'.status = quotas
  BY <1>3, <1>4
<1>6. /\ dirty' \in BOOLEAN /\ pc' = "idle" /\ quotas' = <<>> /\ apiTypes' = {}
      /\ nsLeft' = {} /\ ns' = None /\ index' = 0 /\ seen' = {} /\ DOMAIN nsUsed' = {}
  BY <1>2, ReturnTypes DEF Inside
<1>7. <<>> \in Seq(QuotaStatus) /\ 0 \in 0 .. Len(<<>>)
  OBVIOUS
<1>8. TypeOK'
  BY <1>5, <1>6, <1>7 DEF PatchStatus, Inside, TypeOK, cluster
<1>9. Inside'
  BY <1>2, <1>8, Idle
<1>10. \A i, j \in DOMAIN quotas :
         PartAndWhole(quotas, i, j) => quotas[i].used <= quotas[j].used
  <2> SUFFICES ASSUME NEW i \in DOMAIN quotas, NEW j \in DOMAIN quotas, PartAndWhole(quotas, i, j)
               PROVE  quotas[i].used <= quotas[j].used
    OBVIOUS
  <2>1. ~ Ahead(i, j)
    BY <1>1 DEF Ahead
  <2>2. quotas[j].used \in Nat
    <3>1. quotas[j] \in QuotaStatus
      BY <1>4
    <3> QED
      BY <3>1, Numbers DEF QuotaStatus
  <2>3. quotas[i].used <= quotas[j].used + 0
    BY <2>1 DEF Inside, PartsFit
  <2> QED
    BY <2>2, <2>3
<1>11. PartOfWhole'
  <2>1. CASE pq' = pq
    BY <2>1 DEF PartOfWhole, PartAndWhole
  <2>2. CASE pq'.status = quotas
    BY <1>10, <2>2 DEF PartOfWhole, PartAndWhole
  <2> QED
    BY <1>5, <2>1, <2>2
<1> QED
  BY <1>9, <1>11

LEMMA ErrorInv ==
    ASSUME Inside, Error PROVE Inside'
<1>0. failures' \in 0 .. MaxFailures
  BY BoundsAssumption DEF Error, Failure, Inside, TypeOK
<1>1. Return(TRUE)
  BY DEF Error
<1>2. /\ dirty' \in BOOLEAN /\ pc' = "idle" /\ quotas' = <<>> /\ apiTypes' = {}
      /\ nsLeft' = {} /\ ns' = None /\ index' = 0 /\ seen' = {} /\ DOMAIN nsUsed' = {}
  BY <1>1, ReturnTypes DEF Inside
<1>3. <<>> \in Seq(QuotaStatus) /\ 0 \in 0 .. Len(<<>>)
  OBVIOUS
<1>4. TypeOK'
  BY <1>0, <1>2, <1>3 DEF Error, Inside, TypeOK, cluster
<1> QED
  BY <1>1, <1>4, Idle

(* Users, other controllers and the cache. *)
LEMMA OutsideInv ==
    ASSUME Inside, PartOfWhole,
           \/ \E n \in Namespaces : Label(n)
           \/ \E n \in Namespaces, t \in Types, amount \in 0 .. MaxUsage : Use(n, t, amount)
           \/ \E spec \in Specs : Edit(spec)
           \/ Sync \/ Resync \/ BeginNotFound
    PROVE  Inside' /\ PartOfWhole'
<1>1. CASE \E n \in Namespaces : Label(n)
  <2>1. TypeOK' /\ UNCHANGED locals /\ UNCHANGED <<pq, pc>>
    BY <1>1, BoundsAssumption DEF Label, Change, Inside, TypeOK, locals
  <2>2. PartOfWhole'
    BY <2>1 DEF PartOfWhole, PartAndWhole
  <2> QED
    BY <2>1, <2>2, WorkerUntouched
<1>2. CASE \E n \in Namespaces, t \in Types, amount \in 0 .. MaxUsage : Use(n, t, amount)
  <2>1. PICK n \in Namespaces, t \in Types, amount \in 0 .. MaxUsage : Use(n, t, amount)
    BY <1>2
  <2>2. usage' \in [Namespaces -> [Types -> 0 .. MaxUsage]]
    BY <2>1 DEF Use, Inside, TypeOK
  <2>3. dirty' \in BOOLEAN
    BY <2>1, Zenon DEF Use, Inside, TypeOK
  <2>4. changes' \in 0 .. MaxChanges /\ failures' \in 0 .. MaxFailures
    BY <2>1, BoundsAssumption DEF Use, Change, Failure, Inside, TypeOK
  <2>5. TypeOK' /\ UNCHANGED locals /\ UNCHANGED <<pq, pc>>
    BY <2>1, <2>2, <2>3, <2>4 DEF Use, Inside, TypeOK, locals
  <2>6. PartOfWhole'
    BY <2>5 DEF PartOfWhole, PartAndWhole
  <2> QED
    BY <2>5, <2>6, WorkerUntouched
<1>3. CASE \E spec \in Specs : Edit(spec)
  <2>1. PICK spec \in Specs : Edit(spec)
    BY <1>3
  <2>2. pq \in {Absent} \cup [spec : Specs, status : Seq(QuotaStatus)]
    BY DEF Inside, TypeOK
  <2>3. /\ pq' \in {Absent} \cup [spec : Specs, status : Seq(QuotaStatus)]
        /\ DOMAIN pq'.status = {} \/ pq'.status = pq.status
    <3>1. CASE pq' = [spec |-> spec, status |-> <<>>]
      BY <3>1, Written
    <3>2. CASE pq' = Absent
      BY <3>2, Written
    <3>3. CASE pq # Absent /\ pq' = [pq EXCEPT !.spec = spec]
      BY <2>2, <3>3
    <3> QED
      BY <2>1, <3>1, <3>2, <3>3 DEF Edit
  <2>4. changes' \in 0 .. MaxChanges
    BY <2>1, BoundsAssumption DEF Edit, Change, Inside, TypeOK
  <2>5. TypeOK' /\ UNCHANGED locals /\ pc' = pc
    BY <2>1, <2>3, <2>4 DEF Edit, Inside, TypeOK, locals, cluster
  <2>6. PartOfWhole'
    BY <2>3 DEF PartOfWhole, PartAndWhole
  <2> QED
    BY <2>5, <2>6, WorkerUntouched
<1>4. CASE Sync \/ Resync \/ BeginNotFound
  <2>1. TypeOK' /\ UNCHANGED locals /\ UNCHANGED <<pq, pc>>
    BY <1>4 DEF Sync, Resync, BeginNotFound, Inside, TypeOK, locals, cluster
  <2>2. PartOfWhole'
    BY <2>1 DEF PartOfWhole, PartAndWhole
  <2> QED
    BY <2>1, <2>2, WorkerUntouched
<1> QED
  BY <1>1, <1>2, <1>3, <1>4

LEMMA StepInside == QuotaInv /\ [Next]_vars => QuotaInv'
<1> SUFFICES ASSUME Inside, PartOfWhole, [Next]_vars PROVE Inside' /\ PartOfWhole'
  BY DEF QuotaInv
<1>1. CASE UNCHANGED vars
  <2>1. UNCHANGED locals /\ UNCHANGED <<pq, pc>> /\ TypeOK'
    BY <1>1 DEF vars, locals, cluster, Inside, TypeOK
  <2>2. PartOfWhole'
    BY <2>1 DEF PartOfWhole, PartAndWhole
  <2> QED
    BY <2>1, <2>2, WorkerUntouched
<1>2. CASE Begin \/ (\E n \in Namespaces : NextNamespace(n)) \/ Calculate \/ Calculated \/ Error
  <2>1. pq' = pq
    BY <1>2 DEF Begin, NextNamespace, Calculate, Calculated, Error
  <2>2. PartOfWhole'
    BY <2>1 DEF PartOfWhole, PartAndWhole
  <2> QED
    BY <1>2, <2>2, BeginInv, NextNamespaceInv, CalculateInv, CalculatedInv, ErrorInv
<1>3. CASE PatchStatus
  BY <1>3, PatchStatusInv
<1>4. CASE \/ \E n \in Namespaces : Label(n)
           \/ \E n \in Namespaces, t \in Types, amount \in 0 .. MaxUsage : Use(n, t, amount)
           \/ \E spec \in Specs : Edit(spec)
           \/ Sync \/ Resync \/ BeginNotFound
  BY <1>4, OutsideInv
<1> QED
  BY <1>1, <1>2, <1>3, <1>4 DEF Next, WorkStep

LEMMA QuotaInvariant == Spec => []QuotaInv
BY InitInside, StepInside, PTL DEF Spec

(* The state of the controller keeps its types; of these the bound of the  *)
(* sums is the one that says something of CalculateStatus: a quota counts  *)
(* no object twice, whatever its spec lists.                               *)
THEOREM QuotaTypes == Spec => []TypeOK
<1>1. QuotaInv => TypeOK
  BY DEF QuotaInv, Inside
<1> QED
  BY <1>1, QuotaInvariant, PTL

(* Every status that CalculateStatus writes shows a kind with at most what *)
(* it shows for the group after it, for every spec, any changes between    *)
(* the Lists and any failures of the calls.                                *)
THEOREM KindsWithinGroups == Spec => []PartOfWhole
<1>1. QuotaInv => PartOfWhole
  BY DEF QuotaInv
<1> QED
  BY <1>1, QuotaInvariant, PTL
=============================================================================
