----------------------- MODULE GraphReconcilerProofs -----------------------
(***************************************************************************)
(* Proofs about GraphReconciler for every set of objects, kinds and        *)
(* descriptors, and every number of changes and failures.                  *)
(***************************************************************************)
EXTENDS GraphReconciler, TLAPS

(* Whatever a reconcile carries from one of its steps to the next, x's     *)
(* descriptor lets x declare.                                              *)
Conforming ==
    \A x \in OIDs :
        /\ refs[x] \in Graph!Conns(x)
        /\ seen[x] \in Graph!Conns(x)
        /\ found[x] \in Graph!Conns(x)

(* The object read by a reconcile that is still listing exists, or its     *)
(* deletion is waiting in the queue.                                       *)
ListingIsQueued ==
    \A x \in OIDs \ exists : stage[x] = "list" => x \in dirty \cup delayed

IInv == TypeOK /\ Conforming /\ ListingIsQueued /\ DeletedIsPending

LEMMA NoConnsConform == ASSUME NEW x \in OIDs PROVE Graph!NoConns \in Graph!Conns(x)
  BY DEF Graph!NoConns, Graph!Conns

LEMMA GraphTypeStep ==
    ASSUME Graph!TypeOK, NEW x \in OIDs,
           Graph!Delete(x) \/ \E conns \in Graph!Conns(x) : Graph!Update(x, conns)
    PROVE  Graph!TypeOK'
<1>1. CASE Graph!Delete(x)
  BY <1>1 DEF Graph!TypeOK, Graph!Delete, Graph!NoConns
<1>2. CASE \E conns \in Graph!Conns(x) : Graph!Update(x, conns)
  BY <1>2 DEF Graph!TypeOK, Graph!Update, Graph!Conns, Graph!Linked, Graph!Unlinked
<1> QED
  BY <1>1, <1>2

(* The type invariant and Conforming together: Persist hands found[x] to   *)
(* Update.                                                                 *)
LEMMA TypeStep ==
    ASSUME TypeOK, Conforming, [Next]_vars
    PROVE  TypeOK' /\ Conforming'
<1> USE NoConnsConform
<1>n. Graph!NoConns \in [Labels -> SUBSET OIDs]
  BY DEF Graph!NoConns
<1>0. CASE UNCHANGED vars
  BY <1>0 DEF TypeOK, Conforming, vars, cluster, queues, work, Graph!TypeOK, Graph!Conns
<1>1. ASSUME NEW x \in OIDs, Write(x) PROVE TypeOK' /\ Conforming'
  <2>1. PICK conns \in Graph!Conns(x) : refs' = [refs EXCEPT ![x] = conns]
    BY <1>1 DEF Write
  <2>2. conns \in [Labels -> SUBSET OIDs]
    BY DEF Graph!Conns
  <2>3. TypeOK'
    BY <1>1, <2>1, <2>2, BoundAssumption DEF Write, TypeOK, work, Graph!TypeOK
  <2>4. Conforming'
    BY <1>1, <2>1 DEF Write, TypeOK, Conforming, work, Graph!Conns
  <2> QED
    BY <2>3, <2>4
<1>2. ASSUME NEW x \in OIDs, Remove(x) PROVE TypeOK' /\ Conforming'
  <2>1. TypeOK'
    BY <1>2, <1>n, BoundAssumption DEF Remove, TypeOK, work, Graph!TypeOK
  <2>2. Conforming'
    BY <1>2 DEF Remove, TypeOK, Conforming, work, Graph!Conns
  <2> QED
    BY <2>1, <2>2
<1>3. ASSUME NEW x \in OIDs, Resync(x) \/ Requeue(x) \/ Begin(x)
      PROVE  TypeOK' /\ Conforming'
  BY <1>3 DEF Resync, Requeue, Begin, TypeOK, Conforming, cluster, work, Graph!TypeOK
<1>4. ASSUME NEW x \in OIDs, GetFound(x) PROVE TypeOK' /\ Conforming'
  <2>1. CASE GK[x] \in Described
    <3>1. /\ stage' = [stage EXCEPT ![x] = "list"]
          /\ seen' = [seen EXCEPT ![x] = refs[x]]
          /\ todo' = [todo EXCEPT ![x] = ConnectionsOf(x)]
          /\ UNCHANGED <<found, failed, exists, refs, changes, Edges, IDs, dirty,
                         delayed, failures>>
      BY <1>4, <2>1 DEF GetFound, cluster, queues
    <3>2. TypeOK'
      BY <3>1 DEF TypeOK, ConnectionsOf, Graph!TypeOK
    <3>3. Conforming'
      BY <3>1 DEF TypeOK, Conforming
    <3> QED
      BY <3>2, <3>3
  <2>2. CASE GK[x] \notin Described
    <3>1. /\ Return(x)
          /\ UNCHANGED <<exists, refs, changes, Edges, IDs, dirty, delayed, failures>>
      BY <1>4, <2>2 DEF GetFound, cluster, queues
    <3> QED
      BY <3>1, <1>n DEF Return, TypeOK, Conforming, Graph!TypeOK
  <2> QED
    BY <2>1, <2>2
<1>5. ASSUME NEW x \in OIDs, GetNotFound(x) PROVE TypeOK' /\ Conforming'
  BY <1>5 DEF GetNotFound, TypeOK, Conforming, cluster, queues, Graph!TypeOK
<1>6. ASSUME NEW x \in OIDs, GetError(x) \/ KeepGraph(x) \/ AwaitBackends(x)
      PROVE  TypeOK' /\ Conforming'
  <2>1. /\ Return(x)
        /\ delayed' = delayed \cup {x}
        /\ UNCHANGED <<cluster, Edges, IDs, dirty>>
        /\ failures' \in 0 .. MaxFailures
    BY <1>6, BoundAssumption DEF GetError, KeepGraph, AwaitBackends, TypeOK
  <2> QED
    BY <2>1, <1>n DEF Return, TypeOK, Conforming, cluster, Graph!TypeOK
<1>7. ASSUME NEW x \in OIDs, Forget(x) PROVE TypeOK' /\ Conforming'
  <2>1. Graph!TypeOK'
    BY <1>7, GraphTypeStep DEF Forget, TypeOK
  <2> QED
    BY <1>7, <1>n, <2>1 DEF Forget, Return, TypeOK, Conforming, cluster, queues
<1>8. ASSUME NEW x \in OIDs, NEW lbl \in Labels, Resolve(x, lbl)
      PROVE  TypeOK' /\ Conforming'
  BY <1>8 DEF Resolve, TypeOK, Conforming, cluster, queues, Graph!TypeOK, Graph!Conns
<1>9. ASSUME NEW x \in OIDs, NEW lbl \in Labels, NEW err \in {"discovery", "other"},
             ResolveError(x, lbl, err)
      PROVE  TypeOK' /\ Conforming'
  BY <1>9, BoundAssumption DEF ResolveError, TypeOK, Conforming, cluster, queues,
         Graph!TypeOK
<1>10. ASSUME NEW x \in OIDs, Persist(x) PROVE TypeOK' /\ Conforming'
  <2>1. Graph!TypeOK'
    BY <1>10, GraphTypeStep DEF Persist, TypeOK, Conforming
  <2> QED
    BY <1>10, <1>n, <2>1 DEF Persist, Return, TypeOK, Conforming, cluster
<1> QED
  BY <1>0, <1>1, <1>2, <1>3, <1>4, <1>5, <1>6, <1>7, <1>8, <1>9, <1>10
     DEF Next, WorkStep, Fault

(* What a step leaves of the links that other objects own. *)
LEMMA OwnedElsewhere ==
    ASSUME Graph!TypeOK, NEW x \in OIDs, NEW y \in OIDs, y # x,
           Graph!Delete(x) \/ \E conns \in Graph!Conns(x) : Graph!Update(x, conns)
    PROVE  OwnedBy(y)' \subseteq OwnedBy(y) /\ IDs'[y] = IDs[y]
<1> USE DEF Graph!Absent, Graph!Owned, Graph!Mirror
<1>1. CASE Graph!Delete(x)
  BY <1>1 DEF Graph!TypeOK, Graph!Delete, OwnedBy, Graph!OwnedLinks
<1>2. ASSUME NEW conns \in Graph!Conns(x), Graph!Update(x, conns)
      PROVE  OwnedBy(y)' \subseteq OwnedBy(y) /\ IDs'[y] = IDs[y]
  <2>1. ASSUME NEW lbl \in Labels, NEW z \in OIDs, Edges'[y][lbl][z] = Graph!Owned
        PROVE  Edges[y][lbl][z] = Graph!Owned
    BY <1>2, <2>1 DEF Graph!TypeOK, Graph!Update, Graph!Linked, Graph!Unlinked
  <2>2. IDs'[y] = IDs[y]
    BY <1>2 DEF Graph!TypeOK, Graph!Update
  <2> QED
    BY <2>1, <2>2 DEF OwnedBy, Graph!OwnedLinks
<1> QED
  BY <1>1, <1>2

LEMMA DeleteClears ==
    ASSUME Graph!TypeOK, NEW x \in OIDs, Graph!Delete(x)
    PROVE  OwnedBy(x)' = {} /\ IDs'[x] = Graph!NoConns
  BY DEF Graph!TypeOK, Graph!Delete, OwnedBy, Graph!OwnedLinks, Graph!Absent, Graph!Owned

(* A step of x that leaves the graph alone keeps DeletedIsPending if x is  *)
(* still pending afterwards, or exists.                                    *)
LEMMA PendingKept ==
    ASSUME DeletedIsPending, UNCHANGED <<Edges, IDs>>, NEW x \in OIDs,
           x \in exists' \/ Pending(x)',
           \A y \in OIDs \ {x} : (y \in exists' <=> y \in exists) /\ (Pending(y) => Pending(y)')
    PROVE  DeletedIsPending'
  BY DEF DeletedIsPending, OwnedBy, Graph!OwnedLinks, Graph!NoConns

LEMMA PendingStep ==
    ASSUME TypeOK, Conforming, ListingIsQueued, DeletedIsPending, [Next]_vars
    PROVE  ListingIsQueued' /\ DeletedIsPending'
<1>0. CASE UNCHANGED vars
  BY <1>0 DEF ListingIsQueued, DeletedIsPending, Pending, OwnedBy, Graph!OwnedLinks,
              Graph!NoConns, vars, cluster, queues, work
<1>1. ASSUME NEW x \in OIDs,
             Write(x) \/ Remove(x) \/ Resync(x) \/ Requeue(x) \/ Begin(x) \/ GetNotFound(x)
      PROVE  ListingIsQueued' /\ DeletedIsPending'
  <2>1. ListingIsQueued'
    BY <1>1 DEF ListingIsQueued, TypeOK, Write, Remove, Resync, Requeue, Begin,
                GetNotFound, cluster, queues, work
  <2>2. /\ UNCHANGED <<Edges, IDs>>
        /\ Pending(x)'
        /\ \A y \in OIDs \ {x} :
             (y \in exists' <=> y \in exists) /\ (Pending(y) => Pending(y)')
    BY <1>1 DEF Pending, TypeOK, Write, Remove, Resync, Requeue, Begin, GetNotFound,
                cluster, queues, work
  <2> QED
    BY <2>1, <2>2, PendingKept
<1>2. ASSUME NEW x \in OIDs, GetFound(x) PROVE ListingIsQueued' /\ DeletedIsPending'
  <2>1. /\ UNCHANGED <<Edges, IDs, exists, dirty, delayed>>
        /\ x \in exists
        /\ \A y \in OIDs \ {x} : stage'[y] = stage[y]
    BY <1>2 DEF GetFound, Return, TypeOK, cluster, queues
  <2>2. ListingIsQueued'
    BY <2>1 DEF ListingIsQueued
  <2>3. DeletedIsPending'
    BY <2>1, PendingKept DEF Pending
  <2> QED
    BY <2>2, <2>3
<1>3. ASSUME NEW x \in OIDs, GetError(x) \/ KeepGraph(x) \/ AwaitBackends(x)
      PROVE  ListingIsQueued' /\ DeletedIsPending'
  <2>1. /\ UNCHANGED <<Edges, IDs, exists, dirty>>
        /\ delayed' = delayed \cup {x}
        /\ \A y \in OIDs \ {x} : stage'[y] = stage[y]
    BY <1>3 DEF GetError, KeepGraph, AwaitBackends, Return, TypeOK, cluster
  <2>2. ListingIsQueued'
    BY <2>1 DEF ListingIsQueued
  <2>3. DeletedIsPending'
    BY <2>1, PendingKept DEF Pending
  <2> QED
    BY <2>2, <2>3
<1>4. ASSUME NEW x \in OIDs, NEW lbl \in Labels,
             Resolve(x, lbl) \/ \E err \in {"discovery", "other"} : ResolveError(x, lbl, err)
      PROVE  ListingIsQueued' /\ DeletedIsPending'
  <2>1. UNCHANGED <<Edges, IDs, exists, dirty, delayed, stage>>
    BY <1>4 DEF Resolve, ResolveError, cluster, queues
  <2> QED
    BY <2>1 DEF ListingIsQueued, DeletedIsPending, Pending, OwnedBy, Graph!OwnedLinks,
                Graph!NoConns
<1>5. ASSUME NEW x \in OIDs, Forget(x) PROVE ListingIsQueued' /\ DeletedIsPending'
  <2>1. /\ Graph!Delete(x)
        /\ UNCHANGED <<exists, dirty, delayed>>
        /\ stage'[x] = "idle"
        /\ \A y \in OIDs \ {x} : stage'[y] = stage[y]
    BY <1>5 DEF Forget, Return, TypeOK, cluster, queues
  <2>2. ListingIsQueued'
    BY <2>1 DEF ListingIsQueued
  <2>3. ASSUME NEW y \in OIDs \ exists', IDs'[y] # Graph!NoConns \/ OwnedBy(y)' # {}
        PROVE  Pending(y)'
    <3>1. y # x
      BY <2>1, <2>3, DeleteClears DEF TypeOK
    <3>2. IDs[y] # Graph!NoConns \/ OwnedBy(y) # {}
      BY <2>1, <2>3, <3>1, OwnedElsewhere DEF TypeOK
    <3> QED
      BY <2>1, <3>1, <3>2 DEF DeletedIsPending, Pending
  <2>4. DeletedIsPending'
    BY <2>3 DEF DeletedIsPending, Graph!NoConns
  <2> QED
    BY <2>2, <2>4
<1>6. ASSUME NEW x \in OIDs, Persist(x) PROVE ListingIsQueued' /\ DeletedIsPending'
  <2>1. /\ Graph!Update(x, found[x])
        /\ UNCHANGED <<exists, dirty>>
        /\ delayed \subseteq delayed'
        /\ stage[x] = "list"
        /\ stage'[x] = "idle"
        /\ \A y \in OIDs \ {x} : stage'[y] = stage[y]
    BY <1>6 DEF Persist, Listed, Return, TypeOK, cluster
  <2>2. ListingIsQueued'
    BY <2>1 DEF ListingIsQueued
  <2>3. ASSUME NEW y \in OIDs \ exists', IDs'[y] # Graph!NoConns \/ OwnedBy(y)' # {}
        PROVE  Pending(y)'
    <3>1. CASE y = x
      BY <2>1, <3>1 DEF ListingIsQueued, Pending
    <3>2. CASE y # x
      <4>1. IDs[y] # Graph!NoConns \/ OwnedBy(y) # {}
        BY <2>1, <2>3, <3>2, OwnedElsewhere DEF TypeOK, Conforming
      <4> QED
        BY <2>1, <3>2, <4>1 DEF DeletedIsPending, Pending
    <3> QED
      BY <3>1, <3>2
  <2>4. DeletedIsPending'
    BY <2>3 DEF DeletedIsPending, Graph!NoConns
  <2> QED
    BY <2>2, <2>4
<1> QED
  BY <1>0, <1>1, <1>2, <1>3, <1>4, <1>5, <1>6 DEF Next, WorkStep, Fault

LEMMA Invariant == Spec => []IInv
<1>1. Init => IInv
  <2> SUFFICES ASSUME Init PROVE IInv
    OBVIOUS
  <2>1. Graph!TypeOK /\ \A x \in OIDs : OwnedBy(x) = {} /\ IDs[x] = Graph!NoConns
    BY DEF Init, Graph!Init, Graph!TypeOK, Graph!NoConns, OwnedBy, Graph!OwnedLinks,
           Graph!Absent, Graph!Owned
  <2>2. TypeOK
    BY <2>1, BoundAssumption DEF Init, TypeOK, Graph!NoConns
  <2>3. Conforming
    BY NoConnsConform DEF Init, Conforming
  <2>4. ListingIsQueued /\ DeletedIsPending
    BY <2>1 DEF Init, ListingIsQueued, DeletedIsPending
  <2> QED
    BY <2>2, <2>3, <2>4 DEF IInv
<1>2. IInv /\ [Next]_vars => IInv'
  BY TypeStep, PendingStep DEF IInv
<1> QED
  BY <1>1, <1>2, PTL DEF Spec

(* Every value a worker carries between its steps, and the graph, stay of  *)
(* their types.                                                            *)
THEOREM TypeCorrect == Spec => []TypeOK
<1>1. IInv => TypeOK
  BY DEF IInv
<1> QED
  BY <1>1, Invariant, PTL

(* An object that was deleted while the workers were busy with it is never *)
(* left in the graph with nothing queued that would remove it.             *)
THEOREM DeletedIsPendingTheorem == Spec => []DeletedIsPending
<1>1. IInv => DeletedIsPending
  BY DEF IInv
<1> QED
  BY <1>1, Invariant, PTL

(* Through every interleaving of the workers, the reconcilers change the   *)
(* graph by calls of Update and Delete with conforming declarations only,  *)
(* so that the theorems of ObjectGraphProofs hold of it.                   *)
THEOREM UsesObjectGraphTheorem == Spec => UsesObjectGraph
<1>1. Init => Graph!Init
  BY DEF Init
<1>2. IInv /\ [Next]_vars => [Graph!Next]_(Graph!vars)
  <2> SUFFICES ASSUME IInv, [Next]_vars PROVE [Graph!Next]_(Graph!vars)
    OBVIOUS
  <2>1. ASSUME NEW x \in OIDs, Forget(x) PROVE Graph!Next
    BY <2>1 DEF Forget, Graph!Next
  <2>2. ASSUME NEW x \in OIDs, Persist(x) PROVE Graph!Next
    BY <2>2 DEF Persist, Graph!Next, IInv, Conforming
  <2>3. CASE UNCHANGED <<Edges, IDs>>
    BY <2>3 DEF Graph!vars
  <2>4. ASSUME NEW x \in OIDs,
               \/ Write(x) \/ Remove(x) \/ Resync(x) \/ Requeue(x) \/ Begin(x)
               \/ GetFound(x) \/ GetNotFound(x) \/ KeepGraph(x) \/ AwaitBackends(x)
               \/ \E lbl \in Labels : Resolve(x, lbl)
               \/ Fault(x)
        PROVE  UNCHANGED <<Edges, IDs>>
    BY <2>4 DEF Write, Remove, Resync, Requeue, Begin, GetFound, GetNotFound, KeepGraph,
                AwaitBackends, Resolve, Fault, GetError, ResolveError
  <2> QED
    BY <2>1, <2>2, <2>3, <2>4 DEF Next, WorkStep, vars
<1> QED
  BY <1>1, <1>2, Invariant, PTL DEF Spec, UsesObjectGraph, Graph!Spec

-----------------------------------------------------------------------------
(* What makes the update of an object that was read too early harmless.    *)
FoundIsSeen ==
    \A x \in OIDs :
        /\ stage[x] # "list" => found[x] = Graph!NoConns
        /\ \A lbl \in Labels : found[x][lbl] \subseteq seen[x][lbl]

(* A reconcile lists the current content, or its key is queued again.      *)
ListingIsCurrent ==
    \A x \in OIDs :
        (stage[x] = "list" /\ x \notin dirty \cup delayed) => seen[x] = refs[x]

DeclaredLinkable == \A x \in OIDs : IDs[x] \in Graph!Conns(x)

CurrentInv == FoundIsSeen /\ ListingIsCurrent /\ DeclaredLinkable /\ SettledIsCurrent

(* A step of x that leaves the graph alone, and the content of the others. *)
LEMMA SettledKept ==
    ASSUME SettledIsCurrent, UNCHANGED IDs, NEW x \in OIDs,
           \A lbl \in Labels : Pending(x)' \/ IDs[x][lbl] \subseteq refs'[x][lbl],
           exists' \subseteq OIDs,
           \A y \in OIDs \ {x} :
             /\ y \in exists' <=> y \in exists
             /\ refs'[y] = refs[y]
             /\ Pending(y) => Pending(y)'
    PROVE  SettledIsCurrent'
  BY DEF SettledIsCurrent

LEMMA NoConnsEmpty == \A lbl \in Labels : Graph!NoConns[lbl] = {}
  BY DEF Graph!NoConns

LEMMA CurrentStep ==
    ASSUME IInv, CurrentInv, [Next]_vars
    PROVE  CurrentInv'
<1> USE DEF IInv, CurrentInv
<1>t. TypeOK /\ TypeOK' /\ Conforming'
  BY TypeStep
<1> USE NoConnsEmpty
<1>0. CASE UNCHANGED vars
  BY <1>0 DEF FoundIsSeen, ListingIsCurrent, DeclaredLinkable, SettledIsCurrent, Pending,
              vars, cluster, queues, work
<1>1. ASSUME NEW x \in OIDs, Write(x) \/ Remove(x) PROVE CurrentInv'
  <2>1. /\ UNCHANGED <<Edges, IDs, delayed, stage, seen, found>>
        /\ dirty' = dirty \cup {x}
        /\ \A y \in OIDs \ {x} : refs'[y] = refs[y] /\ (y \in exists' <=> y \in exists)
    BY <1>1 DEF Write, Remove, TypeOK, work
  <2>2. FoundIsSeen' /\ ListingIsCurrent' /\ DeclaredLinkable'
    BY <2>1 DEF FoundIsSeen, ListingIsCurrent, DeclaredLinkable
  <2>3. SettledIsCurrent'
    BY <1>t, <2>1, SettledKept DEF Pending, TypeOK
  <2> QED
    BY <2>2, <2>3
<1>2. ASSUME NEW x \in OIDs, Resync(x) \/ Requeue(x) \/ Begin(x) \/ GetNotFound(x)
      PROVE  CurrentInv'
  <2>1. /\ UNCHANGED <<Edges, IDs, exists, refs, seen, found>>
        /\ Pending(x)'
        /\ \A y \in OIDs \ {x} : stage'[y] = stage[y] /\ (Pending(y) => Pending(y)')
        /\ \A y \in OIDs \ {x} : y \in dirty \cup delayed <=> y \in dirty' \cup delayed'
        /\ \/ stage'[x] \in {"get", "gone"} /\ stage[x] # "list"
           \/ stage'[x] = stage[x] /\ x \in dirty' \cup delayed'
    BY <1>2 DEF Resync, Requeue, Begin, GetNotFound, Pending, TypeOK, cluster, queues, work
  <2>2. FoundIsSeen' /\ ListingIsCurrent' /\ DeclaredLinkable'
    BY <2>1 DEF FoundIsSeen, ListingIsCurrent, DeclaredLinkable
  <2>3. SettledIsCurrent'
    BY <1>t, <2>1, SettledKept DEF TypeOK
  <2> QED
    BY <2>2, <2>3
<1>3. ASSUME NEW x \in OIDs, GetFound(x) PROVE CurrentInv'
  <2>1. /\ UNCHANGED <<Edges, IDs, exists, refs, dirty, delayed>>
        /\ stage[x] = "get"
        /\ \A y \in OIDs \ {x} :
             stage'[y] = stage[y] /\ seen'[y] = seen[y] /\ found'[y] = found[y]
    BY <1>3 DEF GetFound, Return, TypeOK, cluster, queues
  <2>2. CASE GK[x] \in Described
    <3>1. stage'[x] = "list" /\ seen'[x] = refs[x] /\ found'[x] = Graph!NoConns
      BY <1>3, <2>1, <2>2 DEF GetFound, TypeOK, FoundIsSeen
    <3>2. FoundIsSeen' /\ ListingIsCurrent' /\ DeclaredLinkable'
      BY <2>1, <3>1 DEF FoundIsSeen, ListingIsCurrent, DeclaredLinkable
    <3>3. SettledIsCurrent'
      BY <1>t, <2>1, <3>1, SettledKept DEF Pending, TypeOK
    <3> QED
      BY <3>2, <3>3
  <2>3. CASE GK[x] \notin Described
    <3>1. stage'[x] = "idle" /\ found'[x] = Graph!NoConns /\ seen'[x] = Graph!NoConns
      BY <1>3, <2>3 DEF GetFound, Return, TypeOK
    <3>2. FoundIsSeen' /\ ListingIsCurrent' /\ DeclaredLinkable'
      BY <2>1, <3>1 DEF FoundIsSeen, ListingIsCurrent, DeclaredLinkable
    <3>3. ASSUME NEW lbl \in Labels, NEW to \in IDs[x][lbl] PROVE FALSE
      <4>1. <<x, lbl, to>> \in Linkable
        BY <3>3 DEF DeclaredLinkable, Graph!Conns
      <4> QED
        BY <4>1, <2>3, DescribedAssumption
    <3>4. SettledIsCurrent'
      BY <1>t, <2>1, <3>3, SettledKept DEF Pending, TypeOK
    <3> QED
      BY <3>2, <3>4
  <2> QED
    BY <2>2, <2>3
<1>4. ASSUME NEW x \in OIDs, GetError(x) \/ KeepGraph(x) \/ AwaitBackends(x)
      PROVE  CurrentInv'
  <2>1. /\ UNCHANGED <<Edges, IDs, exists, refs, dirty>>
        /\ delayed' = delayed \cup {x}
        /\ stage'[x] = "idle" /\ found'[x] = Graph!NoConns /\ seen'[x] = Graph!NoConns
        /\ \A y \in OIDs \ {x} :
             stage'[y] = stage[y] /\ seen'[y] = seen[y] /\ found'[y] = found[y]
    BY <1>4 DEF GetError, KeepGraph, AwaitBackends, Return, TypeOK, cluster
  <2>2. FoundIsSeen' /\ ListingIsCurrent' /\ DeclaredLinkable'
    BY <2>1 DEF FoundIsSeen, ListingIsCurrent, DeclaredLinkable
  <2>3. SettledIsCurrent'
    BY <1>t, <2>1, SettledKept DEF Pending, TypeOK
  <2> QED
    BY <2>2, <2>3
<1>5. ASSUME NEW x \in OIDs, NEW lbl \in Labels,
             Resolve(x, lbl) \/ \E err \in {"discovery", "other"} : ResolveError(x, lbl, err)
      PROVE  CurrentInv'
  <2>1. /\ UNCHANGED <<Edges, IDs, exists, refs, dirty, delayed, stage, seen>>
        /\ stage[x] = "list"
        /\ \A y \in OIDs \ {x} : found'[y] = found[y]
        /\ \A l \in Labels : \/ found'[x][l] = found[x][l]
                             \/ found'[x][l] = seen[x][l] \cap exists
    BY <1>5 DEF Resolve, ResolveError, TypeOK, cluster, queues
  <2>2. FoundIsSeen'
    BY <2>1 DEF FoundIsSeen
  <2>3. ListingIsCurrent' /\ DeclaredLinkable' /\ SettledIsCurrent'
    BY <2>1 DEF ListingIsCurrent, DeclaredLinkable, SettledIsCurrent, Pending
  <2> QED
    BY <2>2, <2>3
<1>6. ASSUME NEW x \in OIDs, Forget(x) PROVE CurrentInv'
  <2>1. /\ Graph!Delete(x)
        /\ UNCHANGED <<exists, refs, dirty, delayed>>
        /\ stage'[x] = "idle" /\ found'[x] = Graph!NoConns /\ seen'[x] = Graph!NoConns
        /\ \A y \in OIDs \ {x} :
             stage'[y] = stage[y] /\ seen'[y] = seen[y] /\ found'[y] = found[y]
    BY <1>6 DEF Forget, Return, TypeOK, cluster, queues
  <2>2. IDs' = [IDs EXCEPT ![x] = Graph!NoConns]
    BY <2>1 DEF Graph!Delete
  <2>3. FoundIsSeen' /\ ListingIsCurrent'
    BY <2>1 DEF FoundIsSeen, ListingIsCurrent
  <2>4. DeclaredLinkable'
    BY <2>2, NoConnsConform DEF DeclaredLinkable, TypeOK, Graph!TypeOK
  <2>5. SettledIsCurrent'
    <3>1. \A lbl \in Labels : IDs'[x][lbl] = {}
      BY <2>2 DEF TypeOK, Graph!TypeOK, Graph!NoConns
    <3>2. \A y \in OIDs \ {x} : IDs'[y] = IDs[y]
      BY <2>2 DEF TypeOK, Graph!TypeOK
    <3> QED
      BY <2>1, <3>1, <3>2 DEF SettledIsCurrent, Pending, TypeOK
  <2> QED
    BY <2>3, <2>4, <2>5
<1>7. ASSUME NEW x \in OIDs, Persist(x) PROVE CurrentInv'
  <2>1. /\ UNCHANGED <<exists, refs, dirty>>
        /\ delayed \subseteq delayed' /\ delayed' \subseteq delayed \cup {x}
        /\ stage[x] = "list"
        /\ stage'[x] = "idle" /\ found'[x] = Graph!NoConns /\ seen'[x] = Graph!NoConns
        /\ \A y \in OIDs \ {x} :
             stage'[y] = stage[y] /\ seen'[y] = seen[y] /\ found'[y] = found[y]
    BY <1>7 DEF Persist, Listed, Return, TypeOK, cluster
  <2>2. IDs' = [IDs EXCEPT ![x] = found[x]]
    BY <1>7 DEF Persist, Graph!Update
  <2>3. FoundIsSeen' /\ ListingIsCurrent'
    BY <2>1 DEF FoundIsSeen, ListingIsCurrent
  <2>4. DeclaredLinkable'
    BY <2>2 DEF DeclaredLinkable, TypeOK, Graph!TypeOK, Conforming
  <2>5. SettledIsCurrent'
    <3>1. x \notin dirty \cup delayed =>
            \A lbl \in Labels : IDs'[x][lbl] \subseteq refs[x][lbl]
      BY <2>1, <2>2 DEF TypeOK, Graph!TypeOK, FoundIsSeen, ListingIsCurrent
    <3>2. \A y \in OIDs \ {x} : IDs'[y] = IDs[y]
      BY <2>2 DEF TypeOK, Graph!TypeOK
    <3>3. SUFFICES ASSUME NEW y \in exists', ~ Pending(y)', GK[y] # ServiceKind,
                          NEW lbl \in Labels
                   PROVE  IDs'[y][lbl] \subseteq refs'[y][lbl]
      BY DEF SettledIsCurrent
    <3>4. CASE y = x
      BY <2>1, <3>1, <3>3, <3>4 DEF Pending
    <3>5. CASE y # x
      <4>1. y \in OIDs \ {x} /\ y \in exists /\ ~ Pending(y)
        BY <1>t, <2>1, <3>3, <3>5 DEF Pending, TypeOK
      <4> QED
        BY <2>1, <3>2, <3>3, <4>1 DEF SettledIsCurrent
    <3> QED
      BY <3>4, <3>5
  <2> QED
    BY <2>3, <2>4, <2>5
<1> QED
  BY <1>0, <1>1, <1>2, <1>3, <1>4, <1>5, <1>6, <1>7 DEF Next, WorkStep, Fault

(* No change of an object is lost to a reconcile that read it before: once *)
(* its key is settled, the graph holds nothing it does not refer to.       *)
THEOREM SettledIsCurrentTheorem == Spec => []SettledIsCurrent
<1>1. Init => CurrentInv
  BY NoConnsConform DEF Init, CurrentInv, FoundIsSeen, ListingIsCurrent, DeclaredLinkable,
         SettledIsCurrent, Graph!Init
<1>2. CurrentInv => SettledIsCurrent
  BY DEF CurrentInv
<1> QED
  BY <1>1, <1>2, CurrentStep, Invariant, PTL DEF Spec

-----------------------------------------------------------------------------
(* The graph the workers share, with the results of ObjectGraphProofs: the *)
(* two instances of ObjectGraph are the same specification.                *)
GraphProofs == INSTANCE ObjectGraphProofs

LEMMA SameSpec == Graph!Spec => GraphProofs!Spec
<1>1. Graph!Init => GraphProofs!Init
  BY DEF Graph!Init, GraphProofs!Init, Graph!NoConns, GraphProofs!NoConns,
         Graph!Absent, GraphProofs!Absent
<1>2. [Graph!Next]_(Graph!vars) => [GraphProofs!Next]_(GraphProofs!vars)
  BY DEF Graph!Next, GraphProofs!Next, Graph!vars, GraphProofs!vars,
         Graph!Update, GraphProofs!Update, Graph!Delete, GraphProofs!Delete,
         Graph!Conns, GraphProofs!Conns, Graph!Linked, GraphProofs!Linked,
         Graph!Unlinked, GraphProofs!Unlinked, Graph!NoConns, GraphProofs!NoConns,
         Graph!Absent, GraphProofs!Absent, Graph!Owned, GraphProofs!Owned,
         Graph!Mirror, GraphProofs!Mirror
<1> QED
  BY <1>1, <1>2, PTL DEF Graph!Spec, GraphProofs!Spec

LEMMA SameTable == GraphProofs!ImplementsLinkTable => Graph!ImplementsLinkTable
<1>1. GraphProofs!OwnedLinks = Graph!OwnedLinks
  BY DEF GraphProofs!OwnedLinks, Graph!OwnedLinks, GraphProofs!Owned, Graph!Owned
<1>2. GraphProofs!OwnedLinks' = Graph!OwnedLinks'
  BY DEF GraphProofs!OwnedLinks, Graph!OwnedLinks, GraphProofs!Owned, Graph!Owned
<1>3. GraphProofs!Table!Init => Graph!Table!Init
  BY <1>1 DEF GraphProofs!Table!Init, Graph!Table!Init,
              GraphProofs!Table!NoConns, Graph!Table!NoConns
<1>4. [GraphProofs!Table!Next]_<<GraphProofs!OwnedLinks, IDs>>
        => [Graph!Table!Next]_<<Graph!OwnedLinks, IDs>>
  BY <1>1, <1>2
     DEF GraphProofs!Table!Next, Graph!Table!Next,
         GraphProofs!Table!Declare, Graph!Table!Declare,
         GraphProofs!Table!Forget, Graph!Table!Forget,
         GraphProofs!Table!From, Graph!Table!From,
         GraphProofs!Table!At, Graph!Table!At,
         GraphProofs!Table!LinksOf, Graph!Table!LinksOf,
         GraphProofs!Table!NoConns, Graph!Table!NoConns
<1> QED
  BY <1>3, <1>4, PTL
     DEF GraphProofs!ImplementsLinkTable, Graph!ImplementsLinkTable,
         GraphProofs!Table!Spec, Graph!Table!Spec

(* With descriptors that never relate two objects both ways, a reader of   *)
(* the graph sees a plain set of links, each as its object last declared   *)
(* it, through every interleaving of the per-kind workers of               *)
(* reconciler.go, their failing lists and their retries.                   *)
THEOREM ReconcilersImplementLinkTable ==
    ASSUME Graph!OneWayDescriptors
    PROVE  Spec => ImplementsLinkTable
<1>1. GraphProofs!OneWayDescriptors
  BY DEF Graph!OneWayDescriptors, GraphProofs!OneWayDescriptors
<1>2. GraphProofs!Spec => GraphProofs!ImplementsLinkTable
  BY <1>1, LinksAssumption, GraphProofs!RefinesLinkTable
<1> QED
  BY <1>2, SameSpec, SameTable, UsesObjectGraphTheorem, PTL
     DEF UsesObjectGraph, ImplementsLinkTable
=============================================================================
