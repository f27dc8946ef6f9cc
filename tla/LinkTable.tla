----------------------------- MODULE LinkTable -----------------------------
(***************************************************************************)
(* What the object graph promises its readers: a set of links, each from   *)
(* the object that declared it.  A declaration replaces the links of the   *)
(* object's previous one and no other; deleting an object removes every    *)
(* link at it, whoever declared it.                                        *)
(***************************************************************************)
CONSTANTS OIDs, Labels, Linkable

VARIABLES
    links,     \* set of <<src, lbl, to>>
    declared   \* declared[src][lbl]: the targets of src's last declaration

NoConns == [lbl \in Labels |-> {}]

LinksOf(src, conns) == {e \in Linkable : e[1] = src /\ e[3] \in conns[e[2]]}

From(src) == {e \in links : e[1] = src}
At(src)   == {e \in links : e[1] = src \/ e[3] = src}

Init ==
    /\ links = {}
    /\ declared = [src \in OIDs |-> NoConns]

Declare(src, conns) ==
    /\ \A lbl \in Labels : \A to \in conns[lbl] : <<src, lbl, to>> \in Linkable
    /\ links' = (links \ From(src)) \cup LinksOf(src, conns)
    /\ declared' = [declared EXCEPT ![src] = conns]

Forget(src) ==
    /\ links' = links \ At(src)
    /\ declared' = [declared EXCEPT ![src] = NoConns]

Next ==
    \E src \in OIDs :
        \/ \E conns \in [Labels -> SUBSET OIDs] : Declare(src, conns)
        \/ Forget(src)

Spec == Init /\ [][Next]_<<links, declared>>
=============================================================================
