------------------------- MODULE MCGraphReconciler -------------------------
(* A Service and a StatefulSet that both refer to a Pod. *)
EXTENDS GraphReconciler

CONSTANTS svc, sts, pod, offshoot

MCLinkable == {<<svc, ExposedBy, pod>>, <<sts, offshoot, pod>>}

ASSUME OneWayInstance ==
    \A e \in MCLinkable : <<e[3], e[2], e[1]>> \notin MCLinkable

MCGK == [x \in OIDs |-> CASE x = svc -> "Service"
                          [] x = sts -> "StatefulSet"
                          [] OTHER -> "Pod"]
=============================================================================
