--------------------------- MODULE MCProjectQuota ---------------------------
(* Two groups with a calculator for one of them, a cluster-scoped type, a  *)
(* type that is counted in a version that is not watched.                  *)
EXTENDS ProjectQuota

MCTypes == {"sts", "deploy", "role", "cm"}
MCGroupOf ==
    [t \in MCTypes |-> CASE t \in {"sts", "deploy"} -> "apps"
                         [] t = "role" -> "rbac"
                         [] OTHER -> "core"]

Q(group, kind) == [group |-> group, kind |-> kind]
MCSpecs ==
    {<<Q("apps", "sts"), Q("apps", AnyKind)>>,
     <<Q("apps", AnyKind), Q("apps", "deploy")>>,
     <<Q("rbac", AnyKind), Q("core", "cm")>>,
     <<Q("core", AnyKind), Q("apps", "unserved")>>,
     <<Q("apps", "sts"), Q("apps", "sts"), Q("apps", AnyKind)>>}
MCInUse == {MCTypes, {"sts"}}
=============================================================================
