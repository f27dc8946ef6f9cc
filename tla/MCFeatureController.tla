------------------------ MODULE MCFeatureController ------------------------
(* Either one Feature, recognised by its workloads or by a HelmRelease,    *)
(* which is installed and changes; or a server that starts again on what   *)
(* it left when three Features were settled: fb and fc are rivals in one   *)
(* FeatureSet and both require fa of another.  The situations may have     *)
(* changed meanwhile, and in one case the FeatureSets were reinstalled.    *)
EXTENDS ClusterClaim

CONSTANTS fa, fb, fc, s1, s2

Sit(workloads, release) ==
    [resources |-> "unchecked", workloads |-> workloads, release |-> release]

SplitSetOf == [f \in Features |-> IF f = fa THEN s1 ELSE s2]
RivalGroup == [f \in Features |-> IF f = fa THEN "" ELSE "exclusive"]
NoGroup    == [f \in Features |-> ""]
RequireA   == [f \in Features |-> IF f = fa THEN {} ELSE {fa}]
NoRequires == [f \in Features |-> {}]

Releases  == {Sit({}, "none"), Sit({}, "ready")}
Missing   == {Sit({"missing"}, "none"), Sit({"missing"}, "ready")}
Workloads == Missing \cup {Sit({"ready"}, "none")}
LifeSituations  == [f \in Features |-> Workloads]
RivalSituations == [f \in Features |-> CASE f = fa -> {Sit({}, "ready")}
                                         [] f = fb -> Releases
                                         [] f = fc -> Missing]

Installed == {[feat |-> [f \in Features |-> NewFeature], fset |-> [s \in Sets |-> NewSet]]}

JudgedIn(sit, dep) == Judged(CHOOSE e \in Evaluations(sit, dep) : TRUE, sit.release)

(* Where the controller has come to rest with these situations. *)
Settled(past) ==
    LET first == [f \in Features |-> [NewFeature EXCEPT !.status =
                                        JudgedIn(past[f], "unchecked")]]
        status == [f \in Features |-> JudgedIn(past[f], Dependency(f, first))]
        enabled == {f \in Features : status[f].enabled = "true"}
        rivals(f) == {g \in enabled \ {f} : Group[g] = Group[f] /\ SetOf[g] = SetOf[f]}
        members(s) == {f \in Features : SetOf[f] = s}
        entries(s) == {status[f] : f \in members(s)}
        dependents(s) == {f \in enabled \ members(s) :
                            /\ status[f].managed = "true"
                            /\ Requires[f] \cap enabled \cap members(s) # {}}
    IN  [feat |-> [f \in Features |->
            [NewFeature EXCEPT !.finalizer = TRUE, !.status = status[f],
                !.disabled = Group[f] # "" /\ f \notin enabled /\ rivals(f) # {}]],
         fset |-> [s \in Sets |-> [exists |-> TRUE, status |->
            [features |-> [f \in members(s) |-> status[f]],
             enabled |-> SetEnabled(entries(s)), ready |-> SetReady(entries(s)),
             dependents |-> dependents(s)]]]]

Pasts == {g \in [Features -> UNION {Situations[f] : f \in Features}] :
            \A f \in Features : g[f] \in Situations[f]}

(* The FeatureSets were deleted, and the one of the rivals created again. *)
Reinstalled(start) == [start EXCEPT !.fset = [s \in Sets |-> IF s = s1 THEN NoSet ELSE NewSet]]

Restarted ==
    LET starts == {Settled(past) : past \in Pasts}
    IN  starts \cup {Reinstalled(CHOOSE start \in starts : TRUE)}
=============================================================================
