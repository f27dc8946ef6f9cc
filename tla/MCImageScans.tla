---------------------------- MODULE MCImageScans ----------------------------
(* Two images, the first with one CVE twice, the second with that CVE under *)
(* another severity, and two workers.                                      *)
EXTENDS ImageScans

CONSTANTS i1, i2, w1, w2

CVE(c, s) == [cve |-> c, severity |-> s]
MCVulns ==
    [i \in Images |->
        IF i = i1 THEN <<CVE("c1", "HIGH"), CVE("c2", "LOW"), CVE("c1", "HIGH")>>
        ELSE <<CVE("c1", "LOW")>>]
MCNamespacesOf == [i \in Images |-> IF i = i1 THEN {"n1", "n2"} ELSE {"n2"}]
=============================================================================
