--------------------------- MODULE MCObjectGraph ---------------------------
(* Instances of ObjectGraph for TLC. *)
EXTENDS ObjectGraph

CONSTANTS a, b, c, offshoot

(* Every object may declare every link, mutual and self-links included. *)
AnyLinkable == OIDs \X Labels \X OIDs
=============================================================================
