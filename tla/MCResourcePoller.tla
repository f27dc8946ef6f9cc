-------------------------- MODULE MCResourcePoller --------------------------
(* ResourcePoller for TLC: the constants are sets of strings in the cfg. *)
EXTENDS ResourcePoller
=============================================================================
