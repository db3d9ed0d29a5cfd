-------------------------- MODULE MCRuntimeHandoff --------------------------
(* Instances of RuntimeHandoff. *)
EXTENDS RuntimeHandoff, TLC
CONSTANTS a, b, c

Symmetric == Permutations(Proxy)
=============================================================================
