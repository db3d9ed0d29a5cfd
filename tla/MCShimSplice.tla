----------------------------- MODULE MCShimSplice -----------------------------
(* Instances of ShimSplice. *)
EXTENDS ShimSplice, TLC
CONSTANTS c1, c2
=============================================================================
