---------------------------- MODULE FollowedLog ----------------------------
(* An instance of LogTail for a module that has a state and an Init of its   *)
(* own: the proofs about the runtime and its instance for TLC.              *)
CONSTANTS Poll, MaxBoots, MaxLines
VARIABLES file, boot, tail, seen, polls, history

Log == INSTANCE LogTail

(* The gate and the hints of a warm-up rest on the log of the boot they are  *)
(* about (lease.mjs).                                                       *)
EvidenceIsOurs == Log!EvidenceIsOurs
=============================================================================
