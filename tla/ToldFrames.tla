----------------------------- MODULE ToldFrames -----------------------------
(* An instance of FrameFreshness for a module that has a state and an Init   *)
(* of its own: the proofs about the proxy and its instance for TLC.         *)
CONSTANTS Call, MaxClock, Burst, StaleMs, None
VARIABLES now, marks, pc, contract, waiters, timers, wire, game, shot, verdict, past

Frames == INSTANCE FrameFreshness

ASSUME FreshnessAssumption == Frames!ContractAssumption

(* An old frame that is told without a warning has the advance of another    *)
(* call to thank for it (capture-contract.mjs).                             *)
StaleIsHiddenByAdvance == Frames!StaleIsHiddenByAdvance
=============================================================================
