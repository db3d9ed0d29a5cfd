--------------------------- MODULE BridgeTimeline ---------------------------
(* An instance of InputTimeline for a module that has a state and an Init of *)
(* its own: the clock's proofs and its instance for TLC.                    *)
CONSTANTS Call, Key, ChunkMs, None
VARIABLES inputs, todo, keys, down, pointer, dropped, credit

Inputs == INSTANCE InputTimeline

ASSUME AnswersAssumption == Inputs!EchoAssumption

(* A bridge that skips an entry of a kind it does not know is told from one  *)
(* that plays it (input.ts:139-151).                                        *)
IgnoredIsSaid == Inputs!IgnoredIsSaid
=============================================================================
