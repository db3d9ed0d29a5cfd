---------------------------- MODULE MCRelayCalls ----------------------------
(* Three relays for TLC: exec calls, the waits behind the mutex of          *)
(* qa_commands, and gated input calls.  The first state chooses the kind,   *)
(* and all calls of a behaviour are of that kind.                           *)
EXTENDS DebuggerRelay
CONSTANTS k1, k2
=============================================================================
