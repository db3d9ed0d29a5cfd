---------------------------- MODULE RoutedCalls ----------------------------
(* An instance of CallRouter for a module that has a state and an Init of    *)
(* its own: the proofs of the splice, through which its calls come, and its *)
(* instance for TLC.                                                        *)
CONSTANTS Routed,     \* the calls
          Kind, MaxFaults, None
VARIABLES todo, answers, pending, copies, inner, takeover, hold, watch, phase, npx, cli,
          dropped, hung, lost, faults

Router == INSTANCE CallRouter WITH Call <- Routed

ASSUME RouterAssumption == Router!CallsAssumption

(* No call is lost by the proxy's own doing, nor answered again, but a       *)
(* restart whose hold timed out (npx.mjs:368, router.mjs).                  *)
OnceEach == Router!OnceEach

(* While the queue has been released, a call is held only for a restart or   *)
(* for the server's pipe, whose end releases it (router.mjs:349-369).       *)
HeldHasAReleaser == Router!HeldHasAReleaser
=============================================================================
