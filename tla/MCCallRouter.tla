---------------------------- MODULE MCCallRouter ----------------------------
(* An instance of CallRouter: a call of each kind.                          *)
EXTENDS RoutedCalls, TLC
CONSTANTS p, r, s, u

MCKind == p :> "plain" @@ r :> "restart" @@ s :> "shot" @@ u :> "ui"

CallsSpec == Router!FairSpec

(* Every call is answered, but for the losses that CallRouter names and the  *)
(* time that the warm-up holds it.                                          *)
EveryCallEnds == Router!EveryCallEnds
=============================================================================
