--------------------------- MODULE MCProxyWarmup ---------------------------
(* Instances of ProxyWarmup: a production proxy with the forked server, the *)
(* lane without it, and the lane that exits instead of arming again.        *)
EXTENDS ProxyWarmup

MCProduction == [fork |-> TRUE, log |-> TRUE, exitFirst |-> FALSE, rearm |-> TRUE]
MCLegacy     == [fork |-> FALSE, log |-> FALSE, exitFirst |-> TRUE, rearm |-> TRUE]
MCTerminal   == [fork |-> TRUE, log |-> TRUE, exitFirst |-> TRUE, rearm |-> FALSE]

MCConfigs    == {MCProduction, MCLegacy, MCTerminal}
MCOneConfig  == {MCProduction}
=============================================================================
