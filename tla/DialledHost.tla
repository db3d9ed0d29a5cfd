---------------------------- MODULE DialledHost ----------------------------
(* An instance of HostResolution for a module that has a state and an Init   *)
(* of its own: the connection's proofs and its instance for TLC.            *)
CONSTANTS Platform, RouteTable, ResolvConf, Override, Unset, None
VARIABLES env, routes, names, cachedHostIp, dialled, told

Host == INSTANCE HostResolution

ASSUME HostAssumption == Host!AddressAssumption

(* What the log and the diagnostics say of the target is the host that the  *)
(* connection dials, in every network (host-resolution.ts:56-68).           *)
ToldIsDialled == Host!ToldIsDialled
=============================================================================
