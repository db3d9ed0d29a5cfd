--------------------------- MODULE HostResolution ---------------------------
(***************************************************************************)
(* Which host the server dials (server utils/): GODOT_HOST, or in WSL the  *)
(* Windows host as the route table or resolv.conf has it, or localhost.    *)
(* The connection asks once, when it is made; the startup log and every    *)
(* diagnostic of a failed call ask again, whatever the network is by then. *)
(***************************************************************************)
EXTENDS Integers, Sequences

CONSTANTS Platform,    \* process.platform
          RouteTable,  \* contents of /proc/net/route: lists of routes
          ResolvConf,  \* contents of /etc/resolv.conf: lists of nameservers
          Override,    \* values of GODOT_HOST
          Unset, None

\* The files are lists, of routes and of addresses, and Unset is neither
\* None nor an address.
AddressAssumption ==
  /\ RouteTable \subseteq Seq([destination : {"default", "other"}, gateway : Seq(Nat)])
  /\ ResolvConf \subseteq Seq(Seq(Nat))
  /\ Unset # None /\ Unset \notin Seq(Nat)

VARIABLES
  env,           \* what does not change under a running server
  routes, names, \* /proc/net/route, /etc/resolv.conf; None: cannot be read
  cachedHostIp,  \* Unset before the first detection
  dialled,       \* the host of globalConnection, None before it is made
  told           \* the host of the last connection strategy that was asked for

vars == <<env, routes, names, cachedHostIp, dialled, told>>

Localhost == <<127, 0, 0, 1>>

-----------------------------------------------------------------------------
(* wsl-detection.ts, gateway-resolver.ts *)

IsWSL ==
  /\ env.platform = "linux"
  /\ env.wslVariable \/ env.version = "microsoft" \/ env.release = "microsoft"

\* Without a readable /proc/version it is taken for WSL1.
DetectWSLVersion ==
  CASE env.wslVariable /\ env.version = "microsoft" -> "wsl2"
    [] env.wslVariable /\ env.version = "unreadable" -> "wsl1"
    [] OTHER -> IF env.release = "microsoft" THEN "wsl2" ELSE None

IsValidIPv4(ip) == Len(ip) = 4 /\ \A i \in DOMAIN ip : ip[i] \in 0..255

\* The table has the bytes of an address in the machine's order, last first.
ConvertHexToIp(hex) ==
  IF Len(hex) # 4 THEN None ELSE [i \in 1..4 |-> hex[5 - i]]

\* The first element of a list that passes.
FirstOf(list, Passes(_), Value(_)) ==
  IF \E i \in DOMAIN list : Passes(list[i])
  THEN Value(list[CHOOSE i \in DOMAIN list :
                    Passes(list[i]) /\ \A j \in 1..i - 1 : ~Passes(list[j])])
  ELSE None

ResolveLinuxGateway ==
  LET Usable(r)  == /\ r.destination = "default" /\ ConvertHexToIp(r.gateway) # None
                    /\ IsValidIPv4(ConvertHexToIp(r.gateway))
      Gateway(r) == ConvertHexToIp(r.gateway)
  IN  IF routes = None THEN None ELSE FirstOf(routes, Usable, Gateway)

ResolveWSL2Nameserver ==
  LET Itself(n) == n
  IN  IF names = None THEN None ELSE FirstOf(names, IsValidIPv4, Itself)

ResolveGateway ==
  IF env.platform # "linux" THEN None
  ELSE IF ResolveLinuxGateway # None THEN ResolveLinuxGateway
  ELSE IF DetectWSLVersion = "wsl2" THEN ResolveWSL2Nameserver
  ELSE None

-----------------------------------------------------------------------------
(* host-ip-resolver.ts, connection-strategy.ts *)

\* Slip: only a detection that found something is kept.
KeptIfFound(found) == IF found = None THEN Unset ELSE found
Kept(found)        == found

\* GODOT_HOST is looked at here too, after the cache.
Detected ==
  IF env.override # None THEN env.override ELSE IF IsWSL THEN ResolveGateway ELSE None

GetHostIpInWSL == IF cachedHostIp # Unset THEN cachedHostIp ELSE Detected

GetTargetHost ==
  IF env.override # None THEN env.override
  ELSE IF IsWSL /\ GetHostIpInWSL # None THEN GetHostIpInWSL
  ELSE Localhost

-----------------------------------------------------------------------------
Environment ==
  [platform : Platform, wslVariable : BOOLEAN, version : {"microsoft", "plain", "unreadable"},
   release : {"microsoft", "plain"}, override : Override \cup {None}]

Init ==
  /\ env \in Environment
  /\ routes \in RouteTable \cup {None} /\ names \in ResolvConf \cup {None}
  /\ cachedHostIp = Unset /\ dialled = None /\ told = None

\* What asking for the host leaves in the cache.
Remember ==
  cachedHostIp' = IF env.override = None /\ IsWSL /\ cachedHostIp = Unset
                  THEN Kept(Detected) ELSE cachedHostIp

GetGodotConnection ==
  /\ dialled = None /\ dialled' = GetTargetHost /\ Remember
  /\ UNCHANGED <<env, routes, names, told>>

GetConnectionStrategy ==
  /\ dialled # None /\ told' = GetTargetHost /\ Remember
  /\ UNCHANGED <<env, routes, names, dialled>>

\* The network comes up, goes down, or is another one.
NetworkChanges ==
  /\ routes' \in RouteTable \cup {None} /\ names' \in ResolvConf \cup {None}
  /\ UNCHANGED <<env, cachedHostIp, dialled, told>>

Next == GetGodotConnection \/ GetConnectionStrategy \/ NetworkChanges
Spec == Init /\ [][Next]_vars

-----------------------------------------------------------------------------
(* Properties. *)

(* What the log and the diagnostics say of the target is the host that the  *)
(* connection dials for all its life, whatever became of the network since  *)
(* ("Result is cached to avoid repeated resolution attempts"): also         *)
(* localhost, in WSL, when the network was not up when it was made.         *)
ToldIsDialled == told \in {None, dialled}
=============================================================================
