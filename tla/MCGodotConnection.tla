------------------------- MODULE MCGodotConnection -------------------------
(* The server for TLC.  Three instances that share no state, the first state *)
(* chooses one: the connection, with two socket objects (one more than the   *)
(* client may have alive), a command in flight and three delays; the host it *)
(* dials, over networks with and without a usable route; and the calls whose *)
(* timeouts are derived, with arguments around every limit of the schemas.   *)
EXTENDS GodotConnection, TimeoutCascade, DialledHost

VARIABLE part

resolution == <<env, routes, names, cachedHostIp, dialled, told>>
all        == <<vars, part, resolution, asked>>

\* A header or a route that is no default, a short address, one that is none.
Route(d, g) == [destination |-> d, gateway |-> g]
MCRoutes == {<<>>, <<Route("other", <<1, 0, 0, 10>>), Route("default", <<1, 0, 0>>)>>,
             <<Route("default", <<1, 0, 0, 10>>)>>, <<Route("default", <<2, 0, 0, 10>>)>>}
MCNames     == {<<>>, <<<<300, 1, 1, 1>>, <<10, 0, 0, 9>>>>}
MCOverrides == {<<10, 9, 9, 9>>}

Connection(A) == part = "connection" /\ A /\ UNCHANGED <<part, resolution, asked>>

ServerInit ==
  /\ Init /\ Host!Init
  /\ \/ part = "host" /\ asked = None
     \/ /\ part \in {"connection", "cascade"}
        /\ env = [platform |-> "linux", wslVariable |-> FALSE,
             version |-> "plain", release |-> "plain", override |-> None]
        /\ routes = None /\ names = None
        /\ IF part = "cascade" THEN CascadeInit ELSE asked = None
ServerNext ==
  \/ Connection(Next)
  \/ part = "host" /\ Host!Next /\ UNCHANGED <<part, vars, asked>>
  \/ part = "cascade" /\ CascadeNext /\ UNCHANGED <<part, vars, resolution>>

\* GodotConnection's Fairness, of its own instance.
ServerSpec ==
  /\ ServerInit /\ [][ServerNext]_all
  /\ WF_all(Connection(Connect)) /\ WF_all(Connection(ReconnectTimer))
  /\ \A s \in Sock : /\ WF_all(Connection(OpenContinues(s)))
                     /\ WF_all(Connection(HandshakeTimeout(s)))
                     /\ WF_all(Connection(/\ sock[s] = "closing"
                                          /\ \E kind \in CloseKinds : OnClose(s, kind)))
  /\ \A r \in Req : WF_all(Connection(RequestTimeout(r)))
=============================================================================
