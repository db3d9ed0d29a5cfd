-------------------------- MODULE AddonServerProofs --------------------------
(***************************************************************************)
(* The safety properties of AddonServer for any number of connections and  *)
(* addresses, any order-respecting delays and any number of rebinds.        *)
(*                                                                         *)
(* None of them is inductive.  QuitOnlyWhenUnserved needs to know that a    *)
(* running quit timer and the time already spent unserved add up to the     *)
(* quit delay; IncumbentProtected needs that what the addon believes about  *)
(* the client's silence never exceeds the silence itself, which in turn     *)
(* rests on a listener never coming back under a client it left in the      *)
(* slot (Binding).                                                          *)
(***************************************************************************)
EXTENDS AddonServer, TLAPS

(* A connected client has stopped the quit timer; a timer that runs was     *)
(* started so long ago as the editor has been unserved, at least.           *)
Counting ==
  /\ isConnected => quitIn = Off
  /\ quitIn # Off => unserved + quitIn >= QuitTicks

(* An editor that is not up holds nothing.  Two binds are never pending     *)
(* once something listens, and none once a failed bind has left a client    *)
(* in the slot without a listener.                                          *)
Binding ==
  /\ editor # "up" => listening = NoAddr /\ slot = NoConn /\ gate = NoAddr
  /\ gate # NoAddr => ~coldPending
  /\ listening # NoAddr => ~coldPending /\ (restartDue => gate = NoAddr)
  /\ listening = NoAddr /\ slot # NoConn =>
       ~coldPending /\ ~restartDue /\ gate = NoAddr

(* With steady frames the addon's idea of the silence is not longer than    *)
(* the silence, unless a packet that ends it is waiting to be read.         *)
Timely ==
  SteadyFrames /\ slot # NoConn /\ listening # NoAddr =>
    quiet <= heard \/ (inbox /\ quiet <= StaleTicks)

IInv == TypeOK /\ OnePlace /\ Counting /\ Binding /\ Timely
-----------------------------------------------------------------------------
(* _enter_tree() establishes the invariant.                                 *)
LEMMA InitIInv == Init => IInv
<1> SUFFICES ASSUME Init PROVE IInv
  OBVIOUS
<1> USE AddonAssumption DEF Init
<1>1. TypeOK
  <2>1. tcp \in [Conn -> {"none", "up", "down"}]
    OBVIOUS
  <2>2. ready \in [Conn -> {"connecting", "open", "closing", "closed"}]
    OBVIOUS
  <2>3. age \in [Conn -> 0..RejectTicks + 1]
    OBVIOUS
  <2>4. /\ isConnected \in BOOLEAN
        /\ inbox \in BOOLEAN
        /\ restartDue \in BOOLEAN
        /\ coldPending \in BOOLEAN
    BY Zenon
  <2>5. /\ quiet \in 0..StaleTicks + 1
        /\ heard \in 0..StaleTicks + 1
        /\ quitIn \in 0..Off
        /\ unserved \in 0..GraceTicks + 1
        /\ applies \in 0..MaxApplies
    BY DEF Off
  <2>6. /\ queue \in SUBSET Conn
        /\ rejecting \in SUBSET Conn
        /\ slot \in Conn \cup {NoConn}
    OBVIOUS
  <2>7. /\ editor \in {"up", "quit", "gone"}
        /\ listening \in Addr \cup {NoAddr}
        /\ cfg \in Addr
        /\ gate \in Addr \cup {NoAddr}
    OBVIOUS
  <2>8. QED
    BY <2>1, <2>2, <2>3, <2>4, <2>5, <2>6, <2>7 DEF TypeOK
<1>2. OnePlace
  BY DEF OnePlace
<1>3. Counting /\ Binding /\ Timely
  BY DEF Counting, Binding, Timely, Off
<1>4. QED
  BY <1>1, <1>2, <1>3 DEF IInv

(* Every step keeps it: one step per action, and under it the five parts.    *)
LEMMA NextIInv == IInv /\ [Next]_vars => IInv'
<1> SUFFICES ASSUME IInv, [Next]_vars PROVE IInv'
  OBVIOUS
<1> USE AddonAssumption DEF IInv
<1>1. ASSUME NEW c \in Conn, AcceptConnection(c) PROVE IInv'
  <2>1. TypeOK'
    <3>1. tcp' \in [Conn -> {"none", "up", "down"}]
      BY <1>1, SMT
        DEF TypeOK, AcceptConnection, Install, IsStale, LeaseDisconnected
    <3>2. ready' \in [Conn -> {"connecting", "open", "closing", "closed"}]
      BY <1>1, SMT
        DEF TypeOK, AcceptConnection, Install, IsStale, LeaseDisconnected
    <3>3. age' \in [Conn -> 0..RejectTicks + 1]
      BY <1>1, SMT
        DEF TypeOK, AcceptConnection, Install, IsStale, LeaseDisconnected
    <3>4. /\ isConnected' \in BOOLEAN
          /\ inbox' \in BOOLEAN
          /\ restartDue' \in BOOLEAN
          /\ coldPending' \in BOOLEAN
      BY <1>1, Zenon
        DEF TypeOK, AcceptConnection, Install, IsStale, LeaseDisconnected,
            binding, lease
    <3>5. /\ quiet' \in 0..StaleTicks + 1
          /\ heard' \in 0..StaleTicks + 1
          /\ quitIn' \in 0..Off
          /\ unserved' \in 0..GraceTicks + 1
      BY <1>1, SMT
        DEF TypeOK, Off, AcceptConnection, Install, IsStale,
            LeaseDisconnected, binding, lease
    <3>6. /\ queue' \in SUBSET Conn
          /\ rejecting' \in SUBSET Conn
          /\ slot' \in Conn \cup {NoConn}
      BY <1>1, SMT
        DEF TypeOK, AcceptConnection, Install, IsStale, LeaseDisconnected,
            binding, lease
    <3>7. /\ editor' \in {"up", "quit", "gone"}
          /\ listening' \in Addr \cup {NoAddr}
          /\ cfg' \in Addr
          /\ gate' \in Addr \cup {NoAddr}
          /\ applies' \in 0..MaxApplies
      BY <1>1, SMT
        DEF TypeOK, AcceptConnection, Install, IsStale, LeaseDisconnected,
            binding, lease
    <3>8. QED
      BY <3>1, <3>2, <3>3, <3>4, <3>5, <3>6, <3>7 DEF TypeOK
  <2>2. OnePlace'
    BY <1>1, SMT
      DEF TypeOK, OnePlace, AcceptConnection, Install, IsStale,
          LeaseDisconnected, binding, lease
  <2>3. Counting'
    BY <1>1, SMT
      DEF TypeOK, OnePlace, Counting, Off, AcceptConnection, Install, IsStale,
          LeaseDisconnected, binding, lease
  <2>4. Binding'
    BY <1>1, SMT
      DEF TypeOK, OnePlace, Binding, AcceptConnection, Install, IsStale,
          LeaseDisconnected, binding, lease
  <2>5. Timely'
    BY <1>1, SMT
      DEF TypeOK, OnePlace, Binding, Timely, AcceptConnection, Install,
          IsStale, LeaseDisconnected, binding, lease
  <2>6. QED
    BY <2>1, <2>2, <2>3, <2>4, <2>5
<1>2. CASE ProcessWebsocket
  <2>1. TypeOK'
    <3>1. tcp' \in [Conn -> {"none", "up", "down"}]
      BY <1>2, SMT
        DEF TypeOK, ProcessWebsocket, WebsocketOpen, WebsocketClosed,
            LeaseConnected, LeaseDisconnected
    <3>2. ready' \in [Conn -> {"connecting", "open", "closing", "closed"}]
      BY <1>2, SMT
        DEF TypeOK, ProcessWebsocket, WebsocketOpen, WebsocketClosed,
            LeaseConnected, LeaseDisconnected
    <3>3. age' \in [Conn -> 0..RejectTicks + 1]
      BY <1>2, SMT
        DEF TypeOK, ProcessWebsocket, WebsocketOpen, WebsocketClosed,
            LeaseConnected, LeaseDisconnected
    <3>4. /\ isConnected' \in BOOLEAN
          /\ inbox' \in BOOLEAN
          /\ restartDue' \in BOOLEAN
          /\ coldPending' \in BOOLEAN
      BY <1>2, Zenon
        DEF TypeOK, ProcessWebsocket, WebsocketOpen, WebsocketClosed,
            LeaseConnected, LeaseDisconnected, binding, lease
    <3>5. /\ quiet' \in 0..StaleTicks + 1
          /\ heard' \in 0..StaleTicks + 1
          /\ quitIn' \in 0..Off
          /\ unserved' \in 0..GraceTicks + 1
      BY <1>2, SMT
        DEF TypeOK, Off, ProcessWebsocket, WebsocketOpen, WebsocketClosed,
            LeaseConnected, LeaseDisconnected, binding, lease
    <3>6. /\ queue' \in SUBSET Conn
          /\ rejecting' \in SUBSET Conn
          /\ slot' \in Conn \cup {NoConn}
      BY <1>2, SMT
        DEF TypeOK, ProcessWebsocket, WebsocketOpen, WebsocketClosed,
            LeaseConnected, LeaseDisconnected, binding, lease
    <3>7. /\ editor' \in {"up", "quit", "gone"}
          /\ listening' \in Addr \cup {NoAddr}
          /\ cfg' \in Addr
          /\ gate' \in Addr \cup {NoAddr}
          /\ applies' \in 0..MaxApplies
      BY <1>2, SMT
        DEF TypeOK, ProcessWebsocket, WebsocketOpen, WebsocketClosed,
            LeaseConnected, LeaseDisconnected, binding, lease
    <3>8. QED
      BY <3>1, <3>2, <3>3, <3>4, <3>5, <3>6, <3>7 DEF TypeOK
  <2>2. OnePlace'
    BY <1>2, SMT
      DEF TypeOK, OnePlace, ProcessWebsocket, WebsocketOpen, WebsocketClosed,
          LeaseConnected, LeaseDisconnected, binding, lease
  <2>3. Counting'
    BY <1>2, SMT
      DEF TypeOK, OnePlace, Counting, Off, ProcessWebsocket, WebsocketOpen,
          WebsocketClosed, LeaseConnected, LeaseDisconnected, binding, lease
  <2>4. Binding'
    BY <1>2, SMT
      DEF TypeOK, OnePlace, Binding, ProcessWebsocket, WebsocketOpen,
          WebsocketClosed, LeaseConnected, LeaseDisconnected, binding, lease
  <2>5. Timely'
    BY <1>2, SMT
      DEF TypeOK, OnePlace, Binding, Timely, ProcessWebsocket, WebsocketOpen,
          WebsocketClosed, LeaseConnected, LeaseDisconnected, binding, lease
  <2>6. QED
    BY <2>1, <2>2, <2>3, <2>4, <2>5
<1>3. CASE ProcessRejectingPeers
  <2>1. TypeOK'
    BY <1>3, SMT
      DEF TypeOK, Off, ProcessRejectingPeers, DroppedPeers, Expired, binding,
          lease
  <2>2. OnePlace'
    BY <1>3, SMT
      DEF TypeOK, OnePlace, ProcessRejectingPeers, DroppedPeers, Expired,
          binding, lease
  <2>3. Counting'
    BY <1>3, SMT
      DEF TypeOK, OnePlace, Counting, Off, ProcessRejectingPeers,
          DroppedPeers, Expired, binding, lease
  <2>4. Binding'
    BY <1>3, SMT
      DEF TypeOK, OnePlace, Binding, ProcessRejectingPeers, DroppedPeers,
          Expired, binding, lease
  <2>5. Timely'
    BY <1>3, SMT
      DEF TypeOK, OnePlace, Binding, Timely, ProcessRejectingPeers,
          DroppedPeers, Expired, binding, lease
  <2>6. QED
    BY <2>1, <2>2, <2>3, <2>4, <2>5
<1>4. ASSUME NEW addr \in Addr, ConfigApplied(addr) PROVE IInv'
  <2>1. TypeOK'
    <3>1. tcp' \in [Conn -> {"none", "up", "down"}]
      BY <1>4, SMT DEF TypeOK, ConfigApplied, StopServer
    <3>2. ready' \in [Conn -> {"connecting", "open", "closing", "closed"}]
      BY <1>4, SMT DEF TypeOK, ConfigApplied, StopServer
    <3>3. age' \in [Conn -> 0..RejectTicks + 1]
      BY <1>4, SMT DEF TypeOK, ConfigApplied, StopServer
    <3>4. /\ isConnected' \in BOOLEAN
          /\ inbox' \in BOOLEAN
          /\ restartDue' \in BOOLEAN
          /\ coldPending' \in BOOLEAN
      BY <1>4, Zenon DEF TypeOK, ConfigApplied, StopServer, binding, lease
    <3>5. /\ quiet' \in 0..StaleTicks + 1
          /\ heard' \in 0..StaleTicks + 1
          /\ quitIn' \in 0..Off
          /\ unserved' \in 0..GraceTicks + 1
      BY <1>4, SMT DEF TypeOK, Off, ConfigApplied, StopServer, binding, lease
    <3>6. /\ queue' \in SUBSET Conn
          /\ rejecting' \in SUBSET Conn
          /\ slot' \in Conn \cup {NoConn}
      BY <1>4, SMT DEF TypeOK, ConfigApplied, StopServer, binding, lease
    <3>7. /\ editor' \in {"up", "quit", "gone"}
          /\ listening' \in Addr \cup {NoAddr}
          /\ cfg' \in Addr
          /\ gate' \in Addr \cup {NoAddr}
          /\ applies' \in 0..MaxApplies
      BY <1>4, SMT DEF TypeOK, ConfigApplied, StopServer, binding, lease
    <3>8. QED
      BY <3>1, <3>2, <3>3, <3>4, <3>5, <3>6, <3>7 DEF TypeOK
  <2>2. OnePlace'
    BY <1>4, SMT DEF TypeOK, OnePlace, ConfigApplied, StopServer, binding, lease
  <2>3. Counting'
    BY <1>4, SMT
      DEF TypeOK, OnePlace, Counting, Off, ConfigApplied, StopServer, binding,
          lease
  <2>4. Binding'
    BY <1>4, SMT
      DEF TypeOK, OnePlace, Binding, ConfigApplied, StopServer, binding, lease
  <2>5. Timely'
    BY <1>4, SMT
      DEF TypeOK, OnePlace, Binding, Timely, ConfigApplied, StopServer,
          binding, lease
  <2>6. QED
    BY <2>1, <2>2, <2>3, <2>4, <2>5
<1>5. CASE DoRestartServer
  <2>1. TypeOK'
    <3>1. tcp' \in [Conn -> {"none", "up", "down"}]
      BY <1>5, SMT DEF TypeOK, DoRestartServer, StartServer
    <3>2. ready' \in [Conn -> {"connecting", "open", "closing", "closed"}]
      BY <1>5, SMT DEF TypeOK, DoRestartServer, StartServer
    <3>3. age' \in [Conn -> 0..RejectTicks + 1]
      BY <1>5, SMT DEF TypeOK, DoRestartServer, StartServer
    <3>4. /\ isConnected' \in BOOLEAN
          /\ inbox' \in BOOLEAN
          /\ restartDue' \in BOOLEAN
          /\ coldPending' \in BOOLEAN
      BY <1>5, Zenon DEF TypeOK, DoRestartServer, StartServer, binding, lease
    <3>5. /\ quiet' \in 0..StaleTicks + 1
          /\ heard' \in 0..StaleTicks + 1
          /\ quitIn' \in 0..Off
          /\ unserved' \in 0..GraceTicks + 1
      BY <1>5, SMT DEF TypeOK, Off, DoRestartServer, StartServer, binding, lease
    <3>6. /\ queue' \in SUBSET Conn
          /\ rejecting' \in SUBSET Conn
          /\ slot' \in Conn \cup {NoConn}
      BY <1>5, SMT DEF TypeOK, DoRestartServer, StartServer, binding, lease
    <3>7. /\ editor' \in {"up", "quit", "gone"}
          /\ listening' \in Addr \cup {NoAddr}
          /\ cfg' \in Addr
          /\ gate' \in Addr \cup {NoAddr}
          /\ applies' \in 0..MaxApplies
      BY <1>5, SMT DEF TypeOK, DoRestartServer, StartServer, binding, lease
    <3>8. QED
      BY <3>1, <3>2, <3>3, <3>4, <3>5, <3>6, <3>7 DEF TypeOK
  <2>2. OnePlace'
    BY <1>5, SMT
      DEF TypeOK, OnePlace, DoRestartServer, StartServer, binding, lease
  <2>3. Counting'
    BY <1>5, SMT
      DEF TypeOK, OnePlace, Counting, Off, DoRestartServer, StartServer,
          binding, lease
  <2>4. Binding'
    BY <1>5, SMT
      DEF TypeOK, OnePlace, Binding, DoRestartServer, StartServer, binding,
          lease
  <2>5. Timely'
    BY <1>5, SMT
      DEF TypeOK, OnePlace, Binding, Timely, DoRestartServer, StartServer,
          binding, lease
  <2>6. QED
    BY <2>1, <2>2, <2>3, <2>4, <2>5
<1>6. CASE IdleGateOpens
  <2>1. TypeOK'
    BY <1>6, SMT DEF TypeOK, Off, IdleGateOpens, StartServer, binding, lease
  <2>2. OnePlace'
    BY <1>6, SMT
      DEF TypeOK, OnePlace, IdleGateOpens, StartServer, binding, lease
  <2>3. Counting'
    BY <1>6, SMT
      DEF TypeOK, OnePlace, Counting, Off, IdleGateOpens, StartServer,
          binding, lease
  <2>4. Binding'
    BY <1>6, SMT
      DEF TypeOK, OnePlace, Binding, IdleGateOpens, StartServer, binding,
          lease
  <2>5. Timely'
    BY <1>6, SMT
      DEF TypeOK, OnePlace, Binding, Timely, IdleGateOpens, StartServer,
          binding, lease
  <2>6. QED
    BY <2>1, <2>2, <2>3, <2>4, <2>5
<1>7. CASE LeaseQuit
  <2>1. TypeOK'
    <3>1. tcp' \in [Conn -> {"none", "up", "down"}]
      BY <1>7, SMT DEF TypeOK, LeaseQuit, StopServer
    <3>2. ready' \in [Conn -> {"connecting", "open", "closing", "closed"}]
      BY <1>7, SMT DEF TypeOK, LeaseQuit, StopServer
    <3>3. age' \in [Conn -> 0..RejectTicks + 1]
      BY <1>7, SMT DEF TypeOK, LeaseQuit, StopServer
    <3>4. /\ isConnected' \in BOOLEAN
          /\ inbox' \in BOOLEAN
          /\ restartDue' \in BOOLEAN
          /\ coldPending' \in BOOLEAN
      BY <1>7, Zenon DEF TypeOK, LeaseQuit, StopServer, binding, lease
    <3>5. /\ quiet' \in 0..StaleTicks + 1
          /\ heard' \in 0..StaleTicks + 1
          /\ quitIn' \in 0..Off
          /\ unserved' \in 0..GraceTicks + 1
      BY <1>7, SMT DEF TypeOK, Off, LeaseQuit, StopServer, binding, lease
    <3>6. /\ queue' \in SUBSET Conn
          /\ rejecting' \in SUBSET Conn
          /\ slot' \in Conn \cup {NoConn}
      BY <1>7, SMT DEF TypeOK, LeaseQuit, StopServer, binding, lease
    <3>7. /\ editor' \in {"up", "quit", "gone"}
          /\ listening' \in Addr \cup {NoAddr}
          /\ cfg' \in Addr
          /\ gate' \in Addr \cup {NoAddr}
          /\ applies' \in 0..MaxApplies
      BY <1>7, SMT DEF TypeOK, LeaseQuit, StopServer, binding, lease
    <3>8. QED
      BY <3>1, <3>2, <3>3, <3>4, <3>5, <3>6, <3>7 DEF TypeOK
  <2>2. OnePlace'
    BY <1>7, SMT DEF TypeOK, OnePlace, LeaseQuit, StopServer, binding, lease
  <2>3. Counting'
    BY <1>7, SMT
      DEF TypeOK, OnePlace, Counting, Off, LeaseQuit, StopServer, binding,
          lease
  <2>4. Binding'
    BY <1>7, SMT
      DEF TypeOK, OnePlace, Binding, LeaseQuit, StopServer, binding, lease
  <2>5. Timely'
    BY <1>7, SMT
      DEF TypeOK, OnePlace, Binding, Timely, LeaseQuit, StopServer, binding,
          lease
  <2>6. QED
    BY <2>1, <2>2, <2>3, <2>4, <2>5
<1>8. CASE ExitTree
  <2>1. TypeOK'
    <3>1. tcp' \in [Conn -> {"none", "up", "down"}]
      BY <1>8, SMT DEF TypeOK, ExitTree, StopServer
    <3>2. ready' \in [Conn -> {"connecting", "open", "closing", "closed"}]
      BY <1>8, SMT DEF TypeOK, ExitTree, StopServer
    <3>3. age' \in [Conn -> 0..RejectTicks + 1]
      BY <1>8, SMT DEF TypeOK, ExitTree, StopServer
    <3>4. /\ isConnected' \in BOOLEAN
          /\ inbox' \in BOOLEAN
          /\ restartDue' \in BOOLEAN
          /\ coldPending' \in BOOLEAN
      BY <1>8, Zenon DEF TypeOK, ExitTree, StopServer, binding, lease
    <3>5. /\ quiet' \in 0..StaleTicks + 1
          /\ heard' \in 0..StaleTicks + 1
          /\ quitIn' \in 0..Off
          /\ unserved' \in 0..GraceTicks + 1
      BY <1>8, SMT DEF TypeOK, Off, ExitTree, StopServer, binding, lease
    <3>6. /\ queue' \in SUBSET Conn
          /\ rejecting' \in SUBSET Conn
          /\ slot' \in Conn \cup {NoConn}
      BY <1>8, SMT DEF TypeOK, ExitTree, StopServer, binding, lease
    <3>7. /\ editor' \in {"up", "quit", "gone"}
          /\ listening' \in Addr \cup {NoAddr}
          /\ cfg' \in Addr
          /\ gate' \in Addr \cup {NoAddr}
          /\ applies' \in 0..MaxApplies
      BY <1>8, SMT DEF TypeOK, ExitTree, StopServer, binding, lease
    <3>8. QED
      BY <3>1, <3>2, <3>3, <3>4, <3>5, <3>6, <3>7 DEF TypeOK
  <2>2. OnePlace'
    BY <1>8, SMT DEF TypeOK, OnePlace, ExitTree, StopServer, binding, lease
  <2>3. Counting'
    BY <1>8, SMT
      DEF TypeOK, OnePlace, Counting, Off, ExitTree, StopServer, binding,
          lease
  <2>4. Binding'
    BY <1>8, SMT
      DEF TypeOK, OnePlace, Binding, ExitTree, StopServer, binding, lease
  <2>5. Timely'
    BY <1>8, SMT
      DEF TypeOK, OnePlace, Binding, Timely, ExitTree, StopServer, binding,
          lease
  <2>6. QED
    BY <2>1, <2>2, <2>3, <2>4, <2>5
<1>9. CASE Relaunch
  <2>1. TypeOK'
    BY <1>9, SMT DEF TypeOK, Off, Relaunch, peers, binding, lease
  <2>2. OnePlace'
    BY <1>9, SMT DEF TypeOK, OnePlace, Relaunch, peers, binding, lease
  <2>3. Counting'
    BY <1>9, SMT
      DEF TypeOK, OnePlace, Counting, Off, Binding, Relaunch, peers, binding,
          lease
  <2>4. Binding'
    BY <1>9, SMT DEF TypeOK, OnePlace, Binding, Relaunch, peers, binding, lease
  <2>5. Timely'
    BY <1>9, SMT
      DEF TypeOK, OnePlace, Binding, Timely, Relaunch, peers, binding, lease
  <2>6. QED
    BY <2>1, <2>2, <2>3, <2>4, <2>5
<1>10. ASSUME NEW c \in Conn, ClientConnects(c) PROVE IInv'
  <2>1. TypeOK'
    BY <1>10, SMT DEF TypeOK, Off, ClientConnects, binding, lease
  <2>2. OnePlace'
    BY <1>10, SMT DEF TypeOK, OnePlace, ClientConnects, binding, lease
  <2>3. Counting'
    BY <1>10, SMT
      DEF TypeOK, OnePlace, Counting, Off, ClientConnects, binding, lease
  <2>4. Binding'
    BY <1>10, SMT DEF TypeOK, OnePlace, Binding, ClientConnects, binding, lease
  <2>5. Timely'
    BY <1>10, SMT
      DEF TypeOK, OnePlace, Binding, Timely, ClientConnects, binding, lease
  <2>6. QED
    BY <2>1, <2>2, <2>3, <2>4, <2>5
<1>11. ASSUME NEW c \in Conn, ClientUpgrades(c) PROVE IInv'
  <2>1. TypeOK'
    BY <1>11, SMT DEF TypeOK, Off, ClientUpgrades, binding, lease
  <2>2. OnePlace'
    BY <1>11, SMT DEF TypeOK, OnePlace, ClientUpgrades, binding, lease
  <2>3. Counting'
    BY <1>11, SMT
      DEF TypeOK, OnePlace, Counting, Off, ClientUpgrades, binding, lease
  <2>4. Binding'
    BY <1>11, SMT DEF TypeOK, OnePlace, Binding, ClientUpgrades, binding, lease
  <2>5. Timely'
    BY <1>11, SMT
      DEF TypeOK, OnePlace, Binding, Timely, ClientUpgrades, binding, lease
  <2>6. QED
    BY <2>1, <2>2, <2>3, <2>4, <2>5
<1>12. ASSUME NEW c \in Conn, ClientCloses(c) PROVE IInv'
  <2>1. TypeOK'
    BY <1>12, SMT DEF TypeOK, Off, ClientCloses, binding, lease
  <2>2. OnePlace'
    BY <1>12, SMT DEF TypeOK, OnePlace, ClientCloses, binding, lease
  <2>3. Counting'
    BY <1>12, SMT
      DEF TypeOK, OnePlace, Counting, Off, ClientCloses, binding, lease
  <2>4. Binding'
    BY <1>12, SMT DEF TypeOK, OnePlace, Binding, ClientCloses, binding, lease
  <2>5. Timely'
    BY <1>12, SMT
      DEF TypeOK, OnePlace, Binding, Timely, ClientCloses, binding, lease
  <2>6. QED
    BY <2>1, <2>2, <2>3, <2>4, <2>5
<1>13. ASSUME NEW c \in Conn, ClientGone(c) PROVE IInv'
  <2>1. TypeOK'
    BY <1>13, SMT DEF TypeOK, Off, ClientGone, binding, lease
  <2>2. OnePlace'
    BY <1>13, SMT DEF TypeOK, OnePlace, ClientGone, binding, lease
  <2>3. Counting'
    BY <1>13, SMT
      DEF TypeOK, OnePlace, Counting, Off, ClientGone, binding, lease
  <2>4. Binding'
    BY <1>13, SMT DEF TypeOK, OnePlace, Binding, ClientGone, binding, lease
  <2>5. Timely'
    BY <1>13, SMT
      DEF TypeOK, OnePlace, Binding, Timely, ClientGone, binding, lease
  <2>6. QED
    BY <2>1, <2>2, <2>3, <2>4, <2>5
<1>14. CASE ClientSends
  <2>1. TypeOK'
    BY <1>14, SMT DEF TypeOK, Off, ClientSends, binding, lease
  <2>2. OnePlace'
    BY <1>14, SMT DEF TypeOK, OnePlace, ClientSends, binding, lease
  <2>3. Counting'
    BY <1>14, SMT
      DEF TypeOK, OnePlace, Counting, Off, ClientSends, binding, lease
  <2>4. Binding'
    BY <1>14, SMT DEF TypeOK, OnePlace, Binding, ClientSends, binding, lease
  <2>5. Timely'
    BY <1>14, SMT
      DEF TypeOK, OnePlace, Binding, Timely, ClientSends, binding, lease
  <2>6. QED
    BY <2>1, <2>2, <2>3, <2>4, <2>5
<1>15. CASE Tick
  <2>1. TypeOK'
    BY <1>15, SMT
      DEF TypeOK, Off, Tick, FramesDone, Expired, Least, binding, lease
  <2>2. OnePlace'
    BY <1>15, SMT
      DEF TypeOK, OnePlace, Tick, FramesDone, Expired, Least, binding, lease
  <2>3. Counting'
    BY <1>15, SMT
      DEF TypeOK, OnePlace, Counting, Off, Tick, FramesDone, Expired, Least,
          binding, lease
  <2>4. Binding'
    BY <1>15, SMT
      DEF TypeOK, OnePlace, Binding, Tick, FramesDone, Expired, Least,
          binding, lease
  <2>5. Timely'
    BY <1>15, SMT
      DEF TypeOK, OnePlace, Binding, Timely, Tick, FramesDone, Expired, Least,
          binding, lease
  <2>6. QED
    BY <2>1, <2>2, <2>3, <2>4, <2>5
<1>16. CASE UNCHANGED vars
  BY <1>16
    DEF vars, peers, binding, lease, TypeOK, OnePlace, Counting, Binding,
        Timely
<1>17. QED
  BY <1>1, <1>2, <1>3, <1>4, <1>5, <1>6, <1>7, <1>8, <1>9, <1>10, <1>11,
     <1>12, <1>13, <1>14, <1>15, <1>16
    DEF Next
-----------------------------------------------------------------------------
(* The invariant holds in every reachable state.                            *)
LEMMA Invariance == Spec => []IInv
<1>1. QED
  BY InitIInv, NextIInv, PTL DEF Spec

(* Types of the addon's variables; the lease's timer never leaves its range. *)
THEOREM TypesHold == Spec => []TypeOK
<1>1. IInv => TypeOK
  BY DEF IInv
<1>2. QED
  BY Invariance, <1>1, PTL

(* A connection the addon holds is a real one and in exactly one place: the  *)
(* slot, the backlog or among those being turned away.                      *)
THEOREM ConnectionsInOnePlace == Spec => []OnePlace
<1>1. IInv => OnePlace
  BY DEF IInv
<1>2. QED
  BY Invariance, <1>1, PTL

(* The lease quits an editor only when it has been unserved for the whole    *)
(* quit delay, frames blocked or not, settings saved or not.                *)
THEOREM LeaseSparesServed == Spec => QuitOnlyWhenUnserved
<1> DEFINE Spares == (editor = "up" /\ editor' = "quit")
                       => ~isConnected /\ unserved >= QuitTicks
<1>1. IInv /\ [Next]_vars => [Spares]_vars
  <2> SUFFICES ASSUME IInv, Next, editor = "up", editor' = "quit"
               PROVE  ~isConnected /\ unserved >= QuitTicks
    OBVIOUS
  <2>1. LeaseQuit
    BY DEF Next, AcceptConnection, ProcessWebsocket, ProcessRejectingPeers,
       ConfigApplied, DoRestartServer, IdleGateOpens, ExitTree, Relaunch,
       ClientConnects, ClientUpgrades, ClientCloses, ClientGone, ClientSends,
       Tick
  <2>2. quitIn = 0 /\ Off # 0
    BY <2>1, AddonAssumption DEF LeaseQuit, Off
  <2>3. ~isConnected
    BY <2>2 DEF IInv, Counting
  <2>4. unserved >= QuitTicks
    BY <2>2, AddonAssumption DEF IInv, Counting, TypeOK, Off
  <2>5. QED
    BY <2>3, <2>4
<1>2. QED
  BY Invariance, <1>1, PTL DEF Spec, QuitOnlyWhenUnserved

(* As long as the main thread is never blocked for a whole tick, a client    *)
(* that keeps talking keeps the slot: it is not displaced by a newcomer and  *)
(* not closed as stale.                                                     *)
THEOREM IncumbentIsProtected == ASSUME SteadyFrames PROVE Spec => IncumbentProtected
<1> DEFINE Live == /\ slot # NoConn /\ tcp[slot] = "up" /\ heard <= StaleTicks
                   /\ ready[slot] \in {"connecting", "open"}
           Kept == \/ slot' = slot /\ ready'[slot] \in {"connecting", "open"}
                   \/ listening' = NoAddr
<1>1. IInv /\ [Next]_vars => [Live => Kept]_vars
  <2> SUFFICES ASSUME IInv, Next, Live PROVE Kept
    OBVIOUS
  <2> USE AddonAssumption
  <2>1. slot \in Conn /\ slot \notin queue /\ slot \notin rejecting
    BY DEF IInv, TypeOK, OnePlace
  <2>2. listening # NoAddr => quiet <= StaleTicks
    BY DEF IInv, TypeOK, Timely
  <2>3. ASSUME NEW c \in Conn, AcceptConnection(c) PROVE Kept
    BY <2>1, <2>2, <2>3 DEF AcceptConnection, IsStale, IInv, TypeOK
  <2>4. CASE ProcessWebsocket
    BY <2>1, <2>2, <2>4 DEF ProcessWebsocket, WebsocketOpen, WebsocketClosed,
       IInv, TypeOK
  <2>5. CASE ProcessRejectingPeers
    BY <2>1, <2>5 DEF ProcessRejectingPeers, IInv, TypeOK
  <2>6. ASSUME NEW c \in Conn, ClientUpgrades(c) \/ ClientCloses(c) PROVE Kept
    BY <2>1, <2>6 DEF ClientUpgrades, ClientCloses, IInv, TypeOK
  <2>7. ASSUME NEW addr \in Addr, ConfigApplied(addr) PROVE Kept
    BY <2>7 DEF ConfigApplied, StopServer
  <2>8. CASE LeaseQuit \/ ExitTree
    BY <2>8 DEF LeaseQuit, ExitTree, StopServer
  <2>9. CASE DoRestartServer \/ IdleGateOpens \/ Relaunch \/ ClientSends \/ Tick
    BY <2>9 DEF DoRestartServer, IdleGateOpens, Relaunch, peers, ClientSends,
       Tick
  <2>10. ASSUME NEW c \in Conn, ClientConnects(c) \/ ClientGone(c) PROVE Kept
    BY <2>10 DEF ClientConnects, ClientGone
  <2>11. QED
    BY <2>3, <2>4, <2>5, <2>6, <2>7, <2>8, <2>9, <2>10 DEF Next
<1>2. QED
  BY Invariance, <1>1, PTL DEF Spec, IncumbentProtected

(* With steady frames neither a newcomer, nor the stale timeout, nor the     *)
(* lease ends a client that keeps talking.                                  *)
THEOREM ServedLeftAlone == ASSUME SteadyFrames PROVE Spec => ServedIsLeftAlone
<1> QED
  BY IncumbentIsProtected, LeaseSparesServed, PTL DEF ServedIsLeftAlone

(* Of an editor whose settings were not saved since it came up: while a      *)
(* client is connected nothing counts, and otherwise the quit timer runs    *)
(* and fires within the grace.                                              *)
Bounded ==
  editor = "up" /\ applies = 0 =>
    IF isConnected THEN unserved = 0
    ELSE quitIn # Off /\ unserved + quitIn <= GraceTicks

LEMMA BoundedStep == ASSUME SteadyFrames, IInv, Bounded, [Next]_vars PROVE Bounded'
<1> USE AddonAssumption
<1>1. /\ isConnected \in BOOLEAN /\ applies \in Nat
      /\ quitIn \in 0..Off /\ unserved \in 0..GraceTicks + 1
      /\ isConnected => slot # NoConn
      /\ editor # "up" => slot = NoConn
  BY DEF IInv, TypeOK, OnePlace, Binding
<1>2. Off = GraceTicks + 1 /\ QuitTicks <= GraceTicks
  BY DEF Off
<1>3. CASE UNCHANGED <<editor, applies, lease>> /\ (isConnected' <=> isConnected)
  BY <1>3 DEF Bounded, lease
<1>4. CASE UNCHANGED <<editor, applies, unserved>> /\ isConnected /\ ~isConnected' /\ quitIn' = QuitTicks
  BY <1>1, <1>2, <1>4 DEF Bounded
<1>5. CASE UNCHANGED <<editor, applies>> /\ isConnected' /\ unserved' = 0
  BY <1>5 DEF Bounded
<1>6. ASSUME NEW c \in Conn, AcceptConnection(c) PROVE Bounded'
  <2>1. UNCHANGED <<editor, applies>>
    BY <1>6 DEF AcceptConnection, binding
  <2>2. \/ UNCHANGED <<isConnected, lease>>
        \/ ~isConnected' /\ IF isConnected THEN LeaseDisconnected ELSE UNCHANGED lease
    BY <1>6 DEF AcceptConnection
  <2> QED BY <1>1, <1>3, <1>4, <2>1, <2>2 DEF LeaseDisconnected
<1>7. CASE ProcessWebsocket
  <2>1. UNCHANGED <<editor, applies>>
    BY <1>7 DEF ProcessWebsocket, binding
  <2>2. CASE WebsocketOpen
    BY <1>1, <1>3, <1>5, <2>1, <2>2 DEF WebsocketOpen, LeaseConnected
  <2>3. CASE WebsocketClosed
    BY <1>1, <1>3, <1>4, <2>1, <2>3 DEF WebsocketClosed, LeaseDisconnected
  <2> QED BY <1>7, <2>2, <2>3 DEF ProcessWebsocket
<1>8. CASE DoRestartServer \/ IdleGateOpens \/ ProcessRejectingPeers
  BY <1>3, <1>8 DEF DoRestartServer, IdleGateOpens, ProcessRejectingPeers, binding
<1>9. ASSUME NEW addr \in Addr, ConfigApplied(addr) PROVE Bounded'
  BY <1>1, <1>9 DEF ConfigApplied, Bounded
<1>10. CASE LeaseQuit \/ ExitTree
  BY <1>10 DEF LeaseQuit, ExitTree, Bounded
<1>11. CASE Relaunch
  BY <1>1, <1>2, <1>11 DEF Relaunch, peers, Bounded
<1>12. ASSUME NEW c \in Conn,
              ClientConnects(c) \/ ClientUpgrades(c) \/ ClientCloses(c) \/ ClientGone(c)
       PROVE  Bounded'
  BY <1>3, <1>12 DEF ClientConnects, ClientUpgrades, ClientCloses, ClientGone, binding
<1>13. CASE ClientSends
  BY <1>3, <1>13 DEF ClientSends, binding
<1>14. CASE Tick
  <2>1. quitIn # 0 /\ UNCHANGED <<editor, applies, isConnected>>
    BY <1>14 DEF Tick, FramesDone, binding
  <2>2. /\ quitIn' = IF quitIn \in {0, Off} THEN quitIn ELSE quitIn - 1
        /\ unserved' = IF isConnected THEN 0 ELSE Least(unserved + 1, GraceTicks + 1)
    BY <1>14 DEF Tick
  <2> QED BY <1>1, <1>2, <2>1, <2>2 DEF Bounded, Least
<1>15. CASE UNCHANGED vars
  BY <1>3, <1>15 DEF vars, binding, peers
<1> QED BY <1>6, <1>7, <1>8, <1>9, <1>10, <1>11, <1>12, <1>13, <1>14, <1>15 DEF Next

(* An editor nobody uses does not linger (plugin.gd:680): with steady frames *)
(* and the settings left alone it quits within the grace, however clients   *)
(* come, fall silent and are turned away.                                   *)
THEOREM UnservedBounded == ASSUME SteadyFrames PROVE Spec => []UnservedIsBounded
<1>1. Init => Bounded
  BY AddonAssumption DEF Init, Bounded, Off
<1>2. IInv /\ Bounded => UnservedIsBounded
  BY AddonAssumption DEF IInv, TypeOK, Off, Bounded, UnservedIsBounded
<1>3. IInv /\ Bounded /\ [Next]_vars => Bounded'
  BY BoundedStep
<1> QED BY Invariance, <1>1, <1>2, <1>3, PTL DEF Spec
=============================================================================
