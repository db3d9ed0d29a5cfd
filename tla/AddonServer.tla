----------------------------- MODULE AddonServer -----------------------------
(***************************************************************************)
(* The editor's side of the bridge: MCPWebSocketServer (one client slot,    *)
(* newcomers turned away), the plugin that (re)binds it, and the lease that *)
(* makes an unserved editor quit (websocket_server.gd, plugin.gd,           *)
(* lease_controller.gd).                                                    *)
(*                                                                         *)
(* Everything runs on the editor's main thread.  A frame of _process() is   *)
(* three functions in a row, each an action here: nothing but the network   *)
(* comes between them, and whether a packet or a connection is seen in this *)
(* frame or the next is the network's choice anyway.  _do_restart_server()  *)
(* is a coroutine: on a cold start it awaits the idle gate and goes on with *)
(* the address it resolved before.                                          *)
(*                                                                         *)
(* Time is counted in ticks; the four delays of the code (5, 45, 120 and    *)
(* 300 s) are constants of which only the order matters.                   *)
(***************************************************************************)
EXTENDS Naturals

CONSTANTS
  Conn,          (* TCP connections; a dropped one stands for a fresh one    *)
  NoConn,        (* _ws_peer = null                                          *)
  Addr,          (* bind addresses the settings may resolve to               *)
  NoAddr,        (* _server = null                                           *)
  RejectTicks,   (* REJECT_TIMEOUT_MSEC                                      *)
  StaleTicks,    (* STALE_CONNECTION_TIMEOUT_MSEC                            *)
  QuitTicks,     (* LeaseController.QUIT_DELAY_SEC                           *)
  GraceTicks,    (* LeaseController.INITIAL_GRACE_SEC                        *)
  MaxApplies,    (* bound: how often the user saves the settings             *)
  SteadyFrames   (* the main thread is never blocked for a whole tick        *)

ASSUME AddonAssumption ==
  /\ NoConn \notin Conn /\ NoAddr \notin Addr
  /\ RejectTicks \in Nat /\ StaleTicks \in Nat
  /\ QuitTicks \in Nat \ {0} /\ GraceTicks \in Nat /\ QuitTicks <= GraceTicks
  /\ MaxApplies \in Nat /\ SteadyFrames \in BOOLEAN

VARIABLES
  editor,       (* "up", "quit" by the lease, or "gone" for another reason   *)
  listening,    (* the address _server listens on                            *)
  queue,        (* connections in the listener's backlog                     *)
  tcp,          (* every connection: none, up, or down (the peer is gone)    *)
  ready,        (* get_ready_state() of its WebSocketPeer                    *)
  slot,         (* the connection under _ws_peer                             *)
  isConnected,  (* _is_connected                                             *)
  quiet,        (* ticks since _last_activity_msec                           *)
  inbox,        (* packets of the slot's client wait to be read              *)
  heard,        (* history: ticks since the slot's client last sent anything; *)
                (* a lapse past StaleTicks counts until the addon noted it    *)
  rejecting,    (* _rejecting_peers                                          *)
  age,          (* ticks since since_msec of every rejecting peer            *)
  cfg,          (* the bind address the settings ask for                     *)
  applies,      (* how often they were saved                                 *)
  restartDue,   (* _restart_timer runs                                       *)
  coldPending,  (* _cold_start_pending                                       *)
  gate,         (* the address a suspended _do_restart_server() captured     *)
  quitIn,       (* ticks left on _lease_quit_timer, Off when stopped         *)
  unserved      (* history: ticks since a client was last connected          *)

peers == <<queue, tcp, ready, slot, isConnected, quiet, inbox, heard,
           rejecting, age>>
binding == <<cfg, applies, restartDue, coldPending, gate>>
lease == <<quitIn, unserved>>
vars == <<editor, listening, peers, binding, lease>>

Off == GraceTicks + 1
Least(a, b) == IF a <= b THEN a ELSE b

(* _enter_tree(): the first restart is due, the idle gate armed, the lease  *)
(* counts the initial grace.                                                *)
Init ==
  /\ editor = "up" /\ listening = NoAddr /\ queue = {}
  /\ tcp = [c \in Conn |-> "none"] /\ ready = [c \in Conn |-> "connecting"]
  /\ slot = NoConn /\ isConnected = FALSE
  /\ quiet = 0 /\ inbox = FALSE /\ heard = 0
  /\ rejecting = {} /\ age = [c \in Conn |-> 0]
  /\ cfg \in Addr /\ applies = 0
  /\ restartDue = TRUE /\ coldPending = TRUE /\ gate = NoAddr
  /\ quitIn = GraceTicks /\ unserved = 0

(* _is_stale_connection() of the connection in the slot.                    *)
IsStale == tcp[slot] = "down" \/ quiet > StaleTicks

(* A slip: a disconnect adds to a timer that still runs.                    *)
LeaseDisconnectedAdds == quitIn' = quitIn + QuitTicks /\ UNCHANGED unserved

(* Lease decisions: on_client_connected() and on_client_disconnected().      *)
LeaseConnected    == quitIn' = Off /\ unserved' = 0
LeaseDisconnected == quitIn' = QuitTicks /\ UNCHANGED unserved
-----------------------------------------------------------------------------
(* The slot's new owner after _accept_connection().                         *)
Install(c) ==
  /\ slot' = c
  /\ ready' = [ready EXCEPT ![c] = "connecting"]
  /\ quiet' = 0 /\ heard' = 0 /\ inbox' = FALSE
  /\ UNCHANGED <<rejecting, age>>

(* A slip: the newest client always wins (the behaviour before the          *)
(* incumbent was protected).                                                *)
AcceptConnectionTakesOver(c) ==
  /\ listening # NoAddr
  /\ c \in queue
  /\ queue' = queue \ {c}
  /\ Install(c)
  /\ tcp' = IF slot = NoConn THEN tcp ELSE [tcp EXCEPT ![slot] = "none"]
  /\ isConnected' = FALSE
  /\ quitIn' = IF isConnected THEN QuitTicks ELSE quitIn
  /\ UNCHANGED <<editor, listening, binding, unserved>>

(* _accept_connection(): a free slot is given away, a stale incumbent is    *)
(* force-closed and replaced, a live one is protected and the newcomer is   *)
(* kept aside to be handed a 4001 close.                                    *)
AcceptConnection(c) ==
  /\ listening # NoAddr
  /\ c \in queue
  /\ queue' = queue \ {c}
  /\ \/ /\ slot = NoConn
        /\ Install(c)
        /\ UNCHANGED <<tcp, isConnected, lease>>
     \/ /\ slot # NoConn /\ IsStale
        /\ Install(c)
        /\ tcp' = [tcp EXCEPT ![slot] = "none"]
        /\ isConnected' = FALSE
        /\ IF isConnected THEN LeaseDisconnected ELSE UNCHANGED lease
     \/ /\ slot # NoConn /\ ~IsStale
        /\ rejecting' = rejecting \cup {c}
        /\ age' = [age EXCEPT ![c] = 0]
        /\ ready' = [ready EXCEPT ![c] = "connecting"]
        /\ UNCHANGED <<tcp, slot, isConnected, quiet, inbox, heard, lease>>
  /\ UNCHANGED <<editor, listening, binding>>

(* A slip: a handshaken client is served without cancelling the quit.       *)
WebsocketOpenKeepsLease ==
  /\ ready[slot] = "open" /\ tcp[slot] = "up" /\ ~isConnected
  /\ isConnected' = TRUE /\ unserved' = 0
  /\ quiet' = 0 /\ heard' = 0 /\ inbox' = FALSE
  /\ UNCHANGED <<tcp, ready, slot, quitIn>>

(* A slip: only a newcomer ever looks whether the client is stale.          *)
WebsocketOpenNeverStale ==
  /\ ready[slot] = "open" /\ tcp[slot] = "up"
  /\ ~isConnected \/ inbox
  /\ isConnected' = TRUE
  /\ IF isConnected THEN UNCHANGED <<lease, heard>>
                    ELSE LeaseConnected /\ heard' = 0
  /\ quiet' = 0 /\ inbox' = FALSE
  /\ UNCHANGED <<tcp, ready, slot>>

(* _process_websocket() in STATE_OPEN: a first sight connects, a silent     *)
(* client is closed with 4002, and only then are its packets read.          *)
WebsocketOpen ==
  /\ ready[slot] = "open" /\ tcp[slot] = "up"
  /\ ~isConnected \/ quiet > StaleTicks \/ inbox
  /\ isConnected' = TRUE
  /\ IF isConnected THEN UNCHANGED <<lease, heard>>
                    ELSE LeaseConnected /\ heard' = 0
  /\ IF isConnected /\ quiet > StaleTicks
     THEN /\ ready' = [ready EXCEPT ![slot] = "closing"]
          /\ UNCHANGED <<quiet, inbox>>
     ELSE /\ quiet' = 0 /\ inbox' = FALSE
          /\ UNCHANGED ready
  /\ UNCHANGED <<tcp, slot>>

(* A slip: the peer is dropped without the disconnected signal.             *)
WebsocketClosedSilent ==
  /\ ready[slot] = "closed" \/ tcp[slot] = "down"
  /\ isConnected' = FALSE
  /\ slot' = NoConn
  /\ tcp' = [tcp EXCEPT ![slot] = "none"]
  /\ inbox' = FALSE
  /\ UNCHANGED <<ready, quiet, heard, lease>>

(* ... in STATE_CLOSED, which poll() also enters when the peer is gone.      *)
WebsocketClosed ==
  /\ ready[slot] = "closed" \/ tcp[slot] = "down"
  /\ isConnected' = FALSE
  /\ IF isConnected THEN LeaseDisconnected ELSE UNCHANGED lease
  /\ slot' = NoConn
  /\ tcp' = [tcp EXCEPT ![slot] = "none"]
  /\ inbox' = FALSE
  /\ UNCHANGED <<ready, quiet, heard>>

ProcessWebsocket ==
  /\ listening # NoAddr /\ slot # NoConn
  /\ WebsocketOpen \/ WebsocketClosed
  /\ UNCHANGED <<editor, listening, queue, rejecting, age, binding>>

(* _process_rejecting_peers(): who is past the cap, closed or gone is       *)
(* dropped, who has upgraded is sent the 4001 close.                        *)
Expired(c) == age[c] > RejectTicks

(* A slip: the cap is only looked at once the newcomer has upgraded.        *)
DroppedPeersUpgraded ==
  {c \in rejecting : \/ ready[c] \in {"open", "closed"} /\ Expired(c)
                     \/ ready[c] = "closed" \/ tcp[c] = "down"}

DroppedPeers ==
  {c \in rejecting : Expired(c) \/ ready[c] = "closed" \/ tcp[c] = "down"}

ProcessRejectingPeers ==
  /\ listening # NoAddr
  /\ \E c \in rejecting : c \in DroppedPeers \/ ready[c] = "open"
  /\ rejecting' = rejecting \ DroppedPeers
  /\ tcp' = [c \in Conn |-> IF c \in DroppedPeers THEN "none" ELSE tcp[c]]
  /\ ready' = [c \in Conn |-> IF c \in rejecting' /\ ready[c] = "open"
                              THEN "closing" ELSE ready[c]]
  /\ UNCHANGED <<editor, listening, queue, slot, isConnected, quiet, inbox,
                 heard, age, binding, lease>>
-----------------------------------------------------------------------------
(* A slip: stop_server() forgets the peers being turned away.               *)
StopServerKeepsRejects ==
  /\ listening' = NoAddr
  /\ queue' = {} /\ slot' = NoConn
  /\ isConnected' = FALSE /\ inbox' = FALSE
  /\ quiet' = 0 /\ heard' = 0
  /\ tcp' = [c \in Conn |-> "none"]
  /\ UNCHANGED <<ready, age, rejecting>>

(* stop_server(): everything is closed, and no signal is emitted.           *)
StopServer ==
  /\ listening' = NoAddr
  /\ queue' = {} /\ rejecting' = {}
  /\ slot' = NoConn
  /\ isConnected' = FALSE
  /\ inbox' = FALSE
  /\ quiet' = 0 /\ heard' = 0
  /\ tcp' = [c \in Conn |-> "none"]
  /\ UNCHANGED <<ready, age>>

(* _on_config_applied(), the settings panel's save: _restart_server().       *)
ConfigApplied(addr) ==
  /\ editor = "up" /\ applies < MaxApplies
  /\ cfg' = addr
  /\ applies' = applies + 1
  /\ StopServer
  /\ restartDue' = TRUE
  /\ UNCHANGED <<editor, coldPending, gate, lease>>

(* start_server(): a fresh listener, or none when the address is taken; the  *)
(* old listener and its backlog go, the client in the slot stays.           *)
StartServer(addr) ==
  /\ listening' \in {addr, NoAddr}
  /\ queue' = {}
  /\ tcp' = [c \in Conn |-> IF c \in queue THEN "none" ELSE tcp[c]]

(* _do_restart_server() up to the idle gate: an address that is not local   *)
(* is refused, a cold start waits, any other start binds.                   *)
DoRestartServer ==
  /\ editor = "up" /\ restartDue
  /\ restartDue' = FALSE
  /\ \/ UNCHANGED <<listening, queue, tcp, coldPending, gate>>
     \/ /\ coldPending
        /\ coldPending' = FALSE /\ gate' = cfg
        /\ UNCHANGED <<listening, queue, tcp>>
     \/ /\ ~coldPending
        /\ StartServer(cfg)
        /\ UNCHANGED <<coldPending, gate>>
  /\ UNCHANGED <<editor, ready, slot, isConnected, quiet, inbox, heard,
                 rejecting, age, cfg, applies, lease>>

(* _do_restart_server() after the idle gate.                                *)
IdleGateOpens ==
  /\ editor = "up" /\ gate # NoAddr
  /\ StartServer(gate)
  /\ gate' = NoAddr
  /\ UNCHANGED <<editor, ready, slot, isConnected, quiet, inbox, heard,
                 rejecting, age, cfg, applies, restartDue, coldPending, lease>>
-----------------------------------------------------------------------------
(* _on_lease_quit(): the quit timer fires.                                  *)
LeaseQuit ==
  /\ editor = "up" /\ quitIn = 0
  /\ editor' = "quit"
  /\ StopServer
  /\ quitIn' = Off
  /\ restartDue' = FALSE /\ gate' = NoAddr
  /\ UNCHANGED <<cfg, applies, coldPending, unserved>>

(* _exit_tree() for any other reason: the user quits, restart_editor(), a   *)
(* crash.                                                                   *)
ExitTree ==
  /\ editor = "up"
  /\ editor' = "gone"
  /\ StopServer
  /\ quitIn' = Off
  /\ restartDue' = FALSE /\ gate' = NoAddr
  /\ UNCHANGED <<cfg, applies, coldPending, unserved>>

(* The launcher starts the editor again: _enter_tree(), with the settings   *)
(* as they were saved.                                                      *)
Relaunch ==
  /\ editor # "up"
  /\ editor' = "up"
  /\ restartDue' = TRUE /\ coldPending' = TRUE
  /\ quitIn' = GraceTicks /\ unserved' = 0
  /\ applies' = 0
  /\ UNCHANGED <<listening, peers, cfg, gate>>
-----------------------------------------------------------------------------
(* The network and the clients.                                             *)
ClientConnects(c) ==
  /\ listening # NoAddr /\ tcp[c] = "none"
  /\ tcp' = [tcp EXCEPT ![c] = "up"]
  /\ queue' = queue \cup {c}
  /\ UNCHANGED <<editor, listening, ready, slot, isConnected, quiet, inbox,
                 heard, rejecting, age, binding, lease>>

(* The HTTP upgrade of an accepted connection completes in poll().           *)
ClientUpgrades(c) ==
  /\ listening # NoAddr
  /\ c = slot \/ c \in rejecting
  /\ tcp[c] = "up" /\ ready[c] = "connecting"
  /\ ready' = [ready EXCEPT ![c] = "open"]
  /\ UNCHANGED <<editor, listening, queue, tcp, slot, isConnected, quiet,
                 inbox, heard, rejecting, age, binding, lease>>

(* A command or a heartbeat of the slot's client reaches the editor's host. *)
ClientSends ==
  /\ slot # NoConn /\ tcp[slot] = "up" /\ ready[slot] = "open"
  /\ inbox' = TRUE
  /\ heard' = IF heard > StaleTicks THEN heard ELSE 0
  /\ UNCHANGED <<editor, listening, queue, tcp, ready, slot, isConnected,
                 quiet, rejecting, age, binding, lease>>

(* The client answers a close frame.                                        *)
ClientCloses(c) ==
  /\ c = slot \/ c \in rejecting
  /\ tcp[c] = "up" /\ ready[c] = "closing"
  /\ ready' = [ready EXCEPT ![c] = "closed"]
  /\ UNCHANGED <<editor, listening, queue, tcp, slot, isConnected, quiet,
                 inbox, heard, rejecting, age, binding, lease>>

(* The client closes or dies and its TCP connection with it.                *)
ClientGone(c) ==
  /\ tcp[c] = "up"
  /\ tcp' = [tcp EXCEPT ![c] = "down"]
  /\ UNCHANGED <<editor, listening, queue, ready, slot, isConnected, quiet,
                 inbox, heard, rejecting, age, binding, lease>>

(* What the frames of one tick leave undone: nothing.                       *)
FramesDone ==
  /\ quitIn # 0 /\ ~restartDue
  /\ listening # NoAddr =>
       /\ queue = {}
       /\ slot # NoConn =>
            /\ tcp[slot] = "up" /\ ready[slot] # "closed" /\ ~inbox
            /\ ready[slot] = "open" => isConnected /\ quiet <= StaleTicks
       /\ \A c \in rejecting : /\ ~Expired(c) /\ tcp[c] = "up"
                               /\ ready[c] \in {"connecting", "closing"}

Tick ==
  /\ editor = "up"
  /\ SteadyFrames => FramesDone
  /\ quiet' = IF slot = NoConn THEN quiet ELSE Least(quiet + 1, StaleTicks + 1)
  /\ heard' = IF slot = NoConn THEN heard ELSE Least(heard + 1, StaleTicks + 1)
  /\ age' = [c \in Conn |-> IF c \in rejecting
                            THEN Least(age[c] + 1, RejectTicks + 1) ELSE age[c]]
  /\ quitIn' = IF quitIn \in {0, Off} THEN quitIn ELSE quitIn - 1
  /\ unserved' = IF isConnected THEN 0 ELSE Least(unserved + 1, GraceTicks + 1)
  /\ UNCHANGED <<editor, listening, queue, tcp, ready, slot, isConnected,
                 inbox, rejecting, binding>>

Next ==
  \/ \E c \in Conn : AcceptConnection(c)
  \/ ProcessWebsocket \/ ProcessRejectingPeers
  \/ \E addr \in Addr : ConfigApplied(addr)
  \/ DoRestartServer \/ IdleGateOpens \/ LeaseQuit \/ ExitTree \/ Relaunch
  \/ \E c \in Conn : \/ ClientConnects(c) \/ ClientUpgrades(c)
                     \/ ClientCloses(c) \/ ClientGone(c)
  \/ ClientSends \/ Tick

Spec == Init /\ [][Next]_vars

(* Frames run, time passes whatever newcomers do in between, timers fire  *)
(* and the idle gate is bounded; TCP retransmission gives up on a peer that  *)
(* never answers a close frame.  Nothing else is assumed of clients.        *)
Fairness ==
  /\ WF_vars(\E c \in Conn : AcceptConnection(c))
  /\ WF_vars(ProcessWebsocket) /\ WF_vars(ProcessRejectingPeers)
  /\ SF_vars(Tick) /\ WF_vars(DoRestartServer) /\ WF_vars(IdleGateOpens)
  /\ WF_vars(LeaseQuit)
  /\ \A c \in Conn : WF_vars(ready[c] = "closing" /\ ClientGone(c))

FairSpec == Spec /\ Fairness
-----------------------------------------------------------------------------
TypeOK ==
  /\ editor \in {"up", "quit", "gone"}
  /\ listening \in Addr \cup {NoAddr}
  /\ queue \in SUBSET Conn /\ rejecting \in SUBSET Conn
  /\ tcp \in [Conn -> {"none", "up", "down"}]
  /\ ready \in [Conn -> {"connecting", "open", "closing", "closed"}]
  /\ slot \in Conn \cup {NoConn}
  /\ isConnected \in BOOLEAN /\ inbox \in BOOLEAN
  /\ quiet \in 0..StaleTicks + 1 /\ heard \in 0..StaleTicks + 1
  /\ age \in [Conn -> 0..RejectTicks + 1]
  /\ cfg \in Addr /\ gate \in Addr \cup {NoAddr}
  /\ applies \in 0..MaxApplies
  /\ restartDue \in BOOLEAN /\ coldPending \in BOOLEAN
  /\ quitIn \in 0..Off /\ unserved \in 0..GraceTicks + 1

(* A connection the addon holds is in exactly one place, and it is a real    *)
(* one: the slot's peer is never also being turned away or still queued,    *)
(* and nothing already dropped is kept (_accept_connection and the three    *)
(* ways a peer leaves).                                                     *)
OnePlace ==
  /\ slot \notin queue \cup rejecting
  /\ queue \cap rejecting = {}
  /\ \A c \in Conn : tcp[c] # "none" => c \in queue \cup rejecting \cup {slot}
  /\ \A c \in queue \cup rejecting : tcp[c] # "none"
  /\ slot # NoConn => tcp[slot] # "none"
  /\ isConnected => slot # NoConn

(* A live client keeps the bridge: whoever holds the slot, has its TCP up    *)
(* and sent something within the stale timeout is neither displaced by a    *)
(* newcomer nor closed as stale; only a rebind or the editor's exit ends it  *)
(* (websocket_server.gd:117, "Protect the incumbent").                      *)
IncumbentProtected ==
  [][(/\ slot # NoConn /\ tcp[slot] = "up" /\ heard <= StaleTicks
      /\ ready[slot] \in {"connecting", "open"})
     => \/ slot' = slot /\ ready'[slot] \in {"connecting", "open"}
        \/ listening' = NoAddr]_vars

(* The lease never shuts down an editor in use: it quits only when no client *)
(* has been connected for the whole quit delay, however connects and        *)
(* disconnects interleave with its one timer.                               *)
QuitOnlyWhenUnserved ==
  [][(editor = "up" /\ editor' = "quit")
       => ~isConnected /\ unserved >= QuitTicks]_vars

(* A client in use is left alone by newcomers, timeouts and the lease.      *)
ServedIsLeftAlone == IncumbentProtected /\ QuitOnlyWhenUnserved

(* "The editor self-exits when no MCP client has been connected for the      *)
(* grace window" (plugin.gd:680): an editor nobody uses does not linger.    *)
(* Only without a rebind, which drops the client and tells the lease        *)
(* nothing, so that no quit timer runs.                                     *)
UnservedIsBounded == editor = "up" /\ applies = 0 => unserved <= GraceTicks

(* What the server listens on is what the settings ask for ("Debounce: stop  *)
(* any pending restart", plugin.gd:426).                                    *)
BoundToLatestConfig == listening \in {cfg, NoAddr}

(* A connected client that falls silent, half-open or crashed, is let go of *)
(* in the end, newcomer or not ("a crashed client can never permanently     *)
(* block reconnection"), while the server runs: a bind that failed stops    *)
(* the work of every frame.                                                *)
SilentClientReleased ==
  []<>(~isConnected \/ heard <= StaleTicks \/ listening = NoAddr)

(* Every newcomer that is turned away is let go of, whether it upgrades,     *)
(* answers the close frame or just sits there (the reject cap).             *)
EveryRejectEnds ==
  \A c \in Conn : c \in rejecting ~> (c \notin rejecting \/ listening = NoAddr)

(* No connection stays for ever that nobody uses.                           *)
ConnectionsEnd == SilentClientReleased /\ EveryRejectEnds
=============================================================================
