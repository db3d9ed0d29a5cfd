--------------------------- MODULE GodotConnection ---------------------------
(***************************************************************************)
(* The WebSocket client of the npx server: class GodotConnection of         *)
(* server/src/connection/websocket.ts.  One object owns the current socket  *)
(* `ws`, the map of pending requests, the reconnect, ping and pong timers,  *)
(* and the diagnostics (`state`, `reason`, the two retry counters).         *)
(*                                                                         *)
(* The interesting part is that the callbacks of a socket run as separate  *)
(* tasks and that the `open` callback is asynchronous: it awaits the        *)
(* handshake, so the rest of it runs after any task that settles the        *)
(* handshake, a `close` callback included.  `hs[s]` is where the open       *)
(* callback of socket s stands; "ok" and "err" mean that the awaited        *)
(* promise is settled and the continuation is a queued microtask, which    *)
(* runs before the next task (Quiet guards every task).                     *)
(*                                                                         *)
(* The addon and the network are the environment: they may open, answer,   *)
(* refuse, or close at any moment with any of the addon's close codes.     *)
(***************************************************************************)
EXTENDS Naturals

CONSTANTS
  Sock,      (* WebSocket objects; a closed one stands for a fresh one again *)
  Req,       (* commands a tool may have in flight                          *)
  NoSock,    (* ws = null                                                   *)
  NDelays    (* RECONNECT_DELAYS.length                                     *)

ASSUME ConnAssumption == /\ NoSock \notin Sock
                         /\ NDelays \in Nat \ {0}

VARIABLES
  ws,          (* this.ws                                                   *)
  sock,        (* readyState of every socket                                *)
  hs,          (* where the open callback of every socket stands            *)
  handshake,   (* this.handshakeResult                                      *)
  state,       (* this.currentState                                         *)
  reason,      (* this.lastDisconnectReason                                 *)
  rejections,  (* this.rejectionCount, capped at NDelays                    *)
  attempt,     (* this.reconnectAttempt, capped at NDelays                  *)
  timer,       (* this.reconnectTimeout: the delay index, or NoTimer        *)
  pinging,     (* this.pingInterval is set                                  *)
  pongDue,     (* this.pongTimeout is running                               *)
  heartbeat,   (* this.heartbeatPending: a heartbeat command is in flight   *)
  isClosing,   (* this.isClosing                                            *)
  req,         (* every command: idle, pending or how its promise settled   *)
  cause,       (* history: how the socket under the command really closed   *)
  announced    (* history: the last of the events connected / disconnected  *)

vars == <<ws, sock, hs, handshake, state, reason, rejections, attempt, timer,
          pinging, pongDue, heartbeat, isClosing, req, cause, announced>>

NoTimer == NDelays
States  == {"disconnected", "connecting", "reconnecting", "connected"}
Reasons == {"never_connected", "rejected_another_client",
            "replaced_by_new_client", "connection_refused",
            "connection_lost", "closed_normally", "error"}
CloseCodes == {"CLOSED_BY_CLIENT", "CONNECTION_LOST", "REPLACED_BY_NEW_CLIENT",
               "REJECTED_ANOTHER_CLIENT", "STALE_CLOSED_BY_SERVER",
               "CONNECTION_REFUSED", "CLOSE_UNKNOWN"}
(* How a socket closes: 4001, 4003, 4002, or any code that is none of them. *)
CloseKinds  == {"rejected", "replaced", "stale", "lost"}
SocketStates == {"closed", "connecting", "open", "closing"}

Init ==
  /\ ws = NoSock
  /\ sock = [s \in Sock |-> "closed"]
  /\ hs = [s \in Sock |-> "none"]
  /\ handshake = "none"
  /\ state = "disconnected"
  /\ reason = "never_connected"
  /\ rejections = 0
  /\ attempt = 0
  /\ timer = NoTimer
  /\ pinging = FALSE
  /\ pongDue = FALSE
  /\ heartbeat = FALSE
  /\ isClosing = FALSE
  /\ req = [r \in Req |-> "idle"]
  /\ cause = [r \in Req |-> "none"]
  /\ announced = "none"

Least(a, b) == IF a <= b THEN a ELSE b

IsConnected == ws # NoSock /\ sock[ws] = "open"

(* No microtask is queued: the next task may run.                           *)
Quiet == \A s \in Sock : hs[s] \notin {"ok", "err"}

Live(s) == sock[s] # "closed"
-----------------------------------------------------------------------------
(* A slip: connect() trusts currentState instead of readyState.             *)
OpenSocketTrustsState ==
  IF state = "connected"
  THEN UNCHANGED <<ws, sock, hs, state, isClosing>>
  ELSE \E s \in Sock : /\ ~Live(s)
                        /\ ws' = s
                        /\ sock' = [sock EXCEPT ![s] = "connecting"]
                        /\ hs' = [hs EXCEPT ![s] = "none"]
                        /\ isClosing' = FALSE /\ state' = "connecting"

(* connect(): a new socket becomes `ws`, unless one is connected already.    *)
OpenSocket ==
  IF IsConnected
  THEN UNCHANGED <<ws, sock, hs, state, isClosing>>
  ELSE \E s \in Sock :
         /\ ~Live(s)
         /\ ws' = s
         /\ sock' = [sock EXCEPT ![s] = "connecting"]
         /\ hs' = [hs EXCEPT ![s] = "none"]
         /\ isClosing' = FALSE
         /\ state' = IF attempt > 0 THEN "reconnecting" ELSE "connecting"

(* initializeConnection() calls connect() once, at start-up.                *)
Connect ==
  /\ Quiet
  /\ state = "disconnected" /\ announced = "none" /\ ~isClosing
  /\ reason = "never_connected" /\ timer = NoTimer
  /\ OpenSocket
  /\ UNCHANGED <<handshake, reason, rejections, attempt, timer, pinging,
                 pongDue, heartbeat, req, cause, announced>>

(* The delay of scheduleReconnect() elapses.                                *)
ReconnectTimer ==
  /\ Quiet
  /\ timer # NoTimer
  /\ timer' = NoTimer
  /\ OpenSocket
  /\ UNCHANGED <<handshake, reason, rejections, attempt, pinging, pongDue,
                 heartbeat, req, cause, announced>>

(* ws.on('open'), up to the await: the retry counter is reset, the ping     *)
(* interval restarted and the handshake sent.                               *)
OnOpen(s) ==
  /\ Quiet
  /\ sock[s] = "connecting"
  /\ sock' = [sock EXCEPT ![s] = "open"]
  /\ hs' = [hs EXCEPT ![s] = "await"]
  /\ attempt' = 0
  /\ pinging' = TRUE
  /\ pongDue' = FALSE
  /\ UNCHANGED <<ws, handshake, state, reason, rejections, timer, heartbeat,
                 isClosing, req, cause, announced>>

(* handleMessage() with the handshake's id: a success stores the metadata,  *)
(* an error or malformed response only rejects the promise.                 *)
HandshakeReply(s) ==
  /\ Quiet
  /\ sock[s] = "open" /\ hs[s] = "await"
  /\ \/ /\ hs' = [hs EXCEPT ![s] = "ok"]
        /\ handshake' = "success"
     \/ /\ hs' = [hs EXCEPT ![s] = "err"]
        /\ UNCHANGED handshake
  /\ UNCHANGED <<ws, sock, state, reason, rejections, attempt, timer, pinging,
                 pongDue, heartbeat, isClosing, req, cause, announced>>

HandshakeTimeout(s) ==
  /\ Quiet
  /\ hs[s] = "await"
  /\ hs' = [hs EXCEPT ![s] = "err"]
  /\ handshake' = "timeout"
  /\ UNCHANGED <<ws, sock, state, reason, rejections, attempt, timer, pinging,
                 pongDue, heartbeat, isClosing, req, cause, announced>>

(* The rest of ws.on('open'): whatever became of the handshake, the         *)
(* connection is declared connected.                                        *)
OpenContinues(s) ==
  /\ hs[s] \in {"ok", "err"}
  /\ hs' = [hs EXCEPT ![s] = "done"]
  /\ state' = "connected"
  /\ announced' = "connected"
  /\ UNCHANGED <<ws, sock, handshake, reason, rejections, attempt, timer,
                 pinging, pongDue, heartbeat, isClosing, req, cause>>
-----------------------------------------------------------------------------
(* A slip: cleanup() without the reject-all.                                *)
CleanupKeepsPending(code, how) ==
  /\ pinging' = FALSE /\ pongDue' = FALSE
  /\ handshake' = "none" /\ heartbeat' = FALSE
  /\ hs' = [s \in Sock |-> IF hs[s] = "await" THEN "err" ELSE hs[s]]
  /\ UNCHANGED <<req, cause>>

(* cleanup(): stops the timers, drops the metadata and rejects everything   *)
(* pending, an awaited handshake included, with one typed close code.       *)
Cleanup(code, how) ==
  /\ pinging' = FALSE
  /\ pongDue' = FALSE
  /\ handshake' = "none"
  /\ heartbeat' = FALSE
  /\ hs' = [s \in Sock |-> IF hs[s] = "await" THEN "err" ELSE hs[s]]
  /\ req' = [r \in Req |-> IF req[r] = "pending" THEN code ELSE req[r]]
  /\ cause' = [r \in Req |-> IF req[r] = "pending" THEN how ELSE cause[r]]

(* A slip: 4002 and 4003 are told apart by the reason alone.                *)
CloseCodeOfMerged(kind, before) ==
  IF kind = "rejected" THEN "REJECTED_ANOTHER_CLIENT"
  ELSE IF kind \in {"replaced", "stale"} THEN "REPLACED_BY_NEW_CLIENT"
  ELSE IF state = "connected" THEN "CONNECTION_LOST" ELSE "CLOSE_UNKNOWN"

(* The typed code and the recorded reason of a close; `before` is the       *)
(* reason an 'error' event may just have recorded.                          *)
CloseCodeOf(kind, before) ==
  CASE kind = "rejected" -> "REJECTED_ANOTHER_CLIENT"
    [] kind = "replaced" -> "REPLACED_BY_NEW_CLIENT"
    [] kind = "stale"    -> "STALE_CLOSED_BY_SERVER"
    [] kind = "lost" /\ state = "connected" -> "CONNECTION_LOST"
    [] kind = "lost" /\ state # "connected" /\ before = "never_connected"
         -> "CONNECTION_REFUSED"
    [] OTHER -> "CLOSE_UNKNOWN"

CloseReasonOf(kind, before) ==
  CASE kind = "rejected" -> "rejected_another_client"
    [] kind = "replaced" -> "replaced_by_new_client"
    [] kind = "stale"    -> "connection_lost"
    [] kind = "lost" /\ state = "connected" -> "connection_lost"
    [] kind = "lost" /\ state # "connected" /\ before = "never_connected"
         -> "connection_refused"
    [] OTHER -> before

(* A slip: a rejection relies on the counter the open callback reset.       *)
RetryBaseFlat(kind) == attempt

(* After a rejection the retry counter follows the number of rejections.    *)
RetryBase(kind) ==
  IF kind = "rejected" THEN Least(rejections, NDelays - 1) ELSE attempt

(* Slips: the index into the delay table is not clamped; a client that was   *)
(* turned away or replaced gives up.                                        *)
ScheduleReconnectUnclamped(base) ==
  IF isClosing THEN timer' = NoTimer /\ attempt' = base
               ELSE timer' = base /\ attempt' = base + 1

ScheduleReconnectLatches(base) ==
  IF isClosing \/ reason' = "replaced_by_new_client"
  THEN timer' = NoTimer /\ attempt' = base
  ELSE timer' = Least(base, NDelays - 1) /\ attempt' = Least(base + 1, NDelays)

(* scheduleReconnect(), called right after cleanup() cleared the old timer. *)
ScheduleReconnect(base) ==
  IF isClosing
  THEN timer' = NoTimer /\ attempt' = base
  ELSE timer' = Least(base, NDelays - 1) /\ attempt' = Least(base + 1, NDelays)

(* ws.on('close'), with the 'error' event that may precede it.  A socket    *)
(* that never opened fails with an error and no close code of the addon.    *)
OnClose(s, kind) ==
  /\ Quiet
  /\ Live(s)
  /\ kind # "lost" => sock[s] # "connecting"
  /\ sock' = [sock EXCEPT ![s] = "closed"]
  /\ state' = "disconnected"
  /\ \E before \in IF sock[s] = "connecting"
                   THEN {"connection_refused", "error"}
                   ELSE {reason, "error"} :
       /\ reason' = CloseReasonOf(kind, before)
       /\ Cleanup(CloseCodeOf(kind, before), kind)
  /\ rejections' = IF kind = "rejected"
                   THEN Least(rejections + 1, NDelays) ELSE rejections
  /\ announced' = "disconnected"
  /\ ScheduleReconnect(RetryBase(kind))
  /\ UNCHANGED <<ws, isClosing>>

(* A close frame of the addon arrived; the close callback runs later.        *)
CloseFrame(s) ==
  /\ Quiet
  /\ sock[s] = "open"
  /\ sock' = [sock EXCEPT ![s] = "closing"]
  /\ UNCHANGED <<ws, hs, handshake, state, reason, rejections, attempt, timer,
                 pinging, pongDue, heartbeat, isClosing, req, cause, announced>>

(* disconnect(), called by the graceful shutdown.                           *)
Disconnect ==
  /\ Quiet
  /\ ~isClosing
  /\ isClosing' = TRUE
  /\ reason' = "closed_normally"
  /\ state' = "disconnected"
  /\ Cleanup("CLOSED_BY_CLIENT", "local")
  /\ timer' = NoTimer
  /\ sock' = [s \in Sock |-> IF s = ws /\ Live(s) THEN "closing" ELSE sock[s]]
  /\ ws' = NoSock
  /\ UNCHANGED <<rejections, attempt, announced>>
-----------------------------------------------------------------------------
(* sendCommand(): fails at once unless the socket is open.                  *)
SendCommand(r) ==
  /\ Quiet
  /\ req[r] = "idle"
  /\ req' = [req EXCEPT ![r] = IF IsConnected THEN "pending" ELSE "unsent"]
  /\ UNCHANGED <<ws, sock, hs, handshake, state, reason, rejections, attempt,
                 timer, pinging, pongDue, heartbeat, isClosing, cause,
                 announced>>

(* handleMessage() with the id of a pending command: success, an error of   *)
(* the addon, or a malformed response.  The addon answers on whatever       *)
(* socket it holds now, so any open socket may bring it.                    *)
OnMessage(r) ==
  /\ Quiet
  /\ \E s \in Sock : sock[s] = "open"
  /\ req[r] = "pending"
  /\ \E how \in {"resolved", "command_error", "malformed"} :
       req' = [req EXCEPT ![r] = how]
  /\ UNCHANGED <<ws, sock, hs, handshake, state, reason, rejections, attempt,
                 timer, pinging, pongDue, heartbeat, isClosing, cause,
                 announced>>

(* A slip: the timeout is armed only once the handshake succeeded.          *)
RequestTimeoutUnarmed(r) ==
  /\ Quiet
  /\ req[r] = "pending" /\ handshake = "success"
  /\ req' = [req EXCEPT ![r] = "timeout"]
  /\ UNCHANGED <<ws, sock, hs, handshake, state, reason, rejections, attempt,
                 timer, pinging, pongDue, heartbeat, isClosing, cause,
                 announced>>

(* The timeout of sendCommand().                                            *)
RequestTimeout(r) ==
  /\ Quiet
  /\ req[r] = "pending"
  /\ req' = [req EXCEPT ![r] = "timeout"]
  /\ UNCHANGED <<ws, sock, hs, handshake, state, reason, rejections, attempt,
                 timer, pinging, pongDue, heartbeat, isClosing, cause,
                 announced>>

(* The tool consumed the outcome; the slot stands for a new command.        *)
Forget(r) ==
  /\ req[r] \notin {"idle", "pending"}
  /\ req' = [req EXCEPT ![r] = "idle"]
  /\ cause' = [cause EXCEPT ![r] = "none"]
  /\ UNCHANGED <<ws, sock, hs, handshake, state, reason, rejections, attempt,
                 timer, pinging, pongDue, heartbeat, isClosing, announced>>
-----------------------------------------------------------------------------
(* The ping interval fires: a ping, its pong timeout and a heartbeat.       *)
PingInterval ==
  /\ Quiet
  /\ pinging /\ IsConnected
  /\ pongDue' = TRUE
  /\ heartbeat' = TRUE
  /\ UNCHANGED <<ws, sock, hs, handshake, state, reason, rejections, attempt,
                 timer, pinging, isClosing, req, cause, announced>>

OnPong ==
  /\ Quiet
  /\ pongDue /\ \E s \in Sock : sock[s] = "open"
  /\ pongDue' = FALSE
  /\ UNCHANGED <<ws, sock, hs, handshake, state, reason, rejections, attempt,
                 timer, pinging, heartbeat, isClosing, req, cause, announced>>

(* A slip: the pong timeout reconnects without waiting for the close.       *)
PongTimeoutReconnects ==
  /\ Quiet
  /\ pongDue /\ pongDue' = FALSE
  /\ sock' = [s \in Sock |-> IF s = ws /\ Live(s) THEN "closing" ELSE sock[s]]
  /\ timer' = Least(attempt, NDelays - 1)
  /\ UNCHANGED <<ws, hs, handshake, state, reason, rejections, attempt,
                 pinging, heartbeat, isClosing, req, cause, announced>>

(* No pong in time: the current socket is terminated, its close callback    *)
(* runs later.                                                              *)
PongTimeout ==
  /\ Quiet
  /\ pongDue
  /\ pongDue' = FALSE
  /\ sock' = [s \in Sock |-> IF s = ws /\ Live(s) THEN "closing" ELSE sock[s]]
  /\ UNCHANGED <<ws, hs, handshake, state, reason, rejections, attempt, timer,
                 pinging, heartbeat, isClosing, req, cause, announced>>

(* The heartbeat command is answered or times out.                          *)
HeartbeatSettled ==
  /\ Quiet
  /\ heartbeat
  /\ heartbeat' = FALSE
  /\ UNCHANGED <<ws, sock, hs, handshake, state, reason, rejections, attempt,
                 timer, pinging, pongDue, isClosing, req, cause, announced>>

Next ==
  \/ Connect \/ ReconnectTimer \/ Disconnect
  \/ \E s \in Sock : OnOpen(s) \/ HandshakeReply(s) \/ HandshakeTimeout(s)
                     \/ OpenContinues(s) \/ CloseFrame(s)
  \/ \E s \in Sock, kind \in CloseKinds : OnClose(s, kind)
  \/ \E r \in Req : SendCommand(r) \/ OnMessage(r) \/ RequestTimeout(r)
                    \/ Forget(r)
  \/ PingInterval \/ OnPong \/ PongTimeout \/ HeartbeatSettled

Spec == Init /\ [][Next]_vars

(* Timers fire, microtasks run, and a terminated or refused socket reports  *)
(* its close: the event loop's own progress.  Nothing is assumed of the     *)
(* addon, which may never answer.                                           *)
Fairness ==
  /\ WF_vars(Connect) /\ WF_vars(ReconnectTimer)
  /\ \A s \in Sock : /\ WF_vars(OpenContinues(s))
                     /\ WF_vars(HandshakeTimeout(s))
                     /\ WF_vars(/\ sock[s] = "closing"
                                /\ \E kind \in CloseKinds : OnClose(s, kind))
  /\ \A r \in Req : WF_vars(RequestTimeout(r))

FairSpec == Spec /\ Fairness
-----------------------------------------------------------------------------
TypeOK ==
  /\ ws \in Sock \cup {NoSock}
  /\ sock \in [Sock -> SocketStates]
  /\ hs \in [Sock -> {"none", "await", "ok", "err", "done"}]
  /\ handshake \in {"none", "success", "timeout"}
  /\ state \in States
  /\ reason \in Reasons
  /\ rejections \in 0..NDelays
  /\ attempt \in 0..NDelays
  /\ timer \in 0..NDelays
  /\ pinging \in BOOLEAN /\ pongDue \in BOOLEAN
  /\ heartbeat \in BOOLEAN /\ isClosing \in BOOLEAN
  /\ req \in [Req -> {"idle", "pending", "unsent", "resolved",
                      "command_error", "malformed", "timeout"} \cup CloseCodes]
  /\ cause \in [Req -> {"none", "local"} \cup CloseKinds]
  /\ announced \in {"none", "connected", "disconnected"}

(* At most one socket is ever alive: a second one would be turned away by   *)
(* the addon's single slot and the client would fight itself for it         *)
(* (scheduleReconnect's guard, connect()'s guard, cleanup()'s clear).       *)
OneLiveSocket == \A s, t \in Sock : Live(s) /\ Live(t) => s = t

(* The client never latches dead: from the first connect() until shutdown   *)
(* it has a live socket, whose callbacks are still to come, or a running    *)
(* reconnect timer, and never both (the close callback, #237).              *)
NeverLatchedDead ==
  (~isClosing /\ (announced # "none" \/ state # "disconnected")) =>
     ((ws # NoSock /\ Live(ws)) <=> timer = NoTimer)

(* No command, heartbeat or metadata outlives the connection it belongs to: *)
(* what is pending is pending on a socket that is still open or about to    *)
(* report its close (cleanup() on every close).                             *)
NothingOutlivesConnection ==
  (heartbeat \/ handshake # "none" \/ pongDue
     \/ \E r \in Req : req[r] = "pending")
  => ws # NoSock /\ sock[ws] \in {"open", "closing"}

(* A command cut off by a close is told how its connection really ended: a   *)
(* code of the addon's only when the addon sent it, a loss never as one of   *)
(* them (pendingCloseCode, set and consumed in one callback).               *)
TypedCloseCode ==
  \A r \in Req :
    /\ req[r] = "REJECTED_ANOTHER_CLIENT" <=> cause[r] = "rejected"
    /\ req[r] = "REPLACED_BY_NEW_CLIENT" <=> cause[r] = "replaced"
    /\ req[r] = "STALE_CLOSED_BY_SERVER" <=> cause[r] = "stale"
    /\ req[r] = "CLOSED_BY_CLIENT" <=> cause[r] = "local"
    /\ req[r] \in {"CONNECTION_LOST", "CONNECTION_REFUSED", "CLOSE_UNKNOWN"}
         <=> cause[r] = "lost"

(* A close leaves nothing behind and tells what it ended how it came.       *)
ClosedIsClean == NothingOutlivesConnection /\ TypedCloseCode

(* A client turned away again and again waits longer each time, although    *)
(* every attempt opens and so resets the retry counter first (the comment   *)
(* on reconnectAttempt in the close callback).                              *)
RejectionBackoff ==
  [][(rejections' > rejections /\ timer' # NoTimer)
       => timer' >= rejections' - 1]_vars

(* What the proxy reads into the log line of the connected event: the       *)
(* WebSocket to the addon is open until a disconnected event follows        *)
(* (launch/proxy/npx.mjs).  The code does not keep it: a close that         *)
(* overtakes the handshake is reported first and the continuation of the    *)
(* open callback announces "connected" after it.                            *)
ConnectedMeansOpen ==
  (announced = "connected" /\ Quiet /\ ~isClosing)
     => ws # NoSock /\ Live(ws)

(* Every command a tool sent is settled in the end, whatever the addon and  *)
(* the network do (per-request timeout, reject-all on close).               *)
EveryCommandSettles == \A r \in Req : req[r] = "pending" ~> req[r] # "pending"

(* A disconnected client always tries again, unless it is shut down.        *)
AlwaysTriesAgain ==
  (timer # NoTimer) ~> (state \in {"connecting", "reconnecting"} \/ isClosing)

(* Neither a command nor a disconnected client waits for ever.              *)
NothingWaitsForEver == EveryCommandSettles /\ AlwaysTriesAgain
=============================================================================
