------------------------ MODULE GodotConnectionProofs ------------------------
(* What GodotConnection guarantees for any number of socket objects and      *)
(* commands and any table of reconnect delays; then the stagger of           *)
(* TimeoutCascade around its commands, for every length of an editor frame   *)
(* below a quarter of a second and every argument the schemas accept; and    *)
(* the host it dials, HostResolution, for any network.                       *)
EXTENDS GodotConnection, TimeoutCascade, DialledHost, Sequences, WellFoundedInduction,
        SequenceTheorems, TLAPS

(* Who may be alive: only the current socket, or after disconnect() the one *)
(* it let go of.                                                            *)
LiveIsCurrent ==
  \A s \in Sock : Live(s) => s = ws \/ (isClosing /\ sock[s] = "closing")

(* Shutdown is final: no socket, no timer.                                  *)
ShutDown == isClosing => ws = NoSock /\ timer = NoTimer

(* A reconnect timer only runs while no socket is alive.                    *)
TimerMeansDown == timer # NoTimer => \A s \in Sock : ~Live(s)

(* Before the first connect() there is no socket and no open callback.      *)
NotStarted ==
  (announced = "none" /\ state = "disconnected" /\ ~isClosing)
     => \A s \in Sock : ~Live(s) /\ hs[s] = "none"

(* A handshake is awaited only on the current, opened socket.               *)
AwaitOnCurrent ==
  \A s \in Sock : hs[s] = "await" => s = ws /\ sock[s] \in {"open", "closing"}

IInv ==
  /\ TypeOK
  /\ OneLiveSocket
  /\ LiveIsCurrent
  /\ ShutDown
  /\ TimerMeansDown
  /\ NotStarted
  /\ AwaitOnCurrent
  /\ NeverLatchedDead
  /\ NothingOutlivesConnection
  /\ TypedCloseCode

-----------------------------------------------------------------------------
(* An `open` or `close` of a socket is the current socket's, as long as the  *)
(* client is not shut down (LiveIsCurrent).                                  *)
LEMMA CurrentSocket ==
  ASSUME IInv, NEW s \in Sock, Live(s), sock[s] # "closing"
  PROVE  s = ws /\ ~isClosing
BY ConnAssumption DEF IInv, LiveIsCurrent, ShutDown

(* connect() from a state without a live socket makes one, and only one.    *)
LEMMA OpenSocketEffect ==
  ASSUME OpenSocket, \A s \in Sock : ~Live(s), TypeOK
  PROVE  \E s \in Sock : /\ ws' = s
                         /\ sock' = [sock EXCEPT ![s] = "connecting"]
                         /\ hs' = [hs EXCEPT ![s] = "none"]
                         /\ isClosing' = FALSE
                         /\ state' \in {"reconnecting", "connecting"}
BY DEF OpenSocket, IsConnected, Live, TypeOK

(* The typed close code is one of the seven codes, and names the close.     *)
LEMMA CloseCodeFits ==
  ASSUME NEW kind \in CloseKinds, NEW before \in Reasons
  PROVE  /\ CloseCodeOf(kind, before) \in CloseCodes
         /\ CloseReasonOf(kind, before) \in Reasons
         /\ CloseCodeOf(kind, before) # "CLOSED_BY_CLIENT"
         /\ CloseCodeOf(kind, before) = "REJECTED_ANOTHER_CLIENT" <=> kind = "rejected"
         /\ CloseCodeOf(kind, before) = "REPLACED_BY_NEW_CLIENT" <=> kind = "replaced"
         /\ CloseCodeOf(kind, before) = "STALE_CLOSED_BY_SERVER" <=> kind = "stale"
BY DEF CloseKinds, Reasons, CloseCodes, CloseCodeOf, CloseReasonOf

(* The constructor establishes the invariant.                               *)
LEMMA InitIInv == Init => IInv
<1> SUFFICES ASSUME Init PROVE IInv
  OBVIOUS
<1>1. TypeOK
  <2>1. req \in [Req -> {"idle", "pending", "unsent", "resolved",
                      "command_error", "malformed", "timeout"} \cup CloseCodes]
    BY DEF Init
  <2>2. cause \in [Req -> {"none", "local"} \cup CloseKinds]
    BY DEF Init
  <2>3. sock \in [Sock -> SocketStates]
    BY DEF Init, SocketStates
  <2>4. hs \in [Sock -> {"none", "await", "ok", "err", "done"}]
    BY DEF Init
  <2>5. NDelays \in 0..NDelays /\ 0 \in 0..NDelays
    BY ConnAssumption
  <2>6. QED
    BY <2>1, <2>2, <2>3, <2>4, <2>5 DEF Init, TypeOK, NoTimer, States, Reasons
<1>2. OneLiveSocket /\ LiveIsCurrent /\ ShutDown /\ TimerMeansDown
  BY DEF Init, OneLiveSocket, LiveIsCurrent, ShutDown, TimerMeansDown, Live
<1>3. NotStarted /\ AwaitOnCurrent /\ NeverLatchedDead
  BY DEF Init, NotStarted, AwaitOnCurrent, NeverLatchedDead, Live
<1>4. NothingOutlivesConnection
  BY DEF Init, NothingOutlivesConnection
<1>5. TypedCloseCode
  BY DEF Init, TypedCloseCode
<1>6. QED
  BY <1>1, <1>2, <1>3, <1>4, <1>5 DEF IInv

(* Every step keeps it: one step per action, and under it the type, the      *)
(* sockets and timers, what is pending, and the close codes.                *)
LEMMA NextIInv == IInv /\ [Next]_vars => IInv'
<1> SUFFICES ASSUME IInv, [Next]_vars PROVE IInv'
  OBVIOUS
<1> USE ConnAssumption
<1>1. CASE Connect
  <2>0. \A s \in Sock : ~Live(s)
    BY <1>1 DEF IInv, NotStarted, TimerMeansDown, Connect
  <2>1. PICK s \in Sock : /\ ws' = s
                        /\ sock' = [sock EXCEPT ![s] = "connecting"]
                        /\ hs' = [hs EXCEPT ![s] = "none"]
                        /\ isClosing' = FALSE
                        /\ state' \in {"reconnecting", "connecting"}
    BY <1>1, <2>0, OpenSocketEffect DEF IInv, Connect
  <2>2. TypeOK'
    BY <1>1, <2>0, <2>1 DEF IInv, TypeOK, Connect, SocketStates, States
  <2>3. (OneLiveSocket /\ LiveIsCurrent /\ ShutDown)'
    BY <1>1, <2>0, <2>1 DEF IInv, OneLiveSocket, LiveIsCurrent, ShutDown,
       TypeOK, Live, Connect
  <2>4. (TimerMeansDown /\ NotStarted /\ NeverLatchedDead)'
    BY <1>1, <2>0, <2>1 DEF IInv, LiveIsCurrent, ShutDown, TimerMeansDown,
       NotStarted, NeverLatchedDead, TypeOK, Live, NoTimer, Connect
  <2>5. (AwaitOnCurrent /\ NothingOutlivesConnection)'
    BY <1>1, <2>0, <2>1 DEF IInv, LiveIsCurrent, OneLiveSocket,
       AwaitOnCurrent, NothingOutlivesConnection, TypeOK, Live, Connect
  <2>6. TypedCloseCode'
    BY <1>1 DEF IInv, TypedCloseCode, TypeOK, CloseCodes, CloseKinds,
       Connect
  <2>7. QED
    BY <2>2, <2>3, <2>4, <2>5, <2>6 DEF IInv
<1>2. CASE ReconnectTimer
  <2>0. \A s \in Sock : ~Live(s)
    BY <1>2 DEF IInv, NotStarted, TimerMeansDown, ReconnectTimer
  <2>1. PICK s \in Sock : /\ ws' = s
                        /\ sock' = [sock EXCEPT ![s] = "connecting"]
                        /\ hs' = [hs EXCEPT ![s] = "none"]
                        /\ isClosing' = FALSE
                        /\ state' \in {"reconnecting", "connecting"}
    BY <1>2, <2>0, OpenSocketEffect DEF IInv, ReconnectTimer
  <2>2. TypeOK'
    <3>1. sock' \in [Sock -> SocketStates] /\ state' \in States
      BY <2>1 DEF IInv, TypeOK, SocketStates, States
    <3>2. hs' \in [Sock -> {"none", "await", "ok", "err", "done"}]
      BY <2>1 DEF IInv, TypeOK
    <3>3. timer' \in 0..NDelays
      BY <1>2 DEF ReconnectTimer, NoTimer
    <3>4. QED
      BY <1>2, <2>1, <3>1, <3>2, <3>3 DEF IInv, TypeOK, ReconnectTimer
  <2>3. (OneLiveSocket /\ LiveIsCurrent /\ ShutDown)'
    BY <1>2, <2>0, <2>1 DEF IInv, OneLiveSocket, LiveIsCurrent, ShutDown,
       TypeOK, Live, ReconnectTimer
  <2>4. (TimerMeansDown /\ NotStarted /\ NeverLatchedDead)'
    BY <1>2, <2>0, <2>1 DEF IInv, LiveIsCurrent, ShutDown, TimerMeansDown,
       NotStarted, NeverLatchedDead, TypeOK, Live, NoTimer, ReconnectTimer
  <2>5. (AwaitOnCurrent /\ NothingOutlivesConnection)'
    BY <1>2, <2>0, <2>1 DEF IInv, LiveIsCurrent, OneLiveSocket,
       AwaitOnCurrent, NothingOutlivesConnection, TypeOK, Live, ReconnectTimer
  <2>6. TypedCloseCode'
    BY <1>2 DEF IInv, TypedCloseCode, TypeOK, CloseCodes, CloseKinds,
       ReconnectTimer
  <2>7. QED
    BY <2>2, <2>3, <2>4, <2>5, <2>6 DEF IInv
<1>3. CASE Disconnect
  <2>1. TypeOK'
    <3>1. (/\ ws \in Sock \cup {NoSock}
           /\ sock \in [Sock -> SocketStates]
           /\ hs \in [Sock -> {"none", "await", "ok", "err", "done"}])'
      BY <1>3 DEF IInv, TypeOK, Disconnect, Cleanup, SocketStates
    <3>2. (req \in [Req -> {"idle", "pending", "unsent", "resolved",
                      "command_error", "malformed", "timeout"} \cup CloseCodes])'
      BY <1>3 DEF IInv, TypeOK, Disconnect, Cleanup, CloseCodes
    <3>3. (cause \in [Req -> {"none", "local"} \cup CloseKinds])'
      BY <1>3 DEF IInv, TypeOK, Disconnect, Cleanup
    <3>4. (reason \in Reasons /\ state \in States /\ timer \in 0..NDelays)'
      BY <1>3 DEF Disconnect, NoTimer, States, Reasons
    <3>5. QED
      BY <1>3, <3>1, <3>2, <3>3, <3>4 DEF IInv, TypeOK, Disconnect, Cleanup
  <2>2. (OneLiveSocket /\ LiveIsCurrent /\ ShutDown)'
    BY <1>3 DEF IInv, OneLiveSocket, LiveIsCurrent, ShutDown,
       TypeOK, Live, Disconnect, Cleanup
  <2>3. (TimerMeansDown /\ NotStarted /\ NeverLatchedDead)'
    BY <1>3 DEF IInv, LiveIsCurrent, ShutDown, TimerMeansDown,
       NotStarted, NeverLatchedDead, TypeOK, Live, NoTimer, Disconnect, Cleanup
  <2>4. (AwaitOnCurrent /\ NothingOutlivesConnection)'
    BY <1>3 DEF IInv, LiveIsCurrent, OneLiveSocket,
       AwaitOnCurrent, NothingOutlivesConnection, TypeOK, Live, Disconnect, Cleanup
  <2>5. TypedCloseCode'
    BY <1>3 DEF IInv, TypedCloseCode, TypeOK, CloseCodes, CloseKinds,
       Disconnect, Cleanup
  <2>6. QED
    BY <2>1, <2>2, <2>3, <2>4, <2>5 DEF IInv
<1>4. ASSUME NEW s \in Sock, OnOpen(s) PROVE IInv'
  <2>1. TypeOK'
    <3>1. sock' \in [Sock -> SocketStates]
      BY <1>4 DEF IInv, TypeOK, OnOpen, SocketStates
    <3>2. hs' \in [Sock -> {"none", "await", "ok", "err", "done"}]
      BY <1>4 DEF IInv, TypeOK, OnOpen
    <3>3. attempt' \in 0..NDelays
      BY <1>4 DEF OnOpen
    <3>4. QED
      BY <1>4, <3>1, <3>2, <3>3 DEF IInv, TypeOK, OnOpen
  <2>2. (OneLiveSocket /\ LiveIsCurrent /\ ShutDown)'
    BY <1>4 DEF IInv, OneLiveSocket, LiveIsCurrent, ShutDown,
       TypeOK, Live, OnOpen
  <2>3. (TimerMeansDown /\ NotStarted /\ NeverLatchedDead)'
    BY <1>4 DEF IInv, LiveIsCurrent, ShutDown, TimerMeansDown,
       NotStarted, NeverLatchedDead, TypeOK, Live, NoTimer, OnOpen
  <2>4. (AwaitOnCurrent /\ NothingOutlivesConnection)'
    BY <1>4 DEF IInv, LiveIsCurrent, OneLiveSocket,
       AwaitOnCurrent, NothingOutlivesConnection, TypeOK, Live, OnOpen
  <2>5. TypedCloseCode'
    BY <1>4 DEF IInv, TypedCloseCode, TypeOK, CloseCodes, CloseKinds,
       OnOpen
  <2>6. QED
    BY <2>1, <2>2, <2>3, <2>4, <2>5 DEF IInv
<1>5. ASSUME NEW s \in Sock, HandshakeReply(s) PROVE IInv'
  <2>1. TypeOK'
    BY <1>5 DEF IInv, TypeOK, HandshakeReply
  <2>2. (OneLiveSocket /\ LiveIsCurrent /\ ShutDown)'
    BY <1>5 DEF IInv, OneLiveSocket, LiveIsCurrent, ShutDown,
       TypeOK, Live, HandshakeReply
  <2>3. (TimerMeansDown /\ NotStarted /\ NeverLatchedDead)'
    BY <1>5 DEF IInv, LiveIsCurrent, ShutDown, TimerMeansDown,
       NotStarted, NeverLatchedDead, TypeOK, Live, NoTimer, HandshakeReply
  <2>4. (AwaitOnCurrent /\ NothingOutlivesConnection)'
    BY <1>5 DEF IInv, LiveIsCurrent, OneLiveSocket,
       AwaitOnCurrent, NothingOutlivesConnection, TypeOK, Live, HandshakeReply
  <2>5. TypedCloseCode'
    BY <1>5 DEF IInv, TypedCloseCode, TypeOK, CloseCodes, CloseKinds,
       HandshakeReply
  <2>6. QED
    BY <2>1, <2>2, <2>3, <2>4, <2>5 DEF IInv
<1>6. ASSUME NEW s \in Sock, HandshakeTimeout(s) PROVE IInv'
  <2>1. TypeOK'
    BY <1>6 DEF IInv, TypeOK, HandshakeTimeout
  <2>2. (OneLiveSocket /\ LiveIsCurrent /\ ShutDown)'
    BY <1>6 DEF IInv, OneLiveSocket, LiveIsCurrent, ShutDown,
       TypeOK, Live, HandshakeTimeout
  <2>3. (TimerMeansDown /\ NotStarted /\ NeverLatchedDead)'
    BY <1>6 DEF IInv, LiveIsCurrent, ShutDown, TimerMeansDown,
       NotStarted, NeverLatchedDead, TypeOK, Live, NoTimer, HandshakeTimeout
  <2>4. (AwaitOnCurrent /\ NothingOutlivesConnection)'
    BY <1>6 DEF IInv, LiveIsCurrent, OneLiveSocket,
       AwaitOnCurrent, NothingOutlivesConnection, TypeOK, Live, HandshakeTimeout
  <2>5. TypedCloseCode'
    BY <1>6 DEF IInv, TypedCloseCode, TypeOK, CloseCodes, CloseKinds,
       HandshakeTimeout
  <2>6. QED
    BY <2>1, <2>2, <2>3, <2>4, <2>5 DEF IInv
<1>7. ASSUME NEW s \in Sock, OpenContinues(s) PROVE IInv'
  <2>1. TypeOK'
    BY <1>7 DEF IInv, TypeOK, OpenContinues, States
  <2>2. (OneLiveSocket /\ LiveIsCurrent /\ ShutDown)'
    BY <1>7 DEF IInv, OneLiveSocket, LiveIsCurrent, ShutDown,
       TypeOK, Live, OpenContinues
  <2>3. (TimerMeansDown /\ NotStarted /\ NeverLatchedDead)'
    BY <1>7 DEF IInv, LiveIsCurrent, ShutDown, TimerMeansDown,
       NotStarted, NeverLatchedDead, TypeOK, Live, NoTimer, OpenContinues
  <2>4. (AwaitOnCurrent /\ NothingOutlivesConnection)'
    BY <1>7 DEF IInv, LiveIsCurrent, OneLiveSocket,
       AwaitOnCurrent, NothingOutlivesConnection, TypeOK, Live, OpenContinues
  <2>5. TypedCloseCode'
    BY <1>7 DEF IInv, TypedCloseCode, TypeOK, CloseCodes, CloseKinds,
       OpenContinues
  <2>6. QED
    BY <2>1, <2>2, <2>3, <2>4, <2>5 DEF IInv
<1>8. ASSUME NEW s \in Sock, NEW kind \in CloseKinds, OnClose(s, kind) PROVE IInv'
  <2>1. (s = ws /\ ~isClosing) \/ sock[s] = "closing"
    BY <1>8, CurrentSocket DEF OnClose
  <2>2. PICK before \in Reasons :
           /\ reason' = CloseReasonOf(kind, before)
           /\ Cleanup(CloseCodeOf(kind, before), kind)
    BY <1>8 DEF OnClose, IInv, TypeOK, Reasons
  <2>3. \A t \in Sock : sock'[t] = IF t = s THEN "closed" ELSE sock[t]
    BY <1>8 DEF OnClose, IInv, TypeOK
  <2>4. TypeOK'
    <3>1. (/\ ws \in Sock \cup {NoSock}
           /\ sock \in [Sock -> SocketStates]
           /\ hs \in [Sock -> {"none", "await", "ok", "err", "done"}])'
      BY <1>8, <2>2 DEF IInv, TypeOK, OnClose, Cleanup, SocketStates
    <3>2. (req \in [Req -> {"idle", "pending", "unsent", "resolved",
                      "command_error", "malformed", "timeout"} \cup CloseCodes])'
      BY <2>2, CloseCodeFits DEF IInv, TypeOK, Cleanup
    <3>3. (cause \in [Req -> {"none", "local"} \cup CloseKinds])'
      BY <2>2 DEF IInv, TypeOK, Cleanup
    <3>4. (rejections \in 0..NDelays /\ attempt \in 0..NDelays /\ timer \in 0..NDelays)'
      BY <1>8 DEF IInv, TypeOK, OnClose, ScheduleReconnect, RetryBase, Least, NoTimer
    <3>5. reason' \in Reasons
      BY <2>2, CloseCodeFits
    <3>6. QED
      BY <1>8, <2>2, <3>1, <3>2, <3>3, <3>4, <3>5 DEF IInv, TypeOK, OnClose,
         Cleanup, States
  <2>5. (OneLiveSocket /\ LiveIsCurrent /\ ShutDown)'
    BY <1>8, <2>1, <2>2, <2>3 DEF IInv, OneLiveSocket, LiveIsCurrent, ShutDown,
       TypeOK, Live, OnClose, Cleanup,
       ScheduleReconnect, RetryBase, Least
  <2>6. (TimerMeansDown /\ NotStarted /\ NeverLatchedDead)'
    BY <1>8, <2>1, <2>2, <2>3 DEF IInv, LiveIsCurrent, ShutDown, TimerMeansDown,
       NotStarted, NeverLatchedDead, TypeOK, Live, NoTimer, OnClose, Cleanup,
       ScheduleReconnect, RetryBase, Least
  <2>7. (AwaitOnCurrent /\ NothingOutlivesConnection)'
    <3>1. \A t \in Sock : hs'[t] # "await"
      BY <2>2 DEF Cleanup
    <3>2. \A r \in Req : req'[r] # "pending"
      BY <2>2, CloseCodeFits DEF Cleanup, CloseCodes
    <3>3. ~heartbeat' /\ handshake' = "none" /\ ~pongDue'
      BY <2>2 DEF Cleanup
    <3>4. QED
      BY <3>1, <3>2, <3>3 DEF AwaitOnCurrent, NothingOutlivesConnection
  <2>8. TypedCloseCode'
    <3> DEFINE code == CloseCodeOf(kind, before)
    <3>1. /\ code \in CloseCodes \ {"CLOSED_BY_CLIENT"}
          /\ code = "REJECTED_ANOTHER_CLIENT" <=> kind = "rejected"
          /\ code = "REPLACED_BY_NEW_CLIENT" <=> kind = "replaced"
          /\ code = "STALE_CLOSED_BY_SERVER" <=> kind = "stale"
      BY CloseCodeFits
    <3>2. \A r \in Req : /\ req'[r] = IF req[r] = "pending" THEN code ELSE req[r]
                         /\ cause'[r] = IF req[r] = "pending" THEN kind ELSE cause[r]
      BY <2>2 DEF Cleanup
    <3> HIDE DEF code
    <3>3. QED
      BY <3>1, <3>2 DEF IInv, TypedCloseCode, CloseCodes, CloseKinds
  <2>9. QED
    BY <2>4, <2>5, <2>6, <2>7, <2>8 DEF IInv
<1>9. ASSUME NEW r \in Req, SendCommand(r) PROVE IInv'
  <2>1. TypeOK'
    BY <1>9 DEF IInv, TypeOK, SendCommand
  <2>2. (OneLiveSocket /\ LiveIsCurrent /\ ShutDown)'
    BY <1>9 DEF IInv, OneLiveSocket, LiveIsCurrent, ShutDown,
       TypeOK, Live, SendCommand, IsConnected
  <2>3. (TimerMeansDown /\ NotStarted /\ NeverLatchedDead)'
    BY <1>9 DEF IInv, LiveIsCurrent, ShutDown, TimerMeansDown,
       NotStarted, NeverLatchedDead, TypeOK, Live, NoTimer, SendCommand, IsConnected
  <2>4. (AwaitOnCurrent /\ NothingOutlivesConnection)'
    BY <1>9 DEF IInv, LiveIsCurrent, OneLiveSocket,
       AwaitOnCurrent, NothingOutlivesConnection, TypeOK, Live, SendCommand, IsConnected
  <2>5. TypedCloseCode'
    BY <1>9 DEF IInv, TypedCloseCode, TypeOK, CloseCodes, CloseKinds,
       SendCommand, IsConnected
  <2>6. QED
    BY <2>1, <2>2, <2>3, <2>4, <2>5 DEF IInv
<1>10. ASSUME NEW r \in Req, OnMessage(r) PROVE IInv'
  <2>1. TypeOK'
    BY <1>10 DEF IInv, TypeOK, OnMessage
  <2>2. (OneLiveSocket /\ LiveIsCurrent /\ ShutDown)'
    BY <1>10 DEF IInv, OneLiveSocket, LiveIsCurrent, ShutDown,
       TypeOK, Live, OnMessage
  <2>3. (TimerMeansDown /\ NotStarted /\ NeverLatchedDead)'
    BY <1>10 DEF IInv, LiveIsCurrent, ShutDown, TimerMeansDown,
       NotStarted, NeverLatchedDead, TypeOK, Live, NoTimer, OnMessage
  <2>4. (AwaitOnCurrent /\ NothingOutlivesConnection)'
    BY <1>10 DEF IInv, LiveIsCurrent, OneLiveSocket,
       AwaitOnCurrent, NothingOutlivesConnection, TypeOK, Live, OnMessage
  <2>5. TypedCloseCode'
    BY <1>10 DEF IInv, TypedCloseCode, TypeOK, CloseCodes, CloseKinds,
       OnMessage
  <2>6. QED
    BY <2>1, <2>2, <2>3, <2>4, <2>5 DEF IInv
<1>11. ASSUME NEW r \in Req, RequestTimeout(r) PROVE IInv'
  <2>1. TypeOK'
    BY <1>11 DEF IInv, TypeOK, RequestTimeout
  <2>2. (OneLiveSocket /\ LiveIsCurrent /\ ShutDown)'
    BY <1>11 DEF IInv, OneLiveSocket, LiveIsCurrent, ShutDown,
       TypeOK, Live, RequestTimeout
  <2>3. (TimerMeansDown /\ NotStarted /\ NeverLatchedDead)'
    BY <1>11 DEF IInv, LiveIsCurrent, ShutDown, TimerMeansDown,
       NotStarted, NeverLatchedDead, TypeOK, Live, NoTimer, RequestTimeout
  <2>4. (AwaitOnCurrent /\ NothingOutlivesConnection)'
    BY <1>11 DEF IInv, LiveIsCurrent, OneLiveSocket,
       AwaitOnCurrent, NothingOutlivesConnection, TypeOK, Live, RequestTimeout
  <2>5. TypedCloseCode'
    BY <1>11 DEF IInv, TypedCloseCode, TypeOK, CloseCodes, CloseKinds,
       RequestTimeout
  <2>6. QED
    BY <2>1, <2>2, <2>3, <2>4, <2>5 DEF IInv
<1>12. ASSUME NEW r \in Req, Forget(r) PROVE IInv'
  <2>1. TypeOK'
    BY <1>12 DEF IInv, TypeOK, Forget
  <2>2. (OneLiveSocket /\ LiveIsCurrent /\ ShutDown)'
    BY <1>12 DEF IInv, OneLiveSocket, LiveIsCurrent, ShutDown,
       TypeOK, Live, Forget
  <2>3. (TimerMeansDown /\ NotStarted /\ NeverLatchedDead)'
    BY <1>12 DEF IInv, LiveIsCurrent, ShutDown, TimerMeansDown,
       NotStarted, NeverLatchedDead, TypeOK, Live, NoTimer, Forget
  <2>4. (AwaitOnCurrent /\ NothingOutlivesConnection)'
    BY <1>12 DEF IInv, LiveIsCurrent, OneLiveSocket,
       AwaitOnCurrent, NothingOutlivesConnection, TypeOK, Live, Forget
  <2>5. TypedCloseCode'
    BY <1>12 DEF IInv, TypedCloseCode, TypeOK, CloseCodes, CloseKinds,
       Forget
  <2>6. QED
    BY <2>1, <2>2, <2>3, <2>4, <2>5 DEF IInv
<1>13. CASE PingInterval
  <2>1. TypeOK'
    BY <1>13 DEF IInv, TypeOK, PingInterval
  <2>2. (OneLiveSocket /\ LiveIsCurrent /\ ShutDown)'
    BY <1>13 DEF IInv, OneLiveSocket, LiveIsCurrent, ShutDown,
       TypeOK, Live, PingInterval, IsConnected
  <2>3. (TimerMeansDown /\ NotStarted /\ NeverLatchedDead)'
    BY <1>13 DEF IInv, LiveIsCurrent, ShutDown, TimerMeansDown,
       NotStarted, NeverLatchedDead, TypeOK, Live, NoTimer, PingInterval, IsConnected
  <2>4. (AwaitOnCurrent /\ NothingOutlivesConnection)'
    BY <1>13 DEF IInv, LiveIsCurrent, OneLiveSocket,
       AwaitOnCurrent, NothingOutlivesConnection, TypeOK, Live, PingInterval, IsConnected
  <2>5. TypedCloseCode'
    BY <1>13 DEF IInv, TypedCloseCode, TypeOK, CloseCodes, CloseKinds,
       PingInterval, IsConnected
  <2>6. QED
    BY <2>1, <2>2, <2>3, <2>4, <2>5 DEF IInv
<1>14. CASE OnPong
  <2>1. TypeOK'
    BY <1>14 DEF IInv, TypeOK, OnPong
  <2>2. (OneLiveSocket /\ LiveIsCurrent /\ ShutDown)'
    BY <1>14 DEF IInv, OneLiveSocket, LiveIsCurrent, ShutDown,
       TypeOK, Live, OnPong
  <2>3. (TimerMeansDown /\ NotStarted /\ NeverLatchedDead)'
    BY <1>14 DEF IInv, LiveIsCurrent, ShutDown, TimerMeansDown,
       NotStarted, NeverLatchedDead, TypeOK, Live, NoTimer, OnPong
  <2>4. (AwaitOnCurrent /\ NothingOutlivesConnection)'
    BY <1>14 DEF IInv, LiveIsCurrent, OneLiveSocket,
       AwaitOnCurrent, NothingOutlivesConnection, TypeOK, Live, OnPong
  <2>5. TypedCloseCode'
    BY <1>14 DEF IInv, TypedCloseCode, TypeOK, CloseCodes, CloseKinds,
       OnPong
  <2>6. QED
    BY <2>1, <2>2, <2>3, <2>4, <2>5 DEF IInv
<1>15. CASE PongTimeout
  <2>1. TypeOK'
    BY <1>15 DEF IInv, TypeOK, PongTimeout, SocketStates
  <2>2. (OneLiveSocket /\ LiveIsCurrent /\ ShutDown)'
    BY <1>15 DEF IInv, OneLiveSocket, LiveIsCurrent, ShutDown,
       TypeOK, Live, PongTimeout
  <2>3. (TimerMeansDown /\ NotStarted /\ NeverLatchedDead)'
    BY <1>15 DEF IInv, LiveIsCurrent, ShutDown, TimerMeansDown,
       NotStarted, NeverLatchedDead, TypeOK, Live, NoTimer, PongTimeout
  <2>4. (AwaitOnCurrent /\ NothingOutlivesConnection)'
    BY <1>15 DEF IInv, LiveIsCurrent, OneLiveSocket,
       AwaitOnCurrent, NothingOutlivesConnection, TypeOK, Live, PongTimeout
  <2>5. TypedCloseCode'
    BY <1>15 DEF IInv, TypedCloseCode, TypeOK, CloseCodes, CloseKinds,
       PongTimeout
  <2>6. QED
    BY <2>1, <2>2, <2>3, <2>4, <2>5 DEF IInv
<1>16. CASE HeartbeatSettled
  <2>1. TypeOK'
    BY <1>16 DEF IInv, TypeOK, HeartbeatSettled
  <2>2. (OneLiveSocket /\ LiveIsCurrent /\ ShutDown)'
    BY <1>16 DEF IInv, OneLiveSocket, LiveIsCurrent, ShutDown,
       TypeOK, Live, HeartbeatSettled
  <2>3. (TimerMeansDown /\ NotStarted /\ NeverLatchedDead)'
    BY <1>16 DEF IInv, LiveIsCurrent, ShutDown, TimerMeansDown,
       NotStarted, NeverLatchedDead, TypeOK, Live, NoTimer, HeartbeatSettled
  <2>4. (AwaitOnCurrent /\ NothingOutlivesConnection)'
    BY <1>16 DEF IInv, LiveIsCurrent, OneLiveSocket,
       AwaitOnCurrent, NothingOutlivesConnection, TypeOK, Live, HeartbeatSettled
  <2>5. TypedCloseCode'
    BY <1>16 DEF IInv, TypedCloseCode, TypeOK, CloseCodes, CloseKinds,
       HeartbeatSettled
  <2>6. QED
    BY <2>1, <2>2, <2>3, <2>4, <2>5 DEF IInv
<1>17. ASSUME NEW s \in Sock, CloseFrame(s) PROVE IInv'
  <2>1. TypeOK'
    BY <1>17 DEF IInv, TypeOK, CloseFrame, SocketStates
  <2>2. (OneLiveSocket /\ LiveIsCurrent /\ ShutDown)'
    BY <1>17 DEF IInv, OneLiveSocket, LiveIsCurrent, ShutDown,
       TypeOK, Live, CloseFrame
  <2>3. (TimerMeansDown /\ NotStarted /\ NeverLatchedDead)'
    BY <1>17 DEF IInv, LiveIsCurrent, ShutDown, TimerMeansDown,
       NotStarted, NeverLatchedDead, TypeOK, Live, NoTimer, CloseFrame
  <2>4. (AwaitOnCurrent /\ NothingOutlivesConnection)'
    BY <1>17 DEF IInv, LiveIsCurrent, OneLiveSocket,
       AwaitOnCurrent, NothingOutlivesConnection, TypeOK, Live, CloseFrame
  <2>5. TypedCloseCode'
    BY <1>17 DEF IInv, TypedCloseCode, TypeOK, CloseCodes, CloseKinds,
       CloseFrame
  <2>6. QED
    BY <2>1, <2>2, <2>3, <2>4, <2>5 DEF IInv
<1>18. CASE UNCHANGED vars
  BY <1>18 DEF vars, IInv, TypeOK, OneLiveSocket, LiveIsCurrent, ShutDown,
     TimerMeansDown, NotStarted, AwaitOnCurrent, NeverLatchedDead,
     NothingOutlivesConnection, TypedCloseCode, Live
<1>19. QED
  BY <1>1, <1>2, <1>3, <1>4, <1>5, <1>6, <1>7, <1>8,
     <1>9, <1>10, <1>11, <1>12, <1>13, <1>14, <1>15, <1>16, <1>17, <1>18
  DEF Next

-----------------------------------------------------------------------------
(* The invariant holds in every reachable state.                            *)
LEMMA Invariance == Spec => []IInv
<1>1. QED
  BY InitIInv, NextIInv, PTL DEF Spec

(* Every variable keeps its type: in particular the two retry counters and
   the index into the delay table stay within the table.  *)
THEOREM TypeCorrect == Spec => []TypeOK
<1>1. IInv => TypeOK
  BY DEF IInv
<1>2. QED
  BY Invariance, <1>1, PTL

(* At most one socket of the client is ever alive, whatever the order of its
   timers, opens and closes.  *)
THEOREM SocketsOneAtATime == Spec => []OneLiveSocket
<1>1. IInv => OneLiveSocket
  BY DEF IInv
<1>2. QED
  BY Invariance, <1>1, PTL

(* Until shutdown the client has either a live socket or a running reconnect
   timer, and never both.  *)
THEOREM NeverLatches == Spec => []NeverLatchedDead
<1>1. IInv => NeverLatchedDead
  BY DEF IInv
<1>2. QED
  BY Invariance, <1>1, PTL

(* Nothing stays pending once its socket is gone: close rejects everything.  *)
THEOREM PendingHasASocket == Spec => []NothingOutlivesConnection
<1>1. IInv => NothingOutlivesConnection
  BY DEF IInv
<1>2. QED
  BY Invariance, <1>1, PTL

(* A rejected command always carries the code of the close that cut it off.  *)
THEOREM CloseCodesTell == Spec => []TypedCloseCode
<1>1. IInv => TypedCloseCode
  BY DEF IInv
<1>2. QED
  BY Invariance, <1>1, PTL

(* A close leaves nothing pending and tells every command how it ended.     *)
THEOREM ClosesAreClean == Spec => []ClosedIsClean
<1> QED
  BY PendingHasASocket, CloseCodesTell, PTL DEF ClosedIsClean

(* Each further rejection waits at least as long as the number of rejections *)
(* before it calls for, whatever the open callbacks did to the counter.     *)
THEOREM RejectionsBackOff == Spec => RejectionBackoff
<1> DEFINE Backs == (rejections' > rejections /\ timer' # NoTimer)
                       => timer' >= rejections' - 1
<1>1. IInv /\ [Next]_vars => [Backs]_vars
  <2> SUFFICES ASSUME IInv, Next, rejections' > rejections, timer' # NoTimer
               PROVE  timer' >= rejections' - 1
    OBVIOUS
  <2> USE ConnAssumption
  <2>1. rejections \in Nat
    BY DEF IInv, TypeOK
  <2>2. rejections' # rejections
    BY <2>1
  <2>3. PICK s \in Sock, kind \in CloseKinds : OnClose(s, kind)
    BY <2>2 DEF Next, Connect, ReconnectTimer, Disconnect, OnOpen,
       HandshakeReply, HandshakeTimeout, OpenContinues, CloseFrame, SendCommand,
       OnMessage, RequestTimeout, Forget, PingInterval, OnPong, PongTimeout,
       HeartbeatSettled
  <2>4. kind = "rejected" /\ rejections' = Least(rejections + 1, NDelays)
    BY <2>2, <2>3 DEF OnClose
  <2>5. timer' = Least(Least(rejections, NDelays - 1), NDelays - 1)
    BY <2>3, <2>4 DEF OnClose, ScheduleReconnect, RetryBase, NoTimer
  <2>6. QED
    BY <2>1, <2>4, <2>5 DEF Least, IInv, TypeOK
<1>2. QED
  BY Invariance, <1>1, PTL DEF Spec, RejectionBackoff

-----------------------------------------------------------------------------
(* The timeouts of the layers around a command.                             *)

LEMMA FrameBounds == FrameMs \in Nat /\ FrameMs < 250
<1>1. PICK top \in Nat : top = 249 OBVIOUS
<1>2. FrameMs \in 0..top BY <1>1, FrameAssumption
<1>3. QED BY <1>1, <1>2

(* A budget that needs no clamping comes back whole, under a ladder whose   *)
(* rungs are apart by the margins of timeouts.ts.                           *)
LEMMA DerivedLadder ==
  ASSUME NEW ready \in Nat, NEW budget \in Nat, budget <= MaxInGameBudget(ready)
  PROVE  DeriveTimeouts(budget, ready) =
           [budget |-> budget, game |-> budget + 5000, relay |-> ready + budget + 7000,
            server |-> ready + budget + 9000]
<1>1. Smaller(Larger(budget, 0), MaxInGameBudget(ready)) = budget
  BY DEF Smaller, Larger, MaxInGameBudget, AbsoluteCeiling, BridgeWallSlop, RelayMargin, ServerMargin
<1>2. /\ budget + BridgeWallSlop = budget + 5000
      /\ ready + (budget + BridgeWallSlop) + RelayMargin = ready + budget + 7000
      /\ ready + (budget + BridgeWallSlop) + RelayMargin + ServerMargin = ready + budget + 9000
  BY DEF BridgeWallSlop, RelayMargin, ServerMargin
<1>3. QED BY <1>1, <1>2 DEF DeriveTimeouts

(* A readiness wait of a step costs its relay 1.5 s at most.                *)
LEMMA StepReadyIsShort ==
  ASSUME NEW relay \in Nat
  PROVE  EditorReadyMs(relay) \in Nat /\ EditorReadyMs(relay) <= 1500
<1>1. relay \div 2 \in Nat OBVIOUS
<1>2. QED BY <1>1 DEF EditorReadyMs, Smaller

(* A wait is a number no greater than the longest the addon may make.       *)
LEMMA WaitBounds ==
  ASSUME NEW tool, NEW n, NEW w \in Waits(tool, n)
  PROVE  /\ w \in Nat /\ w <= LongestWait(tool, Ladder(tool, n).relay)
         /\ tool \notin StepTool \cup InputTool => w <= 0
<1>1. w \in Nat /\ w <= LongestWait(tool, Ladder(tool, n).relay)
  BY ArgumentAssumption DEF Waits
<1>2. QED BY <1>1 DEF LongestWait

(* The bounds the schemas put on an argument.                               *)
LEMMA AcceptedBounds ==
  ASSUME NEW tool \in Tool, NEW n \in Accepts(tool)
  PROVE  /\ n \in Nat
         /\ tool \in {"step", "step_until"} => n <= 50000
         /\ tool = "step_frames" => n <= 1200
         /\ tool \in InputTool => n <= 40000
         /\ tool \in {"exec", "qa_wait", "qa_shot"} => n <= 30000
<1>1. ASSUME NEW low \in Nat, NEW high, NEW m \in Within(low, high)
      PROVE  m \in Nat /\ m <= high
  BY <1>1, ArgumentAssumption DEF Within
<1>2. CASE tool \in {"step", "step_until"}
  <2>1. n \in Within(1, 50000) BY <1>2 DEF Accepts, StepTool, StepArguments, StepBudgetCap
  <2>2. QED BY <1>1, <1>2, <2>1 DEF InputTool
<1>3. CASE tool = "step_frames"
  <2>1. n \in Within(1, 1200) BY <1>3 DEF Accepts, StepTool, StepArguments
  <2>2. QED BY <1>1, <1>3, <2>1 DEF InputTool
<1>4. CASE tool \in InputTool
  <2>1. n \in Within(0, 40000)
    BY <1>4 DEF Accepts, InputTool, StepTool, SequenceSpans, TypingSpans, InputBudgetCap
  <2>2. QED BY <1>1, <1>4, <2>1 DEF InputTool
<1>5. CASE tool = "exec"
  <2>1. n \in Within(1, 30000) BY <1>5 DEF Accepts, StepTool, ExecArguments, ExecBudgetCap
  <2>2. QED BY <1>1, <1>5, <2>1 DEF InputTool
<1>6. CASE tool = "qa_wait"
  <2>1. n \in Within(100, 30000) BY <1>6 DEF Accepts, StepTool, WaitArguments
  <2>2. QED BY <1>1, <1>6, <2>1 DEF InputTool
<1>7. CASE tool = "qa_shot"
  <2>1. n = 5000 BY <1>7 DEF Accepts, StepTool
  <2>2. QED BY <1>7, <2>1 DEF InputTool
<1>8. QED BY <1>2, <1>3, <1>4, <1>5, <1>6, <1>7 DEF Tool, InputTool

(* The three ladders of a step keep their rungs apart, also after the       *)
(* editor's readiness wait that the server does not account for.            *)
LEMMA StepHolds ==
  ASSUME NEW tool \in StepTool, NEW n \in Accepts(tool), NEW w \in Waits(tool, n)
  PROVE  LadderHolds(tool, n, w)
<1> DEFINE b == DeclaredBudget(tool, n)
<1>1. b \in Nat /\ b <= 50000
  <2>1. CASE tool = "step_frames"
    <3>1. n \in Nat /\ n <= 1200 BY <2>1, AcceptedBounds DEF Tool
    <3>2. PICK q : q = (n * 1000 + 59) \div 60 OBVIOUS
    <3>3. q \in Nat /\ q <= 50000 BY <3>1, <3>2
    <3>4. b = q BY <2>1, <3>2 DEF DeclaredBudget
    <3>5. QED BY <3>3, <3>4
  <2>2. CASE tool # "step_frames"
    <3>1. tool \in {"step", "step_until"} BY <2>2 DEF StepTool
    <3>2. n \in Nat /\ n <= 50000 BY <3>1, AcceptedBounds DEF Tool
    <3>3. b = n BY <2>2 DEF DeclaredBudget
    <3>4. QED BY <3>2, <3>3
  <2>3. QED BY <2>1, <2>2
<1>2. Ladder(tool, n) = [budget |-> b, game |-> b + 5000, relay |-> b + 7000, server |-> b + 9000]
  <2>1. Ladder(tool, n) = DeriveTimeouts(b, 0) BY DEF Ladder, StepLadder, StepTool, InputTool
  <2>2. b <= MaxInGameBudget(0)
    BY <1>1 DEF MaxInGameBudget, AbsoluteCeiling, BridgeWallSlop, RelayMargin, ServerMargin
  <2>3. /\ b \in Nat /\ 0 + b + 7000 = b + 7000 /\ 0 + b + 9000 = b + 9000 BY <1>1
  <2> HIDE DEF b
  <2>4. QED BY <2>1, <2>2, <2>3, DerivedLadder
<1>3. \A relay : RelayLeft(tool, relay, w) = relay - 0 BY DEF RelayLeft, StepTool, InputTool
<1>4. w \in Nat /\ EditorGivesUpBy(tool, b + 7000, w) < b + 9000
  <2>1. EditorReadyMs(b + 7000) \in Nat /\ EditorReadyMs(b + 7000) <= 1500
    BY <1>1, StepReadyIsShort
  <2>2. w \in Nat /\ w <= EditorReadyMs(b + 7000)
    <3>1. Ladder(tool, n).relay = b + 7000 BY <1>2
    <3>2. \A relay : LongestWait(tool, relay) = EditorReadyMs(relay)
      BY DEF LongestWait, StepTool, InputTool
    <3>3. w \in Nat /\ w <= LongestWait(tool, Ladder(tool, n).relay) BY WaitBounds
    <3> HIDE DEF b
    <3>4. QED BY <3>1, <3>2, <3>3
  <2>3. QED BY <1>1, <2>1, <2>2, FrameBounds DEF EditorGivesUpBy
<1>5. PICK l : l = Ladder(tool, n) OBVIOUS
<1>6. l.budget = b /\ l.game = b + 5000 /\ l.relay = b + 7000 /\ l.server = b + 9000
  BY <1>2, <1>5
<1> HIDE DEF b
<1>7. /\ l.budget = b /\ l.budget <= l.game /\ l.game + 2000 <= RelayLeft(tool, l.relay, w)
      /\ EditorGivesUpBy(tool, l.relay, w) < l.server /\ l.server <= 60000
  BY <1>1, <1>3, <1>4, <1>6
<1>8. QED BY <1>5, <1>7 DEF LadderHolds, RelayMargin, AbsoluteCeiling, b

(* An input call shares one deadline between its two waits, and its ladder  *)
(* has room for a readiness wait of ten seconds.                            *)
LEMMA InputHolds ==
  ASSUME NEW tool \in InputTool, NEW n \in Accepts(tool), NEW w \in Waits(tool, n)
  PROVE  LadderHolds(tool, n, w)
<1>1. n \in Nat /\ n <= 40000 /\ DeclaredBudget(tool, n) = n
  BY AcceptedBounds DEF Tool, InputTool, DeclaredBudget
<1>2. Ladder(tool, n) = [budget |-> n, game |-> n + 5000, relay |-> 10000 + n + 7000,
                         server |-> 10000 + n + 9000]
  <2>1. Ladder(tool, n) = DeriveTimeouts(n, 10000)
    BY DEF Ladder, InputLadder, InputTool, StepTool, ReadyWait
  <2>2. n <= MaxInGameBudget(10000)
    BY <1>1 DEF MaxInGameBudget, AbsoluteCeiling, BridgeWallSlop, RelayMargin, ServerMargin
  <2>3. QED BY <1>1, <2>1, <2>2, DerivedLadder
<1>3. w \in Nat /\ (w <= 10000 => n + 7000 <= RelayLeft(tool, 10000 + n + 7000, w))
  BY <1>1, WaitBounds DEF RelayLeft
<1>4. EditorGivesUpBy(tool, 10000 + n + 7000, w) < 10000 + n + 9000
  BY <1>1, FrameBounds DEF EditorGivesUpBy, StepTool, InputTool
<1>5. QED BY <1>1, <1>2, <1>3, <1>4 DEF LadderHolds, ReadyWait, RelayMargin, AbsoluteCeiling

(* Scripts, waits for a signal and captures of a node wait once.            *)
LEMMA PlainHolds ==
  ASSUME NEW tool \in {"exec", "qa_wait", "qa_shot"}, NEW n \in Accepts(tool),
         NEW w \in Waits(tool, n)
  PROVE  LadderHolds(tool, n, w)
<1>1. n \in Nat /\ n <= 30000 /\ DeclaredBudget(tool, n) = n
  BY AcceptedBounds DEF Tool, DeclaredBudget
<1>2. PICK l : l = Ladder(tool, n) OBVIOUS
<1>3. /\ l.budget = n /\ l.game \in {n, n + 5000} /\ l.relay \in Nat
      /\ l.game + 2000 <= l.relay /\ l.server = l.relay + 2000 /\ l.relay <= 40000
  <2>1. CASE tool = "qa_wait" BY <1>1, <1>2, <2>1 DEF Ladder, WaitLadder, StepTool, InputTool
  <2>2. CASE tool # "qa_wait"
    <3>1. l = DeriveTimeouts(n, 0)
      BY <1>2, <2>2 DEF Ladder, ExecLadder, ShotLadder, StepTool, InputTool
    <3>2. n <= MaxInGameBudget(0)
      BY <1>1 DEF MaxInGameBudget, AbsoluteCeiling, BridgeWallSlop, RelayMargin, ServerMargin
    <3>3. l = [budget |-> n, game |-> n + 5000, relay |-> 0 + n + 7000, server |-> 0 + n + 9000]
      BY <1>1, <3>1, <3>2, DerivedLadder
    <3>4. QED BY <1>1, <3>3
  <2>3. QED BY <2>1, <2>2
<1>4. RelayLeft(tool, l.relay, w) = l.relay BY <1>3 DEF RelayLeft, InputTool
<1>5. EditorGivesUpBy(tool, l.relay, w) < l.server
  BY <1>3, FrameBounds DEF EditorGivesUpBy, StepTool
<1>6. QED BY <1>1, <1>2, <1>3, <1>4, <1>5 DEF LadderHolds, RelayMargin, AbsoluteCeiling

(* The commands without a budget have fixed waits, a minute at the longest. *)
LEMMA QuickEnds ==
  ASSUME NEW c \in Quick PROVE QuickGivesUpBy(c) \in Int /\ QuickGivesUpBy(c) < 90000
<1> DEFINE ready == EditorReadyMs(10000)
<1>1. ready \in Nat /\ ready <= 1500 BY StepReadyIsShort
<1>2. FrameMs \in Int /\ FrameMs < 250 BY FrameBounds
<1> HIDE DEF ready
<1>3. EditorGivesUpBy("step", 10000, ready) \in Int /\ EditorGivesUpBy("step", 10000, ready) < 90000
  BY <1>1, <1>2 DEF EditorGivesUpBy, StepTool
<1>4. QED BY <1>2, <1>3 DEF Quick, QuickGivesUpBy, ready

(* InnerAnswersFirst for every frame length, every call that may be made and *)
(* every time its bridge may take to be ready.                               *)
THEOREM CascadeHolds == CascadeSpec => []InnerAnswersFirst
<1>1. ASSUME NEW tool \in Tool, NEW n \in Accepts(tool), NEW w \in Waits(tool, n)
      PROVE  LadderHolds(tool, n, w)
  BY StepHolds, InputHolds, PlainHolds DEF Tool, StepTool, InputTool
<1>2. ASSUME asked \in ToolCalls PROVE LadderHolds(asked.tool, asked.n, asked.waited)
  <2>1. PICK t \in Tool, k \in UNION {Accepts(tt) : tt \in Tool} :
          /\ k \in Accepts(t)
          /\ \E w \in Waits(t, k) : asked = [tool |-> t, n |-> k, waited |-> w]
    BY <1>2 DEF ToolCalls
  <2>2. PICK w \in Waits(t, k) : asked = [tool |-> t, n |-> k, waited |-> w] BY <2>1
  <2>3. asked.tool = t /\ asked.n = k /\ asked.waited = w BY <2>2
  <2>4. QED BY <1>1, <2>1, <2>2, <2>3
<1>3. ASSUME asked \in QuickCalls, QuickTimeoutMs >= 90000
      PROVE  QuickGivesUpBy(asked.quick) < QuickTimeoutMs
  <2>1. PICK c \in Quick : asked = [quick |-> c] BY <1>3 DEF QuickCalls
  <2>2. asked.quick = c BY <2>1
  <2>3. QuickGivesUpBy(c) \in Int /\ QuickGivesUpBy(c) < 90000 BY QuickEnds
  <2>4. QED BY <1>3, <2>2, <2>3, QuickAssumption
<1>4. InnerAnswersFirst BY <1>2, <1>3 DEF InnerAnswersFirst
<1>5. QED BY <1>4, PTL

-----------------------------------------------------------------------------
(* The host the connection dials.                                           *)

(* A set of indices has a first one.                                        *)
LEMMA FirstIndex ==
  ASSUME NEW S \in SUBSET Nat, S # {}
  PROVE  \E m \in S : \A k \in 1..m - 1 : k \notin S
<1>1. PICK m \in S : \A k \in S : ~ (<<k, m>> \in OpToRel(<, Nat))
  BY NatLessThanWellFounded, WFMin
<1>2. ASSUME NEW k \in 1..m - 1, k \in S PROVE FALSE
  <2>1. k < m /\ k \in Nat /\ m \in Nat
    BY <1>2
  <2>2. <<k, m>> \in OpToRel(<, Nat)
    BY <2>1 DEF OpToRel
  <2> QED BY <2>2, <1>1, <1>2
<1> QED BY <1>2

(* What is read from a file that can be read is None or an address.         *)
LEMMA GatewayIsAddress ==
  ASSUME Host!AddressAssumption, routes \in RouteTable \cup {None}
  PROVE  Host!ResolveLinuxGateway \in Seq(Nat) \cup {None}
<1> DEFINE Usable(r) == /\ r.destination = "default" /\ Host!ConvertHexToIp(r.gateway) # None
                        /\ Host!IsValidIPv4(Host!ConvertHexToIp(r.gateway))
           hits == {i \in DOMAIN routes : Usable(routes[i])}
           first == CHOOSE i \in DOMAIN routes : Usable(routes[i]) /\ \A j \in 1..i - 1 : ~Usable(routes[j])
<1>1. CASE routes # None /\ hits # {}
  <2>1. routes \in Seq([destination : {"default", "other"}, gateway : Seq(Nat)])
    BY <1>1 DEF Host!AddressAssumption
  <2>2. DOMAIN routes = 1..Len(routes) /\ \A i \in DOMAIN routes : routes[i].gateway \in Seq(Nat)
    <3>1. DOMAIN routes = 1..Len(routes)
      BY <2>1, LenProperties
    <3>2. ASSUME NEW i \in DOMAIN routes PROVE routes[i].gateway \in Seq(Nat)
      <4>1. routes[i] \in [destination : {"default", "other"}, gateway : Seq(Nat)]
        BY <2>1, <3>1, ElementOfSeq
      <4> QED BY <4>1
    <3> QED BY <3>1, <3>2
  <2>3. PICK m \in hits : \A k \in 1..m - 1 : k \notin hits
    <3>1. hits \in SUBSET Nat
      BY <2>2
    <3> HIDE DEF hits
    <3> QED BY <1>1, <3>1, FirstIndex
  <2>4. first \in DOMAIN routes /\ Usable(routes[first])
    <3>1. \A k \in 1..m - 1 : ~Usable(routes[k])
      <4>1. \A k \in 1..m - 1 : k \in DOMAIN routes
        BY <2>2, <2>3
      <4> QED BY <4>1, <2>3
    <3> QED BY <2>3, <3>1
  <2>5. Host!ConvertHexToIp(routes[first].gateway) \in Seq(Nat) \cup {None}
    <3>1. PICK hex \in Seq(Nat) : hex = routes[first].gateway
      BY <2>2, <2>4
    <3>2. ASSUME Len(hex) = 4 PROVE [i \in 1..4 |-> hex[5 - i]] \in Seq(Nat)
      <4>1. \A i \in 1..4 : 5 - i \in 1..Len(hex)
        BY <3>2
      <4>2. \A i \in 1..4 : hex[5 - i] \in Nat
        BY <4>1, ElementOfSeq
      <4> QED BY <4>2, IsASeq
    <3>3. Host!ConvertHexToIp(hex) \in Seq(Nat) \cup {None}
      BY <3>2 DEF Host!ConvertHexToIp
    <3> QED BY <3>1, <3>3
  <2>6. Host!ResolveLinuxGateway = Host!ConvertHexToIp(routes[first].gateway)
    BY <1>1 DEF Host!ResolveLinuxGateway, Host!FirstOf
  <2> QED BY <2>5, <2>6
<1>2. CASE ~(routes # None /\ hits # {})
  BY <1>2 DEF Host!ResolveLinuxGateway, Host!FirstOf
<1> QED BY <1>1, <1>2

LEMMA NameserverIsAddress ==
  ASSUME Host!AddressAssumption, names \in ResolvConf \cup {None}
  PROVE  Host!ResolveWSL2Nameserver \in Seq(Nat) \cup {None}
<1> DEFINE hits == {i \in DOMAIN names : Host!IsValidIPv4(names[i])}
           first == CHOOSE i \in DOMAIN names :
                      Host!IsValidIPv4(names[i]) /\ \A j \in 1..i - 1 : ~Host!IsValidIPv4(names[j])
<1>1. CASE names # None /\ hits # {}
  <2>1. names \in Seq(Seq(Nat))
    BY <1>1 DEF Host!AddressAssumption
  <2>2. DOMAIN names = 1..Len(names) /\ \A i \in DOMAIN names : names[i] \in Seq(Nat)
    BY <2>1, LenProperties, ElementOfSeq
  <2>3. PICK m \in hits : \A k \in 1..m - 1 : k \notin hits
    <3>1. hits \in SUBSET Nat
      BY <2>2
    <3> HIDE DEF hits
    <3> QED BY <1>1, <3>1, FirstIndex
  <2>4. first \in DOMAIN names
    <3>1. \A k \in 1..m - 1 : ~Host!IsValidIPv4(names[k])
      <4>1. \A k \in 1..m - 1 : k \in DOMAIN names
        BY <2>2, <2>3
      <4> QED BY <4>1, <2>3
    <3> QED BY <2>3, <3>1
  <2>5. Host!ResolveWSL2Nameserver = names[first]
    BY <1>1 DEF Host!ResolveWSL2Nameserver, Host!FirstOf
  <2> QED BY <2>2, <2>4, <2>5
<1>2. CASE ~(names # None /\ hits # {})
  BY <1>2 DEF Host!ResolveWSL2Nameserver, Host!FirstOf
<1> QED BY <1>1, <1>2

(* Once the connection is made the host asked for is the one it dials: the  *)
(* environment decides it, or what the first detection left in the cache.   *)
HostInv ==
  /\ routes \in RouteTable \cup {None} /\ names \in ResolvConf \cup {None}
  /\ dialled # None => /\ Host!GetTargetHost = dialled
                       /\ env.override = None /\ Host!IsWSL => cachedHostIp # Unset
  /\ Host!ToldIsDialled

LEMMA Remembered ==
  ASSUME Host!AddressAssumption, HostInv, Host!Remember, UNCHANGED env
  PROVE  /\ env.override = None /\ Host!IsWSL => cachedHostIp' # Unset
         /\ Host!GetTargetHost' = Host!GetTargetHost
         /\ Host!IsWSL' = Host!IsWSL
<1>1. Host!ResolveGateway # Unset
  BY GatewayIsAddress, NameserverIsAddress
  DEF HostInv, Host!ResolveGateway, Host!AddressAssumption
<1>2. Host!IsWSL' = Host!IsWSL
  BY DEF Host!IsWSL
<1>3. CASE env.override = None /\ Host!IsWSL
  <2>1. Host!Detected = Host!ResolveGateway
    BY <1>3 DEF Host!Detected
  <2>2. cachedHostIp' = Host!GetHostIpInWSL /\ cachedHostIp' # Unset
    BY <1>1, <1>3, <2>1 DEF Host!Remember, Host!Kept, Host!GetHostIpInWSL
  <2>3. Host!GetHostIpInWSL' = Host!GetHostIpInWSL
    BY <2>2 DEF Host!GetHostIpInWSL
  <2> QED BY <1>2, <2>2, <2>3 DEF Host!GetTargetHost
<1>4. CASE ~(env.override = None /\ Host!IsWSL)
  BY <1>2, <1>4 DEF Host!GetTargetHost
<1> QED BY <1>2, <1>3, <1>4

LEMMA HostStep ==
  ASSUME Host!AddressAssumption, HostInv, [Host!Next]_(Host!vars)
  PROVE  HostInv'
<1>1. CASE Host!GetGodotConnection
  <2>1. Host!Remember /\ UNCHANGED <<env, routes, names, told>>
        /\ dialled = None /\ dialled' = Host!GetTargetHost
    BY <1>1 DEF Host!GetGodotConnection
  <2> QED BY <2>1, Remembered DEF HostInv, Host!ToldIsDialled
<1>2. CASE Host!GetConnectionStrategy
  <2>1. Host!Remember /\ UNCHANGED <<env, routes, names, dialled>>
        /\ dialled # None /\ told' = Host!GetTargetHost
    BY <1>2 DEF Host!GetConnectionStrategy
  <2> QED BY <2>1, Remembered DEF HostInv, Host!ToldIsDialled
<1>3. CASE Host!NetworkChanges
  <2>1. Host!GetTargetHost' = Host!GetTargetHost \/ dialled = None
    <3>1. CASE env.override = None /\ Host!IsWSL /\ dialled # None
      <4>1. Host!GetHostIpInWSL' = Host!GetHostIpInWSL
        BY <1>3, <3>1 DEF HostInv, Host!NetworkChanges, Host!GetHostIpInWSL
      <4> QED BY <1>3, <3>1, <4>1 DEF Host!NetworkChanges, Host!GetTargetHost, Host!IsWSL
    <3>2. CASE ~(env.override = None /\ Host!IsWSL)
      BY <1>3, <3>2 DEF Host!NetworkChanges, Host!GetTargetHost, Host!IsWSL
    <3> QED BY <3>1, <3>2
  <2> QED BY <1>3, <2>1 DEF HostInv, Host!NetworkChanges, Host!ToldIsDialled, Host!IsWSL
<1>4. CASE UNCHANGED Host!vars
  BY <1>4 DEF HostInv, Host!vars, Host!ToldIsDialled, Host!IsWSL, Host!GetTargetHost,
              Host!GetHostIpInWSL, Host!Detected, Host!ResolveGateway, Host!ResolveLinuxGateway,
              Host!ResolveWSL2Nameserver, Host!DetectWSLVersion
<1> QED BY <1>1, <1>2, <1>3, <1>4 DEF Host!Next

(* The host that the log and the diagnostics name is the one the connection *)
(* dials, whatever the files say later: for any routes and nameservers.     *)
THEOREM ToldWhatIsDialled == Host!Spec => []ToldIsDialled
<1>1. Host!Init => HostInv
  BY DEF Host!Init, HostInv, Host!ToldIsDialled
<1>2. HostInv => ToldIsDialled
  BY DEF HostInv, ToldIsDialled
<1>3. HostInv /\ [Host!Next]_(Host!vars) => HostInv'
  BY HostStep, HostAssumption
<1> QED BY <1>1, <1>2, <1>3, PTL DEF Host!Spec
=============================================================================
