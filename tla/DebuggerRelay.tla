--------------------------- MODULE DebuggerRelay ---------------------------
(***************************************************************************)
(* The editor-side relay to the running game: the debugger plugin          *)
(* (core/mcp_debugger_plugin.gd), the wait loops of the relaying commands   *)
(* (commands/*_commands.gd) and run_project's readiness gate.              *)
(*                                                                         *)
(* Every relaying command is a coroutine on the editor's main thread: it   *)
(* sends a message to the game and then looks, once a frame, for the       *)
(* answer.  The coroutines resume in the order in which they suspended, so *)
(* a frame polls waiters from first to last and nothing is delivered in    *)
(* between.  All calls of a behaviour are of one message type, the only    *)
(* calls that meet: style says which command file's loop they run.         *)
(***************************************************************************)
EXTENDS Integers, FiniteSets, Sequences, SequencesExt

CONSTANTS Call,         \* relayed calls, one message type
          Styles,       \* the relay loops a behaviour may be of
          MaxRuns,      \* bound: games launched
          Budget,       \* frames a relay waits for the answer
          ReadyBudget,  \* frames a gated relay waits for bridge_ready
          RampGrace, RunTimeout,  \* frames of run_project's gate
          None

ASSUME StyleAssumption ==
  Styles \subseteq {"plain", "gameTime", "exec", "qaWait", "signal", "input"}
ASSUME BoundsAssumption ==
  /\ MaxRuns \in Nat \ {0}
  /\ {Budget, ReadyBudget, RampGrace, RunTimeout} \subseteq Nat
ASSUME NamesAssumption ==
  /\ None \notin Call \cup {"run", "EMPTY", "ERROR", "TIMEOUT", "REFUSED"}
  /\ None \notin BOOLEAN
  /\ Call \cap {"run", "EMPTY", "ERROR", "TIMEOUT", "REFUSED"} = {}

VARIABLES
  game,     \* the editor's play state and the game process
  plug,     \* MCPDebuggerPlugin: _active_session_id (0 = -1), _bridge_ready, _responses[type]
  sig,      \* the command object: _X_pending, _X_result, one-shot connection
  inFlight, \* _wait_in_flight of qa_commands
  call,     \* each call: where it is, the frames it has left, what it returned
  runner,   \* run_project's _await_game_ready
  waiters,  \* coroutines suspended on process_frame, in order
  toPoll,   \* those still to resume in this frame
  answered, \* history: calls whose answer reached the plugin while they waited
  style     \* the loop the calls of this behaviour run

vars == <<game, plug, sig, inFlight, call, runner, waiters, toPoll, answered, style>>

Gated      == style \in {"gameTime", "input"}  \* waits for is_bridge_ready
BySignal   == style \in {"signal", "input"}    \* shared member + one-shot signal
Correlated == style \in {"exec", "qaWait"}     \* call_id echoed and compared
Exclusive  == style = "qaWait"                 \* _wait_in_flight

Outcomes == Call \cup {None, "EMPTY", "ERROR", "TIMEOUT", "REFUSED"}

(* The types: session ids and runs within MaxRuns, clocks within their     *)
(* budgets, outcomes that are a call's answer, a blank or a typed error.   *)
TypeOK ==
  /\ game \in [playing: BOOLEAN, alive: BOOLEAN, run: 0..MaxRuns, up: BOOLEAN,
               breaked: BOOLEAN, inGame: SUBSET Call,
               announced: SUBSET (1..MaxRuns), ready: SUBSET (1..MaxRuns)]
  /\ plug \in [active: 0..MaxRuns, bridgeReady: BOOLEAN, response: Call \cup {None}]
  /\ sig \in [pending: BOOLEAN, result: Call \cup {None}, connected: BOOLEAN]
  /\ inFlight \in BOOLEAN
  /\ call \in [Call -> [pc: {"idle", "gate", "wait", "done"}, left: 0..Budget,
                        gate: 0..ReadyBudget, out: Outcomes]]
  /\ runner \in [pc: {"idle", "wait"}, settle: 0..2, seen: BOOLEAN, grace: 0..RampGrace,
                 left: 0..RunTimeout, out: {None, TRUE, FALSE}]
  /\ waiters \in Seq(Call \cup {"run"}) /\ toPoll \in Seq(Call \cup {"run"})
  /\ answered \subseteq Call /\ style \in Styles

Init ==
  /\ game = [playing |-> FALSE, alive |-> FALSE, run |-> 0, up |-> FALSE,
             breaked |-> FALSE, inGame |-> {}, announced |-> {}, ready |-> {}]
  /\ plug = [active |-> 0, bridgeReady |-> FALSE, response |-> None]
  /\ sig = [pending |-> FALSE, result |-> None, connected |-> FALSE]
  /\ inFlight = FALSE
  /\ call = [c \in Call |-> [pc |-> "idle", left |-> Budget, gate |-> ReadyBudget, out |-> None]]
  /\ runner = [pc |-> "idle", settle |-> 0, seen |-> FALSE, grace |-> RampGrace, left |-> RunTimeout, out |-> None]
  /\ waiters = <<>> /\ toPoll = <<>> /\ answered = {} /\ style \in Styles

BetweenFrames == toPoll = <<>>

\* Slip: the clock runs on below zero.
TickOn(n) == n - 1

\* A frame passes on a clock that may already have run out.
Tick(n) == IF n = 0 THEN 0 ELSE n - 1

-----------------------------------------------------------------------------
(* The game: an external process under the editor's debugger.  When it     *)
(* ends, any of the answers it was computing may already be on the wire.   *)

RunEnds(g, left) == [g EXCEPT !.alive = FALSE, !.playing = FALSE, !.breaked = FALSE, !.inGame = left]

\* stop_project, or the game crashes or is closed.
StopGame ==
  /\ BetweenFrames /\ game.alive
  /\ \E left \in SUBSET game.inGame : game' = RunEnds(game, left)
  /\ UNCHANGED <<plug, sig, inFlight, call, runner, waiters, toPoll, answered, style>>

\* EditorInterface.is_playing_scene turns true some frames after the launch.
PlayConfirmed ==
  /\ BetweenFrames /\ game.alive /\ ~game.playing
  /\ game' = [game EXCEPT !.playing = TRUE]
  /\ UNCHANGED <<plug, sig, inFlight, call, runner, waiters, toPoll, answered, style>>

\* The game's debug session opens.
SetupSession ==
  /\ BetweenFrames /\ game.alive /\ ~game.up
  /\ game' = [game EXCEPT !.up = TRUE]
  /\ plug' = [plug EXCEPT !.active = game.run, !.bridgeReady = FALSE]
  /\ UNCHANGED <<sig, inFlight, call, runner, waiters, toPoll, answered, style>>

\* The bridge's main scene is up and idle: it announces itself, once.
Announce ==
  /\ BetweenFrames /\ game.alive /\ game.up /\ game.run \notin game.announced
  /\ game' = [game EXCEPT !.announced = @ \cup {game.run}, !.ready = @ \cup {game.run}]
  /\ UNCHANGED <<plug, sig, inFlight, call, runner, waiters, toPoll, answered, style>>

\* A script error in a handler pauses the game in the debugger.
GameBreaks ==
  /\ BetweenFrames /\ game.alive /\ ~game.breaked /\ game.inGame # {}
  /\ game' = [game EXCEPT !.breaked = TRUE]
  /\ UNCHANGED <<plug, sig, inFlight, call, runner, waiters, toPoll, answered, style>>

\* The plugin receives bridge_ready, of this run or an earlier one.
HandleBridgeReady(id) ==
  /\ BetweenFrames /\ id \in game.ready
  /\ game' = [game EXCEPT !.ready = @ \ {id}]
  /\ plug' = [plug EXCEPT !.bridgeReady = @ \/ id = plug.active]
  /\ UNCHANGED <<sig, inFlight, call, runner, waiters, toPoll, answered, style>>

\* The plugin receives the answer to c and stores it under its message type,
\* or emits the signal, whoever is waiting.
HandleGameResponse(c) ==
  /\ BetweenFrames /\ c \in game.inGame /\ ~game.breaked
  /\ game' = [game EXCEPT !.inGame = @ \ {c}]
  /\ plug' = IF BySignal THEN plug ELSE [plug EXCEPT !.response = c]
  /\ sig' = IF BySignal /\ sig.connected
            THEN [pending |-> FALSE, result |-> c, connected |-> FALSE] ELSE sig
  /\ answered' = IF call[c].pc = "wait" THEN answered \cup {c} ELSE answered
  /\ UNCHANGED <<inFlight, call, runner, waiters, toPoll, style>>

-----------------------------------------------------------------------------
(* The plugin's session checks. *)

HasActiveSession == plug.active # 0 /\ game.playing
IsBridgeReady    == plug.bridgeReady /\ HasActiveSession
\* has_active_session forgets the session when the editor is not playing;
\* is_bridge_ready asks it only when the flag is set.
AfterBridgeReadyCheck ==
  IF plug.bridgeReady /\ ~game.playing THEN [plug EXCEPT !.active = 0] ELSE plug

-----------------------------------------------------------------------------
(* A relayed call.                                                         *)

\* The coroutine of c ends with outcome o.
Return(c, o) ==
  /\ call' = [call EXCEPT ![c] = [@ EXCEPT !.pc = "done", !.out = o]]
  /\ waiters' = SelectSeq(waiters, LAMBDA w : w # c)
  /\ inFlight' = (inFlight /\ ~(Exclusive /\ call[c].pc # "idle"))

Suspend(c, pc, left, gate) ==
  /\ call' = [call EXCEPT ![c] = [@ EXCEPT !.pc = pc, !.left = left, !.gate = gate]]
  /\ waiters' = IF Contains(waiters, c) THEN waiters ELSE Append(waiters, c)
  /\ inFlight' = (inFlight \/ Exclusive)

\* send_game_message or request_X: the slot (or the shared result) of the type
\* is cleared and the message goes to the session, which may be gone.
Deliver(c) == IF plug.active = game.run /\ game.alive THEN game.inGame \cup {c} ELSE game.inGame
Send(c, left) ==
  /\ game' = [game EXCEPT !.inGame = Deliver(c)]
  /\ plug' = IF BySignal THEN plug ELSE [plug EXCEPT !.response = None]
  /\ sig' = IF BySignal THEN [pending |-> TRUE, result |-> None, connected |-> TRUE] ELSE sig
  /\ Suspend(c, "wait", left, call[c].gate)

\* Slip: a session is taken for a ready bridge.
GateTurnSession(c, left, gate) ==
  \/ HasActiveSession /\ Send(c, left)
  \/ /\ ~HasActiveSession /\ UNCHANGED <<game, plug, sig>>
     /\ IF game.playing THEN Suspend(c, "gate", left, gate) ELSE Return(c, "ERROR")

\* One turn of the ready-wait of a gated call: send, fail or keep waiting.
GateTurn(c, left, gate) ==
  \/ IsBridgeReady /\ Send(c, left)
  \/ /\ ~IsBridgeReady /\ plug' = AfterBridgeReadyCheck /\ UNCHANGED <<game, sig>>
     /\ IF game.playing THEN Suspend(c, "gate", left, gate) ELSE Return(c, "ERROR")

\* Slip: no mutex.
StartCallNoMutex(c) ==
  /\ BetweenFrames /\ call[c].pc = "idle"
  /\ IF HasActiveSession THEN Send(c, Budget) ELSE Return(c, "ERROR") /\ UNCHANGED <<game, plug, sig>>
  /\ UNCHANGED <<runner, toPoll, answered, style>>

\* The command is called: its guards, then the gate or the send.
StartCall(c) ==
  /\ BetweenFrames /\ call[c].pc = "idle"
  /\ \/ Exclusive /\ inFlight /\ Return(c, "REFUSED") /\ UNCHANGED <<game, plug, sig>>
     \/ /\ ~(Exclusive /\ inFlight)
        /\ \/ ~game.playing \/ (style # "input" /\ ~HasActiveSession)
        /\ Return(c, "ERROR") /\ UNCHANGED <<game, plug, sig>>
     \/ /\ ~(Exclusive /\ inFlight) /\ game.playing /\ (style = "input" \/ HasActiveSession)
        /\ IF Gated THEN GateTurn(c, Budget, ReadyBudget) ELSE Send(c, Budget)
  /\ UNCHANGED <<runner, toPoll, answered, style>>

\* An input call's one deadline also runs while it waits for the gate.
PollGate(c) ==
  LET k == call[c]
      total == IF style = "input" THEN k.left ELSE 1
  IN  IF k.gate = 0 \/ total = 0
      THEN Return(c, "ERROR") /\ UNCHANGED <<game, plug, sig>>
      ELSE GateTurn(c, IF style = "input" THEN k.left - 1 ELSE k.left, k.gate - 1)

KeepWaiting(c) == Suspend(c, "wait", call[c].left - 1, call[c].gate)

\* clear_response and give up.
TimeOut(c) ==
  /\ Return(c, "TIMEOUT")
  /\ plug' = [plug EXCEPT !.response = None]

\* _send_and_wait without correlation: the deadline is looked at first.
PollPlain(c) ==
  /\ UNCHANGED <<game, sig>>
  /\ \/ call[c].left = 0 /\ TimeOut(c)
     \/ call[c].left > 0 /\ plug.response = None /\ KeepWaiting(c) /\ UNCHANGED plug
     \/ /\ call[c].left > 0 /\ plug.response # None
        /\ Return(c, plug.response) /\ plug' = [plug EXCEPT !.response = None]

\* Slip: a paused game is not resumed.
ContinueSessionNever == game

\* is_session_breaked and continue_session, of the active session.
ContinueSession == IF plug.active = game.run THEN [game EXCEPT !.breaked = FALSE] ELSE game

\* Slip: the ids are not compared.
PollCorrelatedAny(c) == PollPlain(c)

\* _send_and_wait with a call_id: continue a paused game (exec), then the
\* response, and the deadline only if there was none to look at.
PollCorrelated(c) ==
  /\ UNCHANGED sig
  /\ game' = IF style = "exec" THEN ContinueSession ELSE game
  /\ \/ /\ plug.response = c
        /\ Return(c, c) /\ plug' = [plug EXCEPT !.response = None]
     \/ /\ plug.response \notin {None, c}  \* discard, and wait another frame
        /\ plug' = [plug EXCEPT !.response = None]
        /\ Suspend(c, "wait", Tick(call[c].left), call[c].gate)
     \/ plug.response = None /\ call[c].left = 0 /\ TimeOut(c)
     \/ plug.response = None /\ call[c].left > 0 /\ KeepWaiting(c) /\ UNCHANGED plug

\* The loops on a shared _X_pending member and a one-shot connection.
PollSignal(c) ==
  /\ UNCHANGED <<game, plug>>
  /\ \/ /\ call[c].left = 0 /\ Return(c, "TIMEOUT")
        /\ sig' = [sig EXCEPT !.pending = FALSE, !.connected = FALSE]
     \/ call[c].left > 0 /\ sig.pending /\ KeepWaiting(c) /\ UNCHANGED sig
     \/ /\ call[c].left > 0 /\ ~sig.pending /\ UNCHANGED sig
        /\ Return(c, IF sig.result = None THEN "EMPTY" ELSE sig.result)

Poll(c) ==
  /\ toPoll # <<>> /\ Head(toPoll) = c
  /\ toPoll' = Tail(toPoll)
  /\ \/ call[c].pc = "gate" /\ PollGate(c)
     \/ /\ call[c].pc = "wait"
        /\ IF BySignal THEN PollSignal(c) ELSE IF Correlated THEN PollCorrelated(c) ELSE PollPlain(c)
  /\ UNCHANGED <<runner, answered, style>>

-----------------------------------------------------------------------------
(* run_project: launch, then wait until the game's bridge is up.           *)

\* Slip: the session is taken for the bridge.
ReadyLookSession(r) ==
  IF game'.playing THEN IF plug.active # 0 THEN TRUE ELSE None
  ELSE IF r.seen \/ r.grace = 0 THEN FALSE ELSE None

\* One look of _await_game_ready: the answer, or None to wait a frame.
ReadyLook(r) ==
  IF game'.playing
  THEN IF plug.bridgeReady /\ plug.active # 0 THEN TRUE ELSE None
  ELSE IF r.seen \/ r.grace = 0 THEN FALSE ELSE IF plug.bridgeReady THEN TRUE ELSE None

\* Slip: neither deadline advances.
RunWaitsLong(r) ==
  /\ runner' = [r EXCEPT !.pc = "wait", !.grace = RampGrace, !.left = RunTimeout]
  /\ waiters' = IF Contains(waiters, "run") THEN waiters ELSE Append(waiters, "run")

RunWaits(r) == /\ runner' = [r EXCEPT !.pc = "wait", !.seen = @ \/ game'.playing]
               /\ waiters' = IF Contains(waiters, "run") THEN waiters ELSE Append(waiters, "run")

\* run_project answers bridge_ready.
RunReturns(r, ready) == /\ runner' = [r EXCEPT !.pc = "idle", !.out = ready]
                        /\ waiters' = SelectSeq(waiters, LAMBDA w : w # "run")

\* A frozen launch first lets two frames pass, the others look at once.
RunProject ==
  LET r == [pc |-> "wait", settle |-> 0, seen |-> FALSE,
            grace |-> RampGrace, left |-> RunTimeout, out |-> None]
  IN  /\ BetweenFrames /\ runner.pc = "idle" /\ game.run < MaxRuns
      /\ \E left \in SUBSET game.inGame :
           game' = [RunEnds(game, left) EXCEPT !.alive = TRUE, !.run = @ + 1, !.up = FALSE]
      /\ \/ RunWaits([r EXCEPT !.settle = 2])
         \/ IF ReadyLook(r) = None THEN RunWaits(r) ELSE RunReturns(r, ReadyLook(r))
      /\ UNCHANGED <<plug, sig, inFlight, call, toPoll, answered, style>>

PollRun ==
  LET r == [runner EXCEPT !.grace = Tick(@), !.left = Tick(@)]
  IN  /\ toPoll # <<>> /\ Head(toPoll) = "run"
      /\ toPoll' = Tail(toPoll)
      /\ UNCHANGED <<game, plug, sig, inFlight, call, answered, style>>
      /\ IF runner.settle > 0
         THEN runner' = [runner EXCEPT !.settle = @ - 1] /\ UNCHANGED waiters
         ELSE IF runner.left = 0 THEN RunReturns(r, FALSE)
         ELSE IF ReadyLook(r) = None THEN RunWaits(r) ELSE RunReturns(r, ReadyLook(r))

\* process_frame: every suspended coroutine resumes, in order.
Frame ==
  /\ BetweenFrames /\ waiters # <<>> /\ toPoll' = waiters
  /\ UNCHANGED <<game, plug, sig, inFlight, call, runner, waiters, answered, style>>

Next ==
  \/ StopGame \/ PlayConfirmed \/ SetupSession \/ Announce \/ GameBreaks
  \/ \E id \in 1..MaxRuns : HandleBridgeReady(id)
  \/ \E c \in Call : HandleGameResponse(c) \/ StartCall(c) \/ Poll(c)
  \/ RunProject \/ PollRun \/ Frame

Spec == Init /\ [][Next]_vars
\* The editor's main loop keeps running: frames come and their coroutines resume.
FairSpec == Spec /\ WF_vars(Frame) /\ WF_vars(PollRun) /\ \A c \in Call : WF_vars(Poll(c))

-----------------------------------------------------------------------------
(* Properties. *)

(* What a call returns as its answer is the answer to that call.  The slot *)
(* of a message type outlives the call that opened it: an answer that comes *)
(* after its call gave up must not be taken by the next call.  The loops   *)
(* that compare call ids keep it.                                          *)
RightAnswer       == \A c \in Call : call[c].out \in Call => call[c].out = c
CorrelatedIsRight == Correlated => RightAnswer

(* A relay whose answer arrived while it waited does not time out, unless  *)
(* another call that timed out left an answer behind that hid it.  The     *)
(* loop behind the mutex of wait_for_signal keeps it.                      *)
NoStarvation ==
  \A c \in Call : call[c].out = "TIMEOUT" /\ c \in answered =>
    \E d \in Call \ {c} : call[d].out = "TIMEOUT"
WaitNotStarved == Exclusive => NoStarvation

(* A call that reports success brings an answer of the game, never the     *)
(* blank that another call's start or timeout left in the shared member.   *)
SuccessHasAnswer == \A c \in Call : call[c].out # "EMPTY"

(* A gated call is sent to a session only after the bridge of that very     *)
(* session announced itself: not on the announcement of an earlier run.    *)
SendsToAnnounced ==
  \A c \in Call : call[c].pc # "wait" /\ call'[c].pc = "wait" => plug.active \in game.announced
GatedSend == [][Gated => SendsToAnnounced]_vars

(* run_project answers bridge_ready: true only if the bridge of the game it *)
(* launched has announced itself.                                          *)
RunReadyMeansAnnounced == runner.out = TRUE => game.run \in game.announced

(* No gated call is sent before the bridge announced itself, in any launch, *)
(* and run_project says bridge_ready of an editor's first launch only once *)
(* that bridge did.                                                        *)
FirstLaunchGated == GatedSend /\ [](game.run = 1 => RunReadyMeansAnnounced)

(* A game that a script error paused while an exec call waits in the same   *)
(* session is resumed: it is not left paused behind the call.               *)
ExecBreakResumed ==
  (style = "exec" /\ game.breaked /\ plug.active = game.run /\ \E c \in Call : call[c].pc = "wait")
    ~> ~game.breaked

\* Every call returns, and so does run_project, whatever the game does.
CallEnds == \A c \in Call : (call[c].pc \in {"gate", "wait"}) ~> (call[c].pc = "done")
RunReturnsInTime == (runner.pc = "wait") ~> (runner.pc = "idle")

(* Whoever waits for the game stops waiting, and leaves no game paused.     *)
CallsEnd == CallEnds /\ RunReturnsInTime /\ ExecBreakResumed

=============================================================================
