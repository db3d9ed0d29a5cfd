------------------------ MODULE DebuggerRelayProofs ------------------------
(* What the relay guarantees for any number of calls, launches and any      *)
(* budgets: gated calls only reach announced games, a correlated relay      *)
(* never returns another call's answer, and a wait behind the mutex does    *)
(* not time out on an answer that came.                                    *)
EXTENDS DebuggerRelay, TLAPS

CallRec == [pc: {"idle", "gate", "wait", "done"}, left: Int, gate: Int, out: Outcomes]

(* The types of the state the properties speak of; the order of the         *)
(* waiters plays no part in them.                                           *)
Shapes ==
  /\ game \in [playing: BOOLEAN, alive: BOOLEAN, run: 0..MaxRuns, up: BOOLEAN,
               breaked: BOOLEAN, inGame: SUBSET Call,
               announced: SUBSET (1..MaxRuns), ready: SUBSET (1..MaxRuns)]
  /\ plug \in [active: 0..MaxRuns, bridgeReady: BOOLEAN, response: Call \cup {None}]
  /\ call \in [Call -> CallRec]
  /\ sig \in [pending: BOOLEAN, result: Call \cup {None}, connected: BOOLEAN]

(* Sessions only come from launches, and announcements from sessions.       *)
FromLaunches ==
  /\ game.up \/ game.alive => game.run \in 1..MaxRuns
  /\ game.ready \subseteq game.announced

(* The readiness flag speaks of the session that is active.                 *)
FlagOfActive == plug.bridgeReady => plug.active = 0 \/ plug.active \in game.announced

IInv == Shapes /\ FromLaunches /\ FlagOfActive /\ CorrelatedIsRight

-----------------------------------------------------------------------------
(* What the ends of a turn do to the calls: they touch one call, and only   *)
(* Return gives an outcome.                                                 *)

LEMMA ReturnEffect ==
  ASSUME Shapes, NEW c \in Call, NEW o \in Outcomes, Return(c, o),
         CorrelatedIsRight, Correlated => (o \in Call => o = c)
  PROVE  /\ call' \in [Call -> CallRec]
         /\ \A d \in Call : call'[d].pc = "wait" => call[d].pc = "wait"
         /\ Correlated => RightAnswer'
<1>1. call \in [Call -> CallRec] /\ call' = [call EXCEPT ![c] = [@ EXCEPT !.pc = "done", !.out = o]]
  BY DEF Shapes, Return
<1>2. call'[c] = [call[c] EXCEPT !.pc = "done", !.out = o] /\ \A d \in Call \ {c} : call'[d] = call[d]
  BY <1>1
<1>3. [call[c] EXCEPT !.pc = "done", !.out = o] \in CallRec /\ call'[c].pc = "done" /\ call'[c].out = o
  <2>1. call[c] \in CallRec
    BY <1>1
  <2> QED BY <2>1, <1>2 DEF CallRec
<1>4. call' \in [Call -> CallRec]
  BY <1>1, <1>3
<1>5. Correlated => RightAnswer'
  BY <1>2, <1>3 DEF RightAnswer, CorrelatedIsRight
<1>6. \A d \in Call : call'[d].pc = "wait" => call[d].pc = "wait"
  BY <1>2, <1>3
<1> QED BY <1>4, <1>5, <1>6

LEMMA SuspendEffect ==
  ASSUME Shapes, NEW c \in Call, NEW pc \in {"gate", "wait"},
         NEW left \in Int, NEW gate \in Int,
         Suspend(c, pc, left, gate), CorrelatedIsRight
  PROVE  /\ call' \in [Call -> CallRec]
         /\ \A d \in Call : d # c \/ pc = "gate" => (call'[d].pc = "wait" => call[d].pc = "wait")
         /\ Correlated => RightAnswer'
<1>1. call \in [Call -> CallRec]
      /\ call' = [call EXCEPT ![c] = [@ EXCEPT !.pc = pc, !.left = left, !.gate = gate]]
  BY DEF Shapes, Suspend
<1>2. call'[c] = [call[c] EXCEPT !.pc = pc, !.left = left, !.gate = gate]
      /\ \A d \in Call \ {c} : call'[d] = call[d]
  BY <1>1
<1>3. /\ [call[c] EXCEPT !.pc = pc, !.left = left, !.gate = gate] \in CallRec
      /\ call'[c].pc = pc /\ call'[c].out = call[c].out
  <2>1. call[c] \in CallRec
    BY <1>1
  <2> QED BY <2>1, <1>2 DEF CallRec
<1>4. call' \in [Call -> CallRec]
  BY <1>1, <1>3
<1>5. Correlated => RightAnswer'
  BY <1>2, <1>3 DEF RightAnswer, CorrelatedIsRight
<1>6. \A d \in Call : d # c \/ pc = "gate" => (call'[d].pc = "wait" => call[d].pc = "wait")
  BY <1>2, <1>3
<1> QED BY <1>4, <1>5, <1>6

(* A message is sent, and nothing else of the session changes.              *)
LEMMA SendEffect ==
  ASSUME IInv, UNCHANGED style, NEW c \in Call, NEW left \in Int, Send(c, left)
  PROVE  /\ IInv'
         /\ \A d \in Call : d # c => (call'[d].pc = "wait" => call[d].pc = "wait")
<1>1. Suspend(c, "wait", left, call[c].gate) /\ call[c].gate \in Int
  BY DEF IInv, Shapes, CallRec, Send
<1>2. call' \in [Call -> CallRec]
      /\ (\A d \in Call : d # c => (call'[d].pc = "wait" => call[d].pc = "wait"))
      /\ (Correlated => RightAnswer')
  BY <1>1, SuspendEffect DEF IInv
<1>3. Shapes'
  BY <1>2 DEF IInv, Shapes, Send, Deliver
<1>4. FromLaunches' /\ FlagOfActive'
  BY DEF IInv, Shapes, Send, FromLaunches, FlagOfActive
<1> QED BY <1>2, <1>3, <1>4 DEF IInv, CorrelatedIsRight, Correlated

(* A turn at the gate keeps the invariant, and sends only to a session      *)
(* whose bridge announced itself.                                           *)
LEMMA GateTurnEffect ==
  ASSUME IInv, UNCHANGED style, NEW c \in Call, NEW left \in Int, NEW gate \in Int,
         GateTurn(c, left, gate)
  PROVE  /\ IInv'
         /\ \A d \in Call : call[d].pc # "wait" /\ call'[d].pc = "wait" => plug.active \in game.announced
<1>1. CASE IsBridgeReady /\ Send(c, left)
  <2>1. plug.active \in game.announced
    BY <1>1 DEF IInv, FlagOfActive, IsBridgeReady, HasActiveSession
  <2> QED BY <1>1, <2>1, SendEffect
<1>2. CASE /\ ~IsBridgeReady /\ plug' = AfterBridgeReadyCheck /\ UNCHANGED <<game, sig>>
           /\ IF game.playing THEN Suspend(c, "gate", left, gate) ELSE Return(c, "ERROR")
  <2>1. plug' \in [active: 0..MaxRuns, bridgeReady: BOOLEAN, response: Call \cup {None}]
        /\ FlagOfActive' /\ FromLaunches'
    BY <1>2, BoundsAssumption DEF IInv, Shapes, AfterBridgeReadyCheck, FlagOfActive, FromLaunches
  <2>2. /\ call' \in [Call -> CallRec]
        /\ \A d \in Call : call'[d].pc = "wait" => call[d].pc = "wait"
        /\ Correlated => RightAnswer'
    <3>1. CASE game.playing
      BY <3>1, <1>2, SuspendEffect DEF IInv
    <3>2. CASE ~game.playing
      <4>1. "ERROR" \in Outcomes /\ ("ERROR" \in Call => "ERROR" = c)
        BY NamesAssumption DEF Outcomes
      <4> QED BY <3>2, <1>2, <4>1, ReturnEffect DEF IInv
    <3> QED BY <3>1, <3>2
  <2>3. Shapes'
    BY <1>2, <2>1, <2>2 DEF IInv, Shapes
  <2> QED BY <2>1, <2>2, <2>3 DEF IInv, CorrelatedIsRight, Correlated
<1> QED BY <1>1, <1>2 DEF GateTurn

-----------------------------------------------------------------------------
(* The calls' own steps. *)

(* What a step may not do: start the wait of a gated call in a session that *)
(* has not announced itself.                                                *)
GatedStep ==
  Gated => \A d \in Call : call[d].pc # "wait" /\ call'[d].pc = "wait" => plug.active \in game.announced

(* A call returns while the session's state is only cleared of its answer.  *)
LEMMA ReturnStep ==
  ASSUME IInv, UNCHANGED style, NEW c \in Call, NEW o \in Outcomes, Return(c, o),
         Correlated => (o \in Call => o = c),
         game' = game \/ game' = [game EXCEPT !.breaked = FALSE],
         sig' \in [pending: BOOLEAN, result: Call \cup {None}, connected: BOOLEAN],
         plug' = plug \/ plug' = [plug EXCEPT !.response = None]
  PROVE  IInv' /\ GatedStep
<1>1. /\ call' \in [Call -> CallRec]
      /\ \A d \in Call : call'[d].pc = "wait" => call[d].pc = "wait"
      /\ Correlated => RightAnswer'
  BY ReturnEffect DEF IInv
<1>2. plug' \in [active: 0..MaxRuns, bridgeReady: BOOLEAN, response: Call \cup {None}]
      /\ plug'.active = plug.active /\ plug'.bridgeReady = plug.bridgeReady
  BY DEF IInv, Shapes
<1>3. Shapes'
  BY <1>1, <1>2 DEF IInv, Shapes
<1>4. FromLaunches' /\ FlagOfActive'
  BY <1>2 DEF IInv, Shapes, FromLaunches, FlagOfActive
<1> QED BY <1>1, <1>3, <1>4 DEF IInv, GatedStep, CorrelatedIsRight, Correlated

(* A waiting call waits on.                                                 *)
LEMMA WaitStep ==
  ASSUME IInv, UNCHANGED style, NEW c \in Call, call[c].pc = "wait", NEW left \in Int,
         Suspend(c, "wait", left, call[c].gate), UNCHANGED sig,
         game' = game \/ game' = [game EXCEPT !.breaked = FALSE],
         plug' = plug \/ plug' = [plug EXCEPT !.response = None]
  PROVE  IInv' /\ GatedStep
<1>1. call[c].gate \in Int
  BY DEF IInv, Shapes, CallRec
<1>2. /\ call' \in [Call -> CallRec]
      /\ \A d \in Call : d # c => (call'[d].pc = "wait" => call[d].pc = "wait")
      /\ Correlated => RightAnswer'
  BY <1>1, SuspendEffect DEF IInv
<1>3. /\ plug' \in [active: 0..MaxRuns, bridgeReady: BOOLEAN, response: Call \cup {None}]
      /\ plug'.active = plug.active /\ plug'.bridgeReady = plug.bridgeReady
  BY DEF IInv, Shapes
<1>4. Shapes'
  BY <1>2, <1>3 DEF IInv, Shapes
<1>5. FromLaunches' /\ FlagOfActive'
  BY <1>3 DEF IInv, Shapes, FromLaunches, FlagOfActive
<1>6. GatedStep
  BY <1>2 DEF GatedStep
<1> QED BY <1>2, <1>4, <1>5, <1>6 DEF IInv, CorrelatedIsRight, Correlated

LEMMA StartCallStep == ASSUME IInv, NEW c \in Call, StartCall(c) PROVE IInv' /\ GatedStep
<1>0. UNCHANGED style
  BY DEF StartCall
<1> USE <1>0
<1>1. CASE Return(c, "REFUSED") /\ UNCHANGED <<game, plug, sig>>
  <2>1. "REFUSED" \in Outcomes /\ "REFUSED" \notin Call
    BY NamesAssumption DEF Outcomes
  <2> QED BY <1>1, <2>1, ReturnStep DEF IInv, Shapes
<1>2. CASE Return(c, "ERROR") /\ UNCHANGED <<game, plug, sig>>
  <2>1. "ERROR" \in Outcomes /\ "ERROR" \notin Call
    BY NamesAssumption DEF Outcomes
  <2> QED BY <1>2, <2>1, ReturnStep DEF IInv, Shapes
<1>3. CASE Gated /\ GateTurn(c, Budget, ReadyBudget)
  <2>1. Budget \in Int /\ ReadyBudget \in Int
    BY BoundsAssumption
  <2> QED BY <1>3, <2>1, GateTurnEffect DEF GatedStep
<1>4. CASE ~Gated /\ Send(c, Budget)
  <2>1. Budget \in Int
    BY BoundsAssumption
  <2> QED BY <1>4, <2>1, SendEffect DEF GatedStep
<1> QED BY <1>1, <1>2, <1>3, <1>4 DEF StartCall

LEMMA PollStep == ASSUME IInv, NEW c \in Call, Poll(c) PROVE IInv' /\ GatedStep
<1> USE DEF Outcomes
<1>s. UNCHANGED style
  BY DEF Poll
<1> USE <1>s
<1>0. /\ call[c].left \in Int /\ call[c].gate \in Int /\ plug.response \in Call \cup {None}
      /\ sig \in [pending: BOOLEAN, result: Call \cup {None}, connected: BOOLEAN]
      /\ {"ERROR", "TIMEOUT", "EMPTY"} \cap Call = {}
  BY NamesAssumption DEF IInv, Shapes, CallRec
<1>1. CASE call[c].pc = "gate" /\ PollGate(c)
  <2>1. CASE Return(c, "ERROR") /\ UNCHANGED <<game, plug, sig>>
    BY <2>1, <1>0, ReturnStep
  <2>2. CASE GateTurn(c, IF style = "input" THEN call[c].left - 1 ELSE call[c].left, call[c].gate - 1)
    <3>1. (IF style = "input" THEN call[c].left - 1 ELSE call[c].left) \in Int /\ call[c].gate - 1 \in Int
      BY <1>0
    <3> QED BY <2>2, <3>1, GateTurnEffect DEF GatedStep
  <2> QED BY <1>1, <2>1, <2>2 DEF PollGate
<1>2. CASE call[c].pc = "wait" /\ BySignal /\ PollSignal(c)
  <2>1. ~Correlated
    BY <1>2 DEF BySignal, Correlated
  <2>2. CASE /\ Return(c, "TIMEOUT") /\ UNCHANGED <<game, plug>>
             /\ sig' = [sig EXCEPT !.pending = FALSE, !.connected = FALSE]
    <3>1. sig' \in [pending: BOOLEAN, result: Call \cup {None}, connected: BOOLEAN]
      BY <2>2, <1>0
    <3> QED BY <2>1, <2>2, <3>1, ReturnStep
  <2>3. CASE KeepWaiting(c) /\ UNCHANGED <<game, plug, sig>>
    <3>1. call[c].left - 1 \in Int
      BY <1>0
    <3> QED BY <1>2, <2>3, <3>1, WaitStep DEF KeepWaiting
  <2>4. CASE /\ Return(c, IF sig.result = None THEN "EMPTY" ELSE sig.result)
             /\ UNCHANGED <<game, plug, sig>>
    <3>1. (IF sig.result = None THEN "EMPTY" ELSE sig.result) \in Outcomes
      BY <1>0
    <3> QED BY <2>1, <2>4, <3>1, <1>0, ReturnStep
  <2> QED BY <1>2, <2>2, <2>3, <2>4 DEF PollSignal
<1>3. CASE call[c].pc = "wait" /\ Correlated /\ PollCorrelated(c)
  <2>0. game' = game \/ game' = [game EXCEPT !.breaked = FALSE]
    BY <1>3 DEF PollCorrelated, ContinueSession
  <2>1. CASE Return(c, c) /\ plug' = [plug EXCEPT !.response = None] /\ UNCHANGED sig
    BY <2>0, <2>1, <1>0, ReturnStep
  <2>2. CASE /\ Suspend(c, "wait", Tick(call[c].left), call[c].gate)
             /\ plug' = [plug EXCEPT !.response = None] /\ UNCHANGED sig
    <3>1. Tick(call[c].left) \in Int
      BY <1>0 DEF Tick
    <3> QED BY <1>3, <2>0, <2>2, <3>1, WaitStep
  <2>3. CASE TimeOut(c) /\ UNCHANGED sig
    BY <2>0, <2>3, <1>0, ReturnStep DEF TimeOut
  <2>4. CASE KeepWaiting(c) /\ UNCHANGED <<plug, sig>>
    <3>1. call[c].left - 1 \in Int
      BY <1>0
    <3> QED BY <1>3, <2>0, <2>4, <3>1, WaitStep DEF KeepWaiting
  <2> QED BY <1>3, <2>1, <2>2, <2>3, <2>4 DEF PollCorrelated
<1>4. CASE call[c].pc = "wait" /\ ~Correlated /\ PollPlain(c)
  <2>1. CASE TimeOut(c) /\ UNCHANGED <<game, sig>>
    BY <2>1, <1>0, <1>4, ReturnStep DEF TimeOut
  <2>2. CASE KeepWaiting(c) /\ UNCHANGED <<game, plug, sig>>
    <3>1. call[c].left - 1 \in Int
      BY <1>0
    <3> QED BY <1>4, <2>2, <3>1, WaitStep DEF KeepWaiting
  <2>3. CASE Return(c, plug.response) /\ plug' = [plug EXCEPT !.response = None] /\ UNCHANGED <<game, sig>>
    BY <2>3, <1>0, <1>4, ReturnStep
  <2> QED BY <1>4, <2>1, <2>2, <2>3 DEF PollPlain
<1> QED BY <1>1, <1>2, <1>3, <1>4 DEF Poll

-----------------------------------------------------------------------------
(* The invariant, and the properties.                                       *)

LEMMA InitIInv == Init => IInv
<1> SUFFICES ASSUME Init PROVE IInv
  OBVIOUS
<1>1. call \in [Call -> CallRec]
  BY BoundsAssumption DEF Init, CallRec, Outcomes
<1>2. Shapes
  BY <1>1, BoundsAssumption DEF Init, Shapes
<1>3. RightAnswer
  BY NamesAssumption DEF Init, RightAnswer
<1> QED BY <1>2, <1>3 DEF IInv, Init, FromLaunches, FlagOfActive, CorrelatedIsRight

(* The steps of the game, the debugger and run_project leave the calls be:  *)
(* they have to keep the session's state together.                          *)
LEMMA CallKept ==
  ASSUME IInv, UNCHANGED <<call, style>>, Shapes', FromLaunches', FlagOfActive'
  PROVE  IInv' /\ GatedStep
<1>1. CorrelatedIsRight'
  BY DEF IInv, CorrelatedIsRight, Correlated, RightAnswer
<1>2. GatedStep
  BY DEF GatedStep
<1> QED BY <1>1, <1>2 DEF IInv

LEMMA NextStep == ASSUME IInv, [Next]_vars PROVE IInv' /\ GatedStep
<1> USE DEF IInv, Shapes, FromLaunches, FlagOfActive
<1>1. CASE StopGame
  BY <1>1, CallKept DEF StopGame, RunEnds
<1>2. CASE PlayConfirmed
  BY <1>2, CallKept DEF PlayConfirmed
<1>3. CASE SetupSession
  BY <1>3, CallKept, BoundsAssumption DEF SetupSession
<1>4. CASE Announce
  BY <1>4, CallKept, BoundsAssumption DEF Announce
<1>5. CASE GameBreaks
  BY <1>5, CallKept DEF GameBreaks
<1>6. ASSUME NEW id \in 1..MaxRuns, HandleBridgeReady(id) PROVE IInv' /\ GatedStep
  <2>1. /\ game' = [game EXCEPT !.ready = @ \ {id}] /\ id \in game.announced
        /\ plug' = [plug EXCEPT !.bridgeReady = @ \/ id = plug.active]
    BY <1>6 DEF HandleBridgeReady
  <2>2. (plug.bridgeReady \/ id = plug.active) \in BOOLEAN
    OBVIOUS
  <2>3. plug'.active = plug.active /\ plug'.bridgeReady = (plug.bridgeReady \/ id = plug.active)
    BY <2>1
  <2>4. plug' \in [active: 0..MaxRuns, bridgeReady: BOOLEAN, response: Call \cup {None}]
    BY <2>1, <2>2
  <2>5. Shapes' /\ FromLaunches'
    BY <1>6, <2>1, <2>4 DEF HandleBridgeReady
  <2>6. FlagOfActive'
    BY <2>1, <2>3
  <2> QED BY <1>6, <2>5, <2>6, CallKept DEF HandleBridgeReady
<1>7. ASSUME NEW c \in Call, HandleGameResponse(c) PROVE IInv' /\ GatedStep
  <2>1. sig' \in [pending: BOOLEAN, result: Call \cup {None}, connected: BOOLEAN]
        /\ plug' \in [active: 0..MaxRuns, bridgeReady: BOOLEAN, response: Call \cup {None}]
        /\ plug'.active = plug.active /\ plug'.bridgeReady = plug.bridgeReady
    BY <1>7 DEF HandleGameResponse
  <2> QED BY <1>7, <2>1, CallKept DEF HandleGameResponse
<1>8. ASSUME NEW c \in Call, StartCall(c) PROVE IInv' /\ GatedStep
  BY <1>8, StartCallStep
<1>9. ASSUME NEW c \in Call, Poll(c) PROVE IInv' /\ GatedStep
  BY <1>9, PollStep
<1>10. CASE RunProject
  <2>1. PICK left \in SUBSET game.inGame :
          game' = [RunEnds(game, left) EXCEPT !.alive = TRUE, !.run = @ + 1, !.up = FALSE]
    BY <1>10 DEF RunProject
  <2>2. game.run + 1 \in 1..MaxRuns
    BY <1>10, BoundsAssumption DEF RunProject
  <2>3. RunEnds(game, left) \in [playing: BOOLEAN, alive: BOOLEAN, run: 0..MaxRuns, up: BOOLEAN,
               breaked: BOOLEAN, inGame: SUBSET Call,
               announced: SUBSET (1..MaxRuns), ready: SUBSET (1..MaxRuns)]
        /\ RunEnds(game, left).run = game.run
        /\ RunEnds(game, left).announced = game.announced /\ RunEnds(game, left).ready = game.ready
    BY DEF RunEnds
  <2>4. game.run + 1 \in 0..MaxRuns
    BY <2>2
  <2> HIDE DEF IInv, Shapes
  <2>5. /\ game' \in [playing: BOOLEAN, alive: BOOLEAN, run: 0..MaxRuns, up: BOOLEAN,
               breaked: BOOLEAN, inGame: SUBSET Call,
               announced: SUBSET (1..MaxRuns), ready: SUBSET (1..MaxRuns)]
        /\ game'.run = game.run + 1
        /\ game'.announced = game.announced /\ game'.ready = game.ready
    BY <2>1, <2>3, <2>4
  <2> USE DEF IInv, Shapes
  <2>6. Shapes' /\ FromLaunches' /\ FlagOfActive'
    BY <1>10, <2>2, <2>5 DEF RunProject
  <2> QED BY <1>10, <2>6, CallKept DEF RunProject
<1>11. CASE PollRun
  BY <1>11, CallKept DEF PollRun
<1>12. CASE Frame
  BY <1>12, CallKept DEF Frame
<1>13. CASE UNCHANGED vars
  BY <1>13, CallKept DEF vars
<1> QED BY <1>1, <1>2, <1>3, <1>4, <1>5, <1>6, <1>7, <1>8, <1>9, <1>10, <1>11, <1>12, <1>13 DEF Next

LEMMA Invariance == Spec => []IInv
<1>1. IInv /\ [Next]_vars => IInv'
  BY NextStep
<1> QED BY InitIInv, <1>1, PTL DEF Spec

(* A relay that compares call ids never returns another call's answer,      *)
(* however late or in whatever order the game's answers come.               *)
THEOREM CorrelatedRelayIsRight == Spec => []CorrelatedIsRight
<1>1. IInv => CorrelatedIsRight
  BY DEF IInv
<1> QED BY Invariance, <1>1, PTL

-----------------------------------------------------------------------------
(* Readiness: an announcement is needed before the flag rises, and the flag *)
(* before run_project says bridge_ready.                                    *)

RunnerRec == [pc: {"idle", "wait"}, settle: Int, seen: BOOLEAN, grace: Int, left: Int,
              out: {None} \cup BOOLEAN]

Heard ==
  /\ runner \in RunnerRec
  /\ game.announced \subseteq 1..game.run
  /\ plug.bridgeReady => game.announced # {}
  /\ runner.out = TRUE => game.announced # {}

(* A look that says TRUE saw the flag.                                      *)
LEMMA LookSawFlag ==
  ASSUME NEW r, ReadyLook(r) = TRUE PROVE plug.bridgeReady
BY NamesAssumption DEF ReadyLook

LEMMA HeardInit == Init => Heard
<1> SUFFICES ASSUME Init PROVE Heard
  OBVIOUS
<1>1. runner \in RunnerRec
  BY BoundsAssumption DEF Init, RunnerRec
<1>2. runner.out # TRUE /\ game.announced = {} /\ ~plug.bridgeReady
  BY NamesAssumption DEF Init
<1> QED BY <1>1, <1>2 DEF Heard

LEMMA HeardStep == ASSUME IInv, Heard, [Next]_vars PROVE Heard'
<1>0. /\ game.announced \subseteq 1..game.run /\ game.run \in 0..MaxRuns /\ runner \in RunnerRec
      /\ game \in [playing: BOOLEAN, alive: BOOLEAN, run: 0..MaxRuns, up: BOOLEAN,
                    breaked: BOOLEAN, inGame: SUBSET Call,
                    announced: SUBSET (1..MaxRuns), ready: SUBSET (1..MaxRuns)]
      /\ plug \in [active: 0..MaxRuns, bridgeReady: BOOLEAN, response: Call \cup {None}]
  BY DEF IInv, Shapes, Heard
<1>k. ASSUME UNCHANGED runner, game'.announced = game.announced, game'.run = game.run,
             plug'.bridgeReady = plug.bridgeReady
      PROVE  Heard'
  BY <1>k DEF Heard
<1>1. CASE StopGame
  BY <1>1, <1>k, <1>0 DEF StopGame, RunEnds
<1>2. CASE PlayConfirmed \/ GameBreaks
  BY <1>2, <1>k, <1>0 DEF PlayConfirmed, GameBreaks
<1>3. CASE SetupSession
  BY <1>3, <1>0 DEF SetupSession, Heard
<1>4. CASE Announce
  <2>1. game'.announced = game.announced \cup {game.run} /\ game'.run = game.run
        /\ UNCHANGED <<plug, runner>> /\ game.run \in 1..game.run
    BY <1>4, <1>0 DEF Announce, IInv, FromLaunches
  <2> QED BY <2>1, <1>0 DEF Heard
<1>5. ASSUME NEW id \in 1..MaxRuns, HandleBridgeReady(id) PROVE Heard'
  BY <1>5, <1>0 DEF HandleBridgeReady, Heard, IInv, FromLaunches
<1>6. ASSUME NEW c \in Call, HandleGameResponse(c) PROVE Heard'
  BY <1>6, <1>k, <1>0 DEF HandleGameResponse
<1>7. ASSUME NEW c \in Call, StartCall(c) \/ Poll(c) PROVE Heard'
  <2>1. UNCHANGED runner
    BY <1>7 DEF StartCall, Poll
  <2>2. ASSUME NEW left, Send(c, left) PROVE Heard'
    BY <2>1, <2>2, <1>k, <1>0 DEF Send
  <2>3. ASSUME NEW left, NEW gate, GateTurn(c, left, gate) PROVE Heard'
    BY <2>1, <2>2, <2>3, <1>k, <1>0 DEF GateTurn, AfterBridgeReadyCheck
  <2>4. ASSUME game' = game \/ game' = [game EXCEPT !.breaked = FALSE],
               plug' = plug \/ plug' = [plug EXCEPT !.response = None]
        PROVE  Heard'
    BY <2>1, <2>4, <1>k, <1>0
  <2>5. CASE StartCall(c)
    BY <2>2, <2>3, <2>4, <2>5 DEF StartCall
  <2>6. CASE Poll(c)
    BY <2>3, <2>4, <2>6
       DEF Poll, PollGate, PollSignal, PollCorrelated, PollPlain, TimeOut, ContinueSession
  <2> QED BY <1>7, <2>5, <2>6
<1>8. ASSUME NEW r \in RunnerRec, runner' = [r EXCEPT !.pc = "wait", !.seen = @ \/ game'.playing]
      PROVE  runner' \in RunnerRec /\ runner'.out = r.out
  <2>1. (r.seen \/ game'.playing) \in BOOLEAN
    OBVIOUS
  <2> QED BY <2>1, <1>8 DEF RunnerRec
<1>9. ASSUME NEW r \in RunnerRec, r.out = runner.out \/ r.out = None, UNCHANGED plug,
             game'.announced = game.announced, game'.run \in {game.run, game.run + 1},
             \/ runner' = [r EXCEPT !.pc = "wait", !.seen = @ \/ game'.playing]
             \/ runner' = [r EXCEPT !.pc = "idle", !.out = FALSE]
             \/ ReadyLook(r) # None /\ runner' = [r EXCEPT !.pc = "idle", !.out = ReadyLook(r)]
      PROVE  Heard'
  <2>1. game'.announced \subseteq 1..game'.run
    BY <1>9, <1>0
  <2>2. ReadyLook(r) \in {None} \cup BOOLEAN /\ (ReadyLook(r) = TRUE => plug.bridgeReady)
    BY LookSawFlag DEF ReadyLook
  <2>3. runner' \in RunnerRec
    BY <1>8, <1>9, <2>2 DEF RunnerRec
  <2>4. runner'.out = TRUE => runner.out = TRUE \/ plug.bridgeReady
    BY <1>8, <1>9, <2>2, NamesAssumption DEF RunnerRec
  <2> QED BY <1>9, <2>1, <2>3, <2>4 DEF Heard
<1>10. CASE RunProject
  <2> DEFINE fresh == [pc |-> "wait", settle |-> 0, seen |-> FALSE,
                       grace |-> RampGrace, left |-> RunTimeout, out |-> None]
  <2>1. fresh \in RunnerRec /\ fresh.out = None
    BY BoundsAssumption DEF RunnerRec
  <2>2. game'.announced = game.announced /\ game'.run = game.run + 1
    BY <1>10, <1>0 DEF RunProject, RunEnds
  <2>3. UNCHANGED plug
    BY <1>10 DEF RunProject
  <2>4. \/ RunWaits([fresh EXCEPT !.settle = 2])
        \/ RunWaits(fresh)
        \/ ReadyLook(fresh) # None /\ RunReturns(fresh, ReadyLook(fresh))
    BY <1>10 DEF RunProject
  <2> HIDE DEF fresh
  <2>5. [fresh EXCEPT !.settle = 2] \in RunnerRec /\ [fresh EXCEPT !.settle = 2].out = None
    BY <2>1 DEF RunnerRec
  <2> QED BY <2>1, <2>5, <2>2, <2>3, <2>4, <1>9 DEF RunWaits, RunReturns
<1>11. CASE PollRun
  <2> DEFINE late == [runner EXCEPT !.grace = Tick(@), !.left = Tick(@)]
  <2>1. late \in RunnerRec /\ late.out = runner.out
    <3>1. Tick(runner.grace) \in Int /\ Tick(runner.left) \in Int
      BY <1>0 DEF RunnerRec, Tick
    <3>2. late = [runner EXCEPT !.grace = Tick(runner.grace), !.left = Tick(runner.left)]
      OBVIOUS
    <3> QED BY <3>1, <3>2, <1>0 DEF RunnerRec
  <2>2. UNCHANGED <<plug, game>>
    BY <1>11 DEF PollRun
  <2>3. \/ runner' = [runner EXCEPT !.settle = @ - 1]
        \/ RunWaits(late)
        \/ RunReturns(late, FALSE)
        \/ ReadyLook(late) # None /\ RunReturns(late, ReadyLook(late))
    BY <1>11 DEF PollRun
  <2>4. CASE runner' = [runner EXCEPT !.settle = @ - 1]
    <3>1. runner.settle \in Int
      BY <1>0 DEF RunnerRec
    <3>2. runner' \in RunnerRec /\ runner'.out = runner.out
      BY <2>4, <3>1, <1>0 DEF RunnerRec
    <3> QED BY <2>2, <3>2 DEF Heard
  <2> HIDE DEF late
  <2> QED BY <2>1, <2>2, <2>3, <2>4, <1>9, <1>0 DEF RunWaits, RunReturns
<1>12. CASE Frame
  BY <1>12, <1>k DEF Frame
<1>13. CASE UNCHANGED vars
  BY <1>13, <1>k DEF vars
<1> QED BY <1>1, <1>2, <1>3, <1>4, <1>5, <1>6, <1>7, <1>10, <1>11, <1>12, <1>13 DEF Next

(* No gated call is sent before the bridge of its session announced itself, *)
(* and run_project says bridge_ready of an editor's first launch only once  *)
(* that launch's bridge did: an announcement of an earlier run opens no     *)
(* gate.                                                                    *)
THEOREM GateHolds == Spec => FirstLaunchGated
<1>1. IInv /\ [Next]_vars => [Gated => SendsToAnnounced]_vars
  BY NextStep DEF GatedStep, SendsToAnnounced
<1>2. IInv /\ Heard /\ [Next]_vars => Heard'
  BY HeardStep
<1>3. IInv /\ Heard => (game.run = 1 => RunReadyMeansAnnounced)
  BY DEF Heard, RunReadyMeansAnnounced
<1> QED BY Invariance, HeardInit, <1>1, <1>2, <1>3, PTL DEF Spec, FirstLaunchGated, GatedSend

-----------------------------------------------------------------------------
(* The mutex of wait_for_signal: one wait at a time.                        *)

(* Who may still have an answer coming, and what became of one that came:   *)
(* only the call behind the mutex waits; every other call whose answer is   *)
(* on its way, or in the slot, timed out; the answer of the waiting call    *)
(* is in the slot unless another call's took its place.                     *)
OneWaits ==
  /\ inFlight \in BOOLEAN
  /\ \A c \in Call :
       /\ call[c].pc # "gate"
       /\ call[c].pc = "wait" => inFlight /\ \A d \in Call : call[d].pc = "wait" => d = c
       /\ call[c].pc # "done" => call[c].out = None
       /\ c \in game.inGame \/ plug.response = c => call[c].pc = "wait" \/ call[c].out = "TIMEOUT"
       /\ c \in game.inGame => plug.response # c
       /\ c \in answered => call[c].pc # "idle"
OthersTimedOut(c) == \E d \in Call \ {c} : call[d].out = "TIMEOUT"
AnswerKept ==
  \A c \in Call : c \in answered =>
    /\ call[c].pc = "wait" => plug.response = c \/ OthersTimedOut(c)
    /\ call[c].out = "TIMEOUT" => OthersTimedOut(c)

WInv == Exclusive => OneWaits /\ AnswerKept

LEMMA WInvInit == Init => WInv
<1> SUFFICES ASSUME Init PROVE OneWaits /\ AnswerKept
  BY DEF WInv
<1>1. \A c \in Call : call[c].pc = "idle" /\ call[c].out = None
  BY DEF Init
<1>2. game.inGame = {} /\ plug.response = None /\ answered = {} /\ inFlight = FALSE
  BY DEF Init
<1> QED BY <1>1, <1>2, NamesAssumption DEF OneWaits, AnswerKept

LEMMA WInvStep == ASSUME IInv, WInv, [Next]_vars PROVE WInv'
<1> SUFFICES ASSUME Exclusive, OneWaits, AnswerKept PROVE OneWaits' /\ AnswerKept'
  BY DEF WInv, Exclusive, Next, vars, StopGame, PlayConfirmed, SetupSession, Announce, GameBreaks,
    HandleBridgeReady, HandleGameResponse, StartCall, Poll, RunProject, PollRun, Frame
<1>0. /\ call \in [Call -> CallRec] /\ game.inGame \subseteq Call /\ plug.response \in Call \cup {None}
      /\ game \in [playing: BOOLEAN, alive: BOOLEAN, run: 0..MaxRuns, up: BOOLEAN,
                    breaked: BOOLEAN, inGame: SUBSET Call,
                    announced: SUBSET (1..MaxRuns), ready: SUBSET (1..MaxRuns)]
      /\ plug \in [active: 0..MaxRuns, bridgeReady: BOOLEAN, response: Call \cup {None}]
      /\ ~BySignal /\ ~Gated /\ Correlated
      /\ None \notin Call /\ None # "TIMEOUT"
  BY NamesAssumption DEF IInv, Shapes, Exclusive, BySignal, Gated, Correlated
<1>k. ASSUME UNCHANGED <<call, answered, inFlight>>, plug'.response = plug.response,
             game'.inGame \subseteq game.inGame
      PROVE  OneWaits' /\ AnswerKept'
  BY <1>k DEF OneWaits, AnswerKept, OthersTimedOut
<1>1. CASE StopGame
  BY <1>1, <1>k, <1>0 DEF StopGame, RunEnds
<1>2. CASE PlayConfirmed \/ GameBreaks \/ Announce \/ SetupSession
  BY <1>2, <1>k, <1>0 DEF PlayConfirmed, GameBreaks, Announce, SetupSession
<1>3. ASSUME NEW id \in 1..MaxRuns, HandleBridgeReady(id) PROVE OneWaits' /\ AnswerKept'
  BY <1>3, <1>k, <1>0 DEF HandleBridgeReady
<1>4. ASSUME NEW c \in Call, HandleGameResponse(c) PROVE OneWaits' /\ AnswerKept'
  <2>1. /\ UNCHANGED <<call, inFlight>> /\ plug'.response = c /\ c \in game.inGame
        /\ game'.inGame = game.inGame \ {c}
        /\ answered' = IF call[c].pc = "wait" THEN answered \cup {c} ELSE answered
    BY <1>4, <1>0 DEF HandleGameResponse
  <2>2. OneWaits'
    BY <2>1, <1>0 DEF OneWaits
  <2>3. call[c].pc = "wait" => call[c].out = None
    BY <1>0 DEF OneWaits
  <2>4. ASSUME NEW d \in Call, d # c, call[d].pc = "wait" PROVE OthersTimedOut(d)
    BY <2>1, <2>4 DEF OneWaits, OthersTimedOut
  <2>5. AnswerKept'
    BY <2>1, <2>3, <2>4, <1>0 DEF AnswerKept, OthersTimedOut
  <2> QED BY <2>2, <2>5
<1>5. ASSUME NEW c \in Call, NEW o, call[c].pc = "idle", Return(c, o), o # "TIMEOUT",
             UNCHANGED <<game, plug, answered>>
      PROVE  OneWaits' /\ AnswerKept'
  <2>1. /\ call'[c].pc = "done" /\ call'[c].out = o /\ (\A d \in Call \ {c} : call'[d] = call[d])
        /\ inFlight' = inFlight
    BY <1>5, <1>0 DEF Return, CallRec, OneWaits
  <2> QED BY <1>5, <2>1, <1>0 DEF OneWaits, AnswerKept, OthersTimedOut
<1>s. ASSUME NEW c \in Call, NEW left, NEW gate, Suspend(c, "wait", left, gate)
      PROVE  /\ call'[c].pc = "wait" /\ call'[c].out = call[c].out /\ inFlight' = TRUE
             /\ \A d \in Call \ {c} : call'[d] = call[d]
  <2>1. call' = [call EXCEPT ![c] = [@ EXCEPT !.pc = "wait", !.left = left, !.gate = gate]]
        /\ inFlight' = TRUE
    BY <1>s DEF Suspend
  <2>2. call[c] \in CallRec
    BY <1>0
  <2> QED BY <2>1, <2>2, <1>0 DEF CallRec
<1>6. ASSUME NEW c \in Call, StartCall(c) PROVE OneWaits' /\ AnswerKept'
  <2>1. CASE (Return(c, "REFUSED") \/ Return(c, "ERROR")) /\ UNCHANGED <<game, plug, sig>>
    BY <1>5, <1>6, <2>1 DEF StartCall
  <2>2. CASE Send(c, Budget) /\ ~inFlight
    <3>0. /\ call'[c].pc = "wait" /\ call'[c].out = call[c].out /\ inFlight' = TRUE
          /\ \A d \in Call \ {c} : call'[d] = call[d]
      BY <2>2, <1>s DEF Send
    <3>1. plug'.response = None /\ game'.inGame \subseteq game.inGame \cup {c}
      BY <2>2, <1>0 DEF Send, Deliver
    <3>2. call[c].pc = "idle" /\ UNCHANGED answered
      BY <1>6 DEF StartCall
    <3>3. OneWaits'
      BY <3>0, <3>1, <3>2, <2>2, <1>0 DEF OneWaits
    <3>4. AnswerKept'
      BY <3>0, <3>1, <3>2, <2>2, <1>0 DEF OneWaits, AnswerKept, OthersTimedOut
    <3> QED BY <3>3, <3>4
  <2> QED BY <1>6, <2>1, <2>2, <1>0 DEF StartCall
<1>7. ASSUME NEW c \in Call, Poll(c) PROVE OneWaits' /\ AnswerKept'
  <2>1. call[c].pc = "wait" /\ PollCorrelated(c) /\ UNCHANGED answered
    BY <1>7, <1>0 DEF Poll, OneWaits
  <2>2. game'.inGame = game.inGame
    BY <2>1, <1>0 DEF PollCorrelated, ContinueSession
  <2>3. ASSUME NEW o, Return(c, o), o = c \/ o = "TIMEOUT", plug'.response = None,
               o = "TIMEOUT" => plug.response # c, o = c => plug.response = c
        PROVE  OneWaits' /\ AnswerKept'
    <3>1. /\ call'[c].pc = "done" /\ call'[c].out = o /\ (\A d \in Call \ {c} : call'[d] = call[d])
          /\ inFlight' \in BOOLEAN
      BY <2>3, <1>0 DEF Return, CallRec
    <3>2. OneWaits'
      BY <3>1, <2>1, <2>2, <2>3, <1>0 DEF OneWaits
    <3>3. \A d \in Call \ {c} : call[d].pc # "wait"
      BY <2>1 DEF OneWaits
    <3>4. ASSUME NEW d \in Call, OthersTimedOut(d), call[c].out = None PROVE OthersTimedOut(d)'
      BY <3>1, <3>4, <1>0 DEF OthersTimedOut
    <3>5. call[c].out = None
      BY <2>1 DEF OneWaits
    <3>6. AnswerKept'
      BY <3>1, <3>3, <3>4, <3>5, <2>1, <2>3, NamesAssumption DEF AnswerKept
    <3> QED BY <3>2, <3>6
  <2>4. ASSUME NEW left, Suspend(c, "wait", left, call[c].gate), plug'.response = plug.response \/
               (plug.response # c /\ plug'.response = None)
        PROVE  OneWaits' /\ AnswerKept'
    <3>1. /\ call'[c].pc = "wait" /\ call'[c].out = call[c].out /\ inFlight' = TRUE
          /\ \A d \in Call \ {c} : call'[d] = call[d]
      BY <2>4, <1>s
    <3>2. OneWaits'
      BY <3>1, <2>1, <2>2, <2>4, <1>0 DEF OneWaits
    <3>3. \A d \in Call \ {c} : call[d].pc # "wait"
      BY <2>1 DEF OneWaits
    <3>4. AnswerKept'
      BY <3>1, <3>3, <2>1, <2>4 DEF AnswerKept, OthersTimedOut
    <3> QED BY <3>2, <3>4
  <2>5. CASE Return(c, c) /\ plug.response = c /\ plug' = [plug EXCEPT !.response = None]
    BY <2>3, <2>5, <1>0, NamesAssumption
  <2>6. CASE TimeOut(c) /\ plug.response = None
    BY <2>3, <2>6, <1>0, NamesAssumption DEF TimeOut
  <2>7. CASE /\ plug.response \notin {None, c} /\ plug' = [plug EXCEPT !.response = None]
             /\ Suspend(c, "wait", Tick(call[c].left), call[c].gate)
    BY <2>4, <2>7, <1>0
  <2>8. CASE KeepWaiting(c) /\ UNCHANGED plug
    BY <2>4, <2>8 DEF KeepWaiting
  <2> QED BY <2>1, <2>5, <2>6, <2>7, <2>8 DEF PollCorrelated
<1>8. CASE RunProject
  BY <1>8, <1>k, <1>0 DEF RunProject, RunEnds
<1>9. CASE PollRun \/ Frame
  BY <1>9, <1>k DEF PollRun, Frame
<1>10. CASE UNCHANGED vars
  BY <1>10, <1>k DEF vars
<1> QED BY <1>1, <1>2, <1>3, <1>4, <1>6, <1>7, <1>8, <1>9, <1>10 DEF Next

(* A wait for a signal does not time out on an answer that came while it    *)
(* waited, unless the late answer of another wait that timed out hid it.    *)
THEOREM MutexKeepsAnswers == Spec => []WaitNotStarved
<1>1. WInv => WaitNotStarved
  BY DEF WInv, WaitNotStarved, NoStarvation, AnswerKept, OthersTimedOut
<1>2. IInv /\ WInv /\ [Next]_vars => WInv'
  BY WInvStep
<1> QED BY Invariance, WInvInit, <1>1, <1>2, PTL DEF Spec

=============================================================================
