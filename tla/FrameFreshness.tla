--------------------------- MODULE FrameFreshness ---------------------------
(***************************************************************************)
(* The proxy's capture contract (proxy/screenshot.mjs, exec.mjs and        *)
(* see1240-screenshot-contract.mjs, called from router.mjs and npx.mjs):   *)
(* what the answer to a screenshot says of the age of its frame.           *)
(*                                                                         *)
(* A frozen game draws when it is stepped.  The proxy notes the            *)
(* millisecond at which it received the last mutating call and the last    *)
(* call that advances the game, and compares the two when the answer of a  *)
(* capture comes back.  With auto_step it holds the capture, makes a step  *)
(* of its own, and sends the capture when that step is answered or 45 s    *)
(* are over.  The editor is warm and the transport ready: outside that the *)
(* contract is bypassed.                                                   *)
(***************************************************************************)
EXTENDS Integers, FiniteSets, Sequences

CONSTANTS Call,       \* tools/call requests of the client
          MaxClock,   \* bound: Date.now() at most
          Burst,      \* requests the proxy can receive in one millisecond
          StaleMs,    \* resolveStaleCaptureMs()
          None

ContractAssumption ==
  /\ {MaxClock, Burst, StaleMs} \subseteq Nat \ {0}
  /\ None \notin Call \cup {"mutate", "advance", "capture", "stepped", "ok", "error"}

VARIABLES
  now,      \* Date.now()
  marks,    \* S.lastMutationAtMs, S.lastFrameAdvanceAtMs
  pc,       \* each call: new, held for its auto_step, sent, answered
  contract, \* S.screenshotContract: forwardedAtMs, autoStepPerformed
  waiters,  \* S.internalExecWaiters: the call each step id resolves
  timers,   \* the 45 s timers still armed, with the id and call each closed over
  wire,     \* lines on their way to the game
  game,     \* mutations no drawn frame shows; step answers on their way back
  shot,     \* what the frame of a capture misses
  verdict,  \* what the answer of a capture says of its frame
  past      \* history: kind of each received call, their order, the steps that drew nothing

vars == <<now, marks, pc, contract, waiters, timers, wire, game, shot, verdict, past>>

Capture == {"capture", "stepped"}
StepId  == 1..MaxClock

TypeOK ==
  /\ now \in 1..MaxClock
  /\ marks \in [mutation: 0..MaxClock, advance: 0..MaxClock]
  /\ pc \in [Call -> {"new", "held", "sent", "answered"}]
  /\ contract \in [Call -> [at: 0..MaxClock, performed: {None, "ok", "error"}]]
  /\ waiters \in [StepId -> Call \cup {None}]
  /\ timers \subseteq StepId \X Call
  /\ wire \in Seq([to: {"mutate", "advance", "shot"}, call: Call] \cup [to: {"step"}, id: StepId])
  /\ game \in [undrawn: SUBSET Call, answers: SUBSET StepId]
  /\ shot \in [Call -> {None} \cup SUBSET Call]
  /\ verdict \in [Call -> {None, "verified", "no_step_after_mutation", "latency", "ok", "untold"}]
  /\ past \in [kind: [Call -> {None, "mutate", "advance"} \cup Capture],
               order: Seq(Call), failed: SUBSET Call]

Init ==
  /\ now = 1 /\ marks = [mutation |-> 0, advance |-> 0]
  /\ pc = [c \in Call |-> "new"]
  /\ contract = [c \in Call |-> [at |-> 0, performed |-> None]]
  /\ waiters = [i \in StepId |-> None] /\ timers = {} /\ wire = <<>>
  /\ game = [undrawn |-> {}, answers |-> {}]
  /\ shot = [c \in Call |-> None] /\ verdict = [c \in Call |-> None]
  /\ past = [kind |-> [c \in Call |-> None], order |-> <<>>, failed |-> {}]

-----------------------------------------------------------------------------
(* The proxy receives a call.  Marks are taken here, before the call is     *)
(* forwarded and whatever becomes of it.                                    *)

Tick == /\ now < MaxClock /\ now' = now + 1
        /\ UNCHANGED <<marks, pc, contract, waiters, timers, wire, game, shot, verdict, past>>

\* Bounds the requests of one millisecond.
RoomInMs == Cardinality({c \in Call : pc[c] # "new" /\ contract[c].at = now}) < Burst

Received(c, k) ==
  /\ pc[c] = "new" /\ RoomInMs
  /\ past' = [past EXCEPT !.kind[c] = k, !.order = Append(@, c)]
  /\ contract' = [contract EXCEPT ![c].at = now]
  /\ UNCHANGED <<now, game, shot, verdict>>

MarkMutation(m) == [m EXCEPT !.mutation = now]
MarkAdvance(m)  == [m EXCEPT !.advance = now]

\* godot_exec run, godot_input sequence.  A sequence with a screenshot_at_ms is a Mutate and a
\* PlainCapture of one millisecond.
Mutate(c) == /\ Received(c, "mutate") /\ marks' = MarkMutation(marks)
             /\ pc' = [pc EXCEPT ![c] = "sent"]
             /\ wire' = Append(wire, [to |-> "mutate", call |-> c])
             /\ UNCHANGED <<waiters, timers>>

\* godot_game_time step, step_until, thaw
Advance(c) == /\ Received(c, "advance") /\ marks' = MarkAdvance(marks)
              /\ pc' = [pc EXCEPT ![c] = "sent"]
              /\ wire' = Append(wire, [to |-> "advance", call |-> c])
              /\ UNCHANGED <<waiters, timers>>

PlainCapture(c) == /\ Received(c, "capture")
                   /\ pc' = [pc EXCEPT ![c] = "sent"]
                   /\ wire' = Append(wire, [to |-> "shot", call |-> c])
                   /\ UNCHANGED <<marks, waiters, timers>>

\* Slip: no timer stands behind the step.
SteppedCaptureUntimed(c) ==
  /\ Received(c, "stepped") /\ pc' = [pc EXCEPT ![c] = "held"]
  /\ waiters' = [waiters EXCEPT ![now] = c]
  /\ wire' = Append(wire, [to |-> "step", id |-> now])
  /\ UNCHANGED <<marks, timers>>

\* auto_step: the step's id is made of the millisecond, and its waiter is kept by id.  The call
\* may be a sequence with a screenshot_at_ms: the handler returns before it is marked as one.
SteppedCapture(c) ==
  /\ Received(c, "stepped")
  /\ pc' = [pc EXCEPT ![c] = "held"]
  /\ waiters' = [waiters EXCEPT ![now] = c] /\ timers' = timers \cup {<<now, c>>}
  /\ wire' = Append(wire, [to |-> "step", id |-> now])
  /\ UNCHANGED marks

\* runAutoStepThenForward goes on: the outcome is noted, the capture is sent.
GoOn(c, outcome) ==
  /\ contract' = [contract EXCEPT ![c].performed = outcome]
  /\ pc' = [pc EXCEPT ![c] = "sent"]
  /\ wire' = Append(wire, [to |-> "shot", call |-> c])

-----------------------------------------------------------------------------
(* The chain below the proxy handles its lines in order.                    *)

Handled(to) == wire # <<>> /\ Head(wire).to = to /\ wire' = Tail(wire)

GameMutates == /\ Handled("mutate")
               /\ game' = [game EXCEPT !.undrawn = @ \cup {Head(wire).call}]
               /\ UNCHANGED <<now, marks, pc, contract, waiters, timers, shot, verdict, past>>

\* A step draws, or is refused and draws nothing.
GameAdvances ==
  /\ Handled("advance")
  /\ \/ game' = [game EXCEPT !.undrawn = {}] /\ UNCHANGED past
     \/ past' = [past EXCEPT !.failed = @ \cup {Head(wire).call}] /\ UNCHANGED game
  /\ UNCHANGED <<now, marks, pc, contract, waiters, timers, shot, verdict>>

\* The answer to a refused step is a result too (isError), not an error.
GameSteps ==
  /\ Handled("step")
  /\ \E drawn \in {{}, game.undrawn} :
       game' = [undrawn |-> drawn, answers |-> game.answers \cup {Head(wire).id}]
  /\ UNCHANGED <<now, marks, pc, contract, waiters, timers, shot, verdict, past>>

GameDraws == /\ game.undrawn # {} /\ game' = [game EXCEPT !.undrawn = {}]
             /\ UNCHANGED <<now, marks, pc, contract, waiters, timers, wire, shot, verdict, past>>

GameShoots == /\ Handled("shot") /\ shot' = [shot EXCEPT ![Head(wire).call] = game.undrawn]
              /\ UNCHANGED <<now, marks, pc, contract, waiters, timers, game, verdict, past>>

\* A sequence that was held for its step plays, and takes its frame before or after it moves
\* the game; what it misses may have been drawn while it played.
GamePlays ==
  /\ Handled("shot") /\ past.kind[Head(wire).call] = "stepped"
  /\ \E missed \in {{}, game.undrawn, game.undrawn \cup {Head(wire).call}} :
       /\ shot' = [shot EXCEPT ![Head(wire).call] = missed]
       /\ game' = [game EXCEPT !.undrawn = missed \cup {Head(wire).call}]
  /\ UNCHANGED <<now, marks, pc, contract, waiters, timers, verdict, past>>

-----------------------------------------------------------------------------
(* Answers come back, in any order.                                         *)

\* The answer to a step of the proxy's own: a result counts as a frame drawn.
StepAnswered(i) ==
  /\ i \in game.answers /\ game' = [game EXCEPT !.answers = @ \ {i}]
  /\ waiters' = [waiters EXCEPT ![i] = None]
  /\ IF waiters[i] = None THEN UNCHANGED <<pc, contract, timers, wire>>
     ELSE GoOn(waiters[i], "ok") /\ timers' = timers \ {<<i, waiters[i]>>}
  /\ UNCHANGED <<now, marks, shot, verdict, past>>

\* 45 s: the waiter of the id is dropped and the call of this timer goes on.
StepTimer(i, c) ==
  /\ <<i, c>> \in timers /\ timers' = timers \ {<<i, c>>}
  /\ waiters' = [waiters EXCEPT ![i] = None]
  /\ IF waiters[i] = None THEN UNCHANGED <<pc, contract, wire>> ELSE GoOn(c, "error")
  /\ UNCHANGED <<now, marks, game, shot, verdict, past>>

\* Slip: the contract before the marks, which saw a slow capture only.
VerdictByLatency(c) ==
  IF contract[c].performed # None THEN "verified"
  ELSE IF now - contract[c].at > StaleMs THEN "latency" ELSE "ok"

FrameAgeVerdict(c) ==
  IF contract[c].performed # None THEN "verified"
  ELSE IF marks.mutation > marks.advance THEN "no_step_after_mutation"
  ELSE IF now - contract[c].at > StaleMs THEN "latency" ELSE "ok"

\* The marks are those of the moment of the answer, after an await; an answer whose worktree is
\* not found, or whose enrichment throws, goes up as it came.
Judge(c) ==
  /\ pc[c] = "sent" /\ shot[c] # None
  /\ pc' = [pc EXCEPT ![c] = "answered"]
  /\ \E v \in {FrameAgeVerdict(c), "untold"} : verdict' = [verdict EXCEPT ![c] = v]
  /\ UNCHANGED <<now, marks, contract, waiters, timers, wire, game, shot, past>>

Next ==
  \/ \E c \in Call : Mutate(c) \/ Advance(c) \/ PlainCapture(c) \/ SteppedCapture(c) \/ Judge(c)
  \/ GameMutates \/ GameAdvances \/ GameSteps \/ GameDraws \/ GameShoots \/ GamePlays
  \/ \E i \in StepId : StepAnswered(i) \/ \E c \in Call : StepTimer(i, c)
  \/ Tick

Spec == Init /\ [][Next]_vars
\* Timers fire and answers that came are handled; the chain may hang for ever.
FairSpec == Spec /\ \A i \in StepId : WF_vars(StepAnswered(i))
                                      /\ \A c \in Call : WF_vars(StepTimer(i, c))

-----------------------------------------------------------------------------
(* Properties. *)

Before(a, b) == \E i, j \in 1..Len(past.order) :
                  i < j /\ past.order[i] = a /\ past.order[j] = b

\* An advance that drew nothing, or one the client sent later, received before the answer
\* came, or one received in the millisecond of the mutation.
HiddenByAdvance(c, m) ==
  \E a \in Call : /\ past.kind[a] = "advance"
                  /\ \/ Before(m, a) /\ (a \in past.failed \/ Before(c, a))
                     \/ contract[a].at = contract[m].at

(* A capture whose frame is called fresh although it misses a mutation has  *)
(* an advance to thank for it.  The mutations are those the proxy takes     *)
(* note of: not the sequence of a call that was held for its auto_step.     *)
StaleIsHiddenByAdvance ==
  \A c \in Call : verdict[c] = "ok" =>
    \A m \in shot[c] : past.kind[m] = "mutate" => HiddenByAdvance(c, m)

(* The same of every mutation (router.mjs:320-322): not kept by a sequence  *)
(* that was held for its auto_step.                                         *)
EverySequenceCounts ==
  \A c \in Call : verdict[c] = "ok" => \A m \in shot[c] : HiddenByAdvance(c, m)

(* Of the captures that were received in one millisecond and held for their *)
(* steps, one at least is sent on in the end: one that came alone always    *)
(* is.  (The steps of a millisecond share an id.)                           *)
HeldGoesOn ==
  \A c \in Call : pc[c] = "held" ~>
    \E d \in Call : /\ past.kind[d] = "stepped" /\ contract[d].at = contract[c].at
                    /\ pc[d] # "held"

(* Every one of them is (screenshot.mjs:81-82): not kept.                   *)
EveryHeldGoesOn == \A c \in Call : pc[c] = "held" ~> pc[c] # "held"

(* A capture whose answer says that the freshness of the frame is verified  *)
(* shows every mutation that was made before it.                            *)
VerifiedIsFresh == \A c \in Call : verdict[c] = "verified" => shot[c] = {}
=============================================================================
