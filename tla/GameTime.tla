----------------------------- MODULE GameTime -----------------------------
(***************************************************************************)
(* The clock of the running game: freeze, thaw, step and step_until, and   *)
(* the input timelines that ride on it (game_bridge/mcp_game_bridge.gd).   *)
(*                                                                         *)
(* A frame of the game is three phases.  At its top the engine delivers    *)
(* injected events and runs physics; the bridge, an autoload, has its      *)
(* _process before the scene's; after the scene's the frame is drawn and   *)
(* the debugger's messages are handled.  Game code may write tree.paused   *)
(* at the top of the frame and in the scene.                               *)
(***************************************************************************)
EXTENDS Integers, FiniteSets

CONSTANTS Input,       \* what can be held: actions, pad buttons, axes, mouse buttons
          Mouse,       \* those of them that are mouse buttons
          MaxStart,    \* bound: when the last press of a timeline is due
          Target,      \* lengths of a step: frames, or units of game time
          Horizon,     \* bound: clocks that have come this far stay there
          WallBudget   \* frames that surely fit in wall_budget_ms

ASSUME InputAssumption == Mouse \subseteq Input
ASSUME TimeAssumption ==
  /\ MaxStart \in Nat /\ WallBudget \in Nat /\ Horizon \in Nat
  /\ MaxStart + 1 <= Horizon
  /\ Target \subseteq 1..Horizon

VARIABLES
  at,          \* what comes next: messages ("poll"), "bridge" or "scene"
  paused,      \* tree.paused
  frozen, gamePaused, processing,
  step,        \* the _step_ members
  seq,         \* the _sequence_ members
  held,        \* the held-state registries; the Input singleton agrees
  shots,       \* captures waiting to be drawn: this sequence's, earlier ones'
  wish,        \* history: what the game itself last wrote to tree.paused
  intent,      \* history: whether the freeze has hidden or lost such a write
  owed,        \* history: unpaused frames a step counted and the scene did not run
  fresh        \* history: scenes still to run for the last event to be seen

vars == <<at, paused, frozen, gamePaused, processing, step, seq, held, shots,
          wish, intent, owed, fresh>>

Least(a, b) == IF a <= b THEN a ELSE b
Most(a, b)  == IF a >= b THEN a ELSE b

Event == [at : 0..MaxStart + 1, input : Input, down : BOOLEAN]

\* Slip: a tap ends when it starts, and a release sorts before a press.
EndOfTap(start, duration) == start + duration

\* A release is strictly later than its press.
EndOf(start, duration) == start + Most(duration, 1)

\* _compile_input_events: one entry, held for a while or tapped.
Entry(i, start, duration) ==
  {[at |-> start, input |-> i, down |-> TRUE],
   [at |-> EndOf(start, duration), input |-> i, down |-> FALSE]}

Timeline == {Entry(i, s, d) : i \in Input, s \in 0..MaxStart, d \in 0..1}

\* Bound: no window has more frames; past the wall budget each takes an event.
FrameCap == WallBudget + 3

NoStep == [active |-> FALSE, finishing |-> FALSE, settle |-> FALSE,
           until |-> FALSE, byFrames |-> FALSE, cut |-> FALSE, last |-> FALSE,
           target |-> 0, fired |-> 0, frames |-> 0, elapsed |-> 0,
           events |-> {}]

NoSequence == [running |-> FALSE, draining |-> FALSE, probe |-> FALSE,
               settle |-> 0, clock |-> 0, pending |-> 0, events |-> {},
               caps |-> {}]

\* Running, or launched frozen (GODOT_MCP_LAUNCH_FROZEN).
Init ==
  /\ at = "poll"
  /\ frozen \in BOOLEAN /\ paused = frozen
  /\ gamePaused = FALSE /\ wish = FALSE /\ intent = "kept"
  /\ processing = TRUE
  /\ step = NoStep /\ seq = NoSequence
  /\ held = {} /\ shots = [own |-> 0, stale |-> 0]
  /\ owed = 0 /\ fresh = [step |-> 0, seq |-> 0]

-----------------------------------------------------------------------------
(* Held input. *)

\* Injected in order of time, a release before a press of the same instant.
HeldAfter(h, due) ==
  {i \in Input :
     LET presses  == {e \in due : e.input = i /\ e.down}
         releases == {e \in due : e.input = i /\ ~e.down}
     IN  \/ i \in h /\ releases = {}
         \/ \E p \in presses : \A r \in releases : r.at <= p.at}

\* _release_held_actions: everything, unless only mouse buttons are held.
ReleaseHeld(h) == IF h \subseteq Mouse THEN h ELSE {}

-----------------------------------------------------------------------------
(* Messages of the debugger, once a frame is drawn. *)

\* Slip: the pause is recorded anew under a freeze.
WishAtFreezeAgain == paused

\* _engage_freeze records the game's pause; under a freeze it does nothing.
WishAtFreeze == IF frozen THEN gamePaused ELSE paused

\* An unpause under the freeze is lost if the bridge writes before it looked.
IntentOverwritten == IF frozen /\ ~paused /\ gamePaused THEN "lost" ELSE intent

\* _handle_game_time_freeze, and a step_until whose predicate already holds.
Freeze ==
  /\ at = "poll" /\ ~step.active /\ ~frozen
  /\ frozen' = TRUE /\ gamePaused' = WishAtFreeze /\ paused' = TRUE
  /\ processing' = TRUE
  /\ UNCHANGED <<at, step, seq, held, shots, wish, intent, owed, fresh>>

\* _handle_game_time_thaw.
Thaw ==
  /\ at = "poll" /\ ~step.active /\ frozen
  /\ frozen' = FALSE /\ paused' = gamePaused
  /\ processing' = seq.running
  /\ intent' = IntentOverwritten
  /\ UNCHANGED <<at, gamePaused, step, seq, held, shots, wish, owed, fresh>>

\* _handle_game_time_step and _step_until: freeze, then open the window with
\* the pause that the game wishes.
OpenWindow(until, byFrames, target, events) ==
  /\ at = "poll" /\ ~step.active
  /\ frozen' = TRUE /\ gamePaused' = WishAtFreeze /\ paused' = gamePaused'
  /\ step' = [NoStep EXCEPT !.active = TRUE, !.until = until, !.byFrames = byFrames,
                !.target = target, !.events = events, !.last = paused']
  /\ processing' = TRUE
  /\ intent' = IntentOverwritten
  /\ fresh' = [fresh EXCEPT !.step = 0]
  /\ UNCHANGED <<at, seq, held, shots, wish, owed>>

Step ==
  \E byFrames \in BOOLEAN, target \in Target, events \in Timeline \cup {{}} :
    OpenWindow(FALSE, byFrames, target, events)

StepUntil ==
  \E target \in Target, events \in Timeline \cup {{}} :
    OpenWindow(TRUE, FALSE, target, events)

\* _handle_execute_input_sequence: what ran before is let go of and replaced;
\* an unknown action is refused after that.
ExecuteInputSequence ==
  /\ at = "poll"
  /\ held' = ReleaseHeld(held)
  /\ shots' = [own |-> 0, stale |-> Least(shots.own + shots.stale, 1)]
  /\ fresh' = [fresh EXCEPT !.seq = 0]
  /\ \/ /\ \E events \in Timeline, caps \in {{}, {0}}, probe \in BOOLEAN :
            seq' = [NoSequence EXCEPT !.running = TRUE, !.events = events,
                                      !.caps = caps, !.probe = probe]
        /\ processing' = TRUE
     \/ /\ seq' = [NoSequence EXCEPT !.running = seq.running, !.clock = seq.clock]
        /\ UNCHANGED processing
  /\ UNCHANGED <<at, paused, frozen, gamePaused, step, wish, intent, owed>>

-----------------------------------------------------------------------------
(* The game's own code.  A pause written under the freeze is written over   *)
(* one: the bridge cannot see it.                                          *)
GameWrites(w) ==
  /\ paused' = w /\ wish' = w
  /\ intent' = IF frozen /\ ~step.active /\ w /\ ~gamePaused THEN "masked" ELSE "kept"

GameCode == UNCHANGED <<paused, wish, intent>> \/ \E w \in BOOLEAN : GameWrites(w)

\* Events are delivered and physics runs.
TopOfFrame ==
  /\ at = "poll" /\ at' = "bridge"
  /\ GameCode
  /\ UNCHANGED <<frozen, gamePaused, processing, step, seq, held, shots, owed, fresh>>

\* Slip: a capture does not give its slot back.
SlotsLeftHeld(n) == seq.pending

\* Slip: nor is the count kept from going below zero.
SlotsLeftBelow(n) == seq.pending - n

\* _send_sequence_capture, for n captures of this and of earlier sequences.
SlotsLeft(n) == Most(seq.pending - n, 0)

\* The scene's _process; frame_post_draw follows if the window is drawn.
Scene(drawn) ==
  /\ at = "scene" /\ at' = "poll"
  /\ GameCode
  /\ owed' = IF step.active /\ ~paused THEN owed - 1 ELSE owed
  /\ fresh' = [step |-> Most(fresh.step - 1, 0), seq |-> Most(fresh.seq - 1, 0)]
  /\ IF drawn THEN /\ shots' = [own |-> 0, stale |-> 0]
                   /\ seq' = [seq EXCEPT !.pending = SlotsLeft(shots.own + shots.stale)]
              ELSE UNCHANGED <<shots, seq>>
  /\ UNCHANGED <<frozen, gamePaused, processing, step, held>>

-----------------------------------------------------------------------------
(* The bridge's _sequence_process, when h is what the clock left held.      *)

DueBy(events, t) == {e \in events : e.at <= t}

\* Slip: the effect is read a frame too early.
SettleFramesOne == 1

SettleFrames == 2

\* Slip: the result does not wait for the captures.
MayEmitEarly(s) == s.settle = 0

\* The result waits for the settle frames and for every capture.
MayEmit(s) == s.settle = 0 /\ s.pending = 0

\* _emit_sequence_result, or not yet.
EmitOrWait(s) == seq' = IF MayEmit(s) THEN [NoSequence EXCEPT !.pending = s.pending] ELSE s

\* The timeline at time clock - 1 of the sequence.
TimelineFrame(h, clock) ==
  LET due   == DueBy(seq.events, clock - 1)
      taken == {c \in seq.caps : c <= clock - 1}
      s == [seq EXCEPT !.clock = clock, !.events = @ \ due, !.caps = @ \ taken,
              !.pending = @ + Cardinality(taken)]
  IN  /\ held' = HeldAfter(h, due)
      /\ shots' = [shots EXCEPT !.own = @ + Cardinality(taken)]
      /\ IF s.events # {} \/ s.caps # {} THEN seq' = s
         ELSE IF s.probe THEN seq' = [s EXCEPT !.draining = TRUE, !.settle = SettleFrames]
         ELSE EmitOrWait([s EXCEPT !.draining = TRUE])

SequenceProcess(h) ==
  \/ /\ ~seq.running /\ held' = h /\ UNCHANGED <<seq, shots>>
  \/ /\ seq.running /\ seq.draining /\ held' = h /\ UNCHANGED shots
     /\ EmitOrWait([seq EXCEPT !.settle = Most(@ - 1, 0)])
  \/ /\ seq.running /\ ~seq.draining
     /\ \E d \in 1..2 : TimelineFrame(h, Least(seq.clock + d, Horizon + 1))

-----------------------------------------------------------------------------
(* The bridge's _process: the clock, then the sequence.                    *)

\* What the bridge takes for the game's wish under a freeze.
Watched == gamePaused /\ paused

\* _game_time_process under a freeze: an unpause is recorded and undone.
Watch ==
  /\ frozen /\ ~step.active
  /\ gamePaused' = Watched /\ paused' = TRUE
  /\ UNCHANGED <<step, intent>>
  /\ SequenceProcess(held)

\* _finish_step; what it has reported is not read again.
FinishStep ==
  /\ step.active /\ step.finishing
  /\ step' = NoStep
  /\ paused' = TRUE
  /\ intent' = IF paused # step.last THEN "lost" ELSE intent
  /\ UNCHANGED gamePaused
  /\ SequenceProcess(ReleaseHeld(held))

\* Slip: a window is one frame longer than asked.
ReachedPast(s) == (IF s.byFrames THEN s.frames ELSE s.elapsed) > s.target

Reached(s) == (IF s.byFrames THEN s.frames ELSE s.elapsed) >= s.target

\* Slip: there is no wall budget.
OverBudgetNever(s) == {FALSE}

\* A frame may take any time, but not less than none.
OverBudget(s) == {late \in BOOLEAN : s.frames > WallBudget => late}

\* Slip: an injected event gets no frame of its own.
EndOfWindowUnsettled(s) == [s EXCEPT !.finishing = TRUE]

\* Slip: the window closes before its last frame has run.
EndOfWindowAtOnce(s) == [s EXCEPT !.active = s.settle, !.settle = FALSE]

\* A window that is done gives an injected event one frame to be seen.
EndOfWindow(s) == [s EXCEPT !.finishing = ~s.settle, !.settle = FALSE]

\* _step_process: a frame of the window that takes d of game time.
WindowFrame(d) ==
  LET due == DueBy(step.events, Least(step.elapsed + d, Horizon))
      s == [step EXCEPT !.last = paused, !.frames = Least(@ + 1, FrameCap),
              !.elapsed = Least(@ + d, Horizon),
              !.events = @ \ due, !.fired = @ + Cardinality(due),
              !.settle = @ \/ due # {}]
  IN  /\ step.active /\ ~step.finishing
      /\ \E met \in {step.until, FALSE}, late \in OverBudget(s) :
           LET t == [s EXCEPT !.cut = @ \/ met \/ late]
           IN  step' = IF Reached(s) \/ met \/ late THEN EndOfWindow(t) ELSE t
      /\ gamePaused' = (IF paused # step.last THEN paused ELSE gamePaused)
      /\ UNCHANGED <<paused, intent>>
      /\ SequenceProcess(HeldAfter(held, due))

\* Slip: processing stops with the sequence.
ProcessingAfterSequenceOff == FALSE

\* _update_processing when a sequence has ended.
ProcessingAfterSequence == frozen \/ step'.active

Bridge ==
  /\ at = "bridge" /\ at' = "scene"
  /\ \/ processing /\ (Watch \/ FinishStep \/ \E d \in 0..2 : WindowFrame(d))
     \/ /\ processing /\ ~frozen /\ ~step.active /\ SequenceProcess(held)
        /\ UNCHANGED <<paused, gamePaused, step, intent>>
     \/ /\ ~processing /\ UNCHANGED <<paused, gamePaused, step, seq, held, shots, intent>>
  /\ processing' = IF seq.running /\ ~seq'.running THEN ProcessingAfterSequence ELSE processing
  /\ fresh' = [step |-> IF step'.fired > step.fired THEN 2 ELSE fresh.step,
                seq  |-> IF seq.running /\ seq'.events # seq.events THEN 2 ELSE fresh.seq]
  /\ owed' = IF step.active /\ ~step.finishing /\ ~paused THEN owed + 1 ELSE owed
  /\ UNCHANGED <<frozen, wish>>

-----------------------------------------------------------------------------
Next ==
  \/ Freeze \/ Thaw \/ Step \/ StepUntil \/ ExecuteInputSequence
  \/ TopOfFrame \/ Bridge \/ \E drawn \in BOOLEAN : Scene(drawn)

Spec == Init /\ [][Next]_vars

\* Frames keep coming and the window is drawn again and again.
Fairness == /\ WF_vars(TopOfFrame) /\ WF_vars(Bridge)
            /\ WF_vars(\E drawn \in BOOLEAN : Scene(drawn)) /\ SF_vars(Scene(TRUE))

FairSpec == Spec /\ Fairness

-----------------------------------------------------------------------------
StepType == [active : BOOLEAN, finishing : BOOLEAN, settle : BOOLEAN,
             until : BOOLEAN, byFrames : BOOLEAN, cut : BOOLEAN, last : BOOLEAN,
             target : Target \cup {0}, fired : 0..2, frames : 0..FrameCap,
             elapsed : 0..Horizon, events : SUBSET Event]

SeqType == [running : BOOLEAN, draining : BOOLEAN, probe : BOOLEAN,
            settle : 0..2, clock : 0..Horizon + 1, pending : 0..1,
            events : SUBSET Event, caps : SUBSET {0}]

(* Types: among them that a step injects its two events once, that the      *)
(* captures under way are counted down to zero and that no frame counted    *)
(* by a step is owed twice.                                                 *)
TypeOK ==
  /\ at \in {"poll", "bridge", "scene"}
  /\ paused \in BOOLEAN /\ frozen \in BOOLEAN /\ gamePaused \in BOOLEAN
  /\ processing \in BOOLEAN /\ wish \in BOOLEAN
  /\ step \in StepType /\ seq \in SeqType
  /\ held \subseteq Input /\ shots \in [own : 0..1, stale : 0..1]
  /\ intent \in {"kept", "masked", "lost"}
  /\ owed \in -1..1 /\ fresh \in [step : 0..2, seq : 0..2]

(* A frozen game does not run: whatever sequences, steps and the game's own *)
(* writes came before, the tree is paused when the scene's turn comes       *)
(* (_game_time_process, "re-assert", and _update_processing).              *)
FreezeHolds == at = "scene" /\ frozen /\ ~step.active => paused

(* An unpaused frame that a step counts is one that the scene has run, no   *)
(* more and no less ("pausing in the same _process call would steal the    *)
(* frame just counted").                                                   *)
CountedFramesRan == at # "scene" => owed = 0

(* Nothing is held down without a release to come: not when a timeline is   *)
(* replaced, when its successor is refused, or when a step ends inside it   *)
(* ("no holds survive across the freeze boundary").  Mouse buttons are      *)
(* excepted: _release_held_actions leaves them when nothing else is held.  *)
NoStuckHold ==
  held \ Mouse \subseteq {e.input : e \in {x \in seq.events \cup step.events : ~x.down}}

(* The bridge knows what pause the game itself wishes, and the tree has it   *)
(* when it is not frozen, unless the freeze hid the game's last write or    *)
(* the bridge wrote before it had seen it.                                 *)
IntentKept ==
  intent = "kept" => /\ ~frozen => paused = wish
                     /\ at = "scene" /\ frozen => gamePaused = wish

(* A step that is not cut short by its predicate or the wall budget advances *)
(* what it was asked: no less, and beyond it only a frame for an input.     *)
StepLength ==
  [][step.active /\ ~step'.active /\ ~step.cut =>
       IF step.byFrames THEN step.frames \in step.target..(step.target + step.fired)
                        ELSE step.elapsed >= step.target]_vars

(* When a step is reported, the scene has had a frame to see its last input *)
(* ("or the final just_pressed edge is lost"); so has it when the effect of *)
(* a sequence is read ("a real effect would read as a no-op").             *)
StepInputSeen == [][step.active /\ ~step'.active => fresh.step = 0]_vars
ProbeSeesEffect == [][seq.running /\ ~seq'.running /\ seq.probe => fresh.seq = 0]_vars

(* The result of a sequence comes after its captures.                       *)
CapturesFirst == [][seq.running /\ ~seq'.running => shots'.own = 0]_vars

(* A step runs what it was asked to, what it counts has run, what is        *)
(* injected was seen before its effect is told, and a result never overtakes *)
(* its captures.                                                           *)
StepsAreHonest ==
  []CountedFramesRan /\ StepLength /\ StepInputSeen /\ ProbeSeesEffect /\ CapturesFirst

(* A step ends whatever the game does to its clock or its pause (the wall    *)
(* budget), and sequences end, unless new ones replace them for ever.       *)
StepEnds == step.active ~> ~step.active
SequenceEnds == []<>~seq.running \/ []<><<ExecuteInputSequence>>_vars

(* "freezing over it, stepping under it, and thawing back to it all preserve *)
(* the game's pause intent" (docs/tools/game-time.md:13): when a step ends,  *)
(* the bridge holds for the game's wish what the game wrote last.           *)
StepKeepsIntent ==
  [][step.active /\ ~step'.active /\ intent = "kept" => gamePaused' = wish]_vars
=============================================================================
